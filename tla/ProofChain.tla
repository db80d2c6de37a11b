----------------------------- MODULE ProofChain -----------------------------
(***************************************************************************)
(* The independent verifier and the records that carry its verdict: the    *)
(* clean-room run of a Candidate and the signed chain made of it (`pfRun`, *)
(* crates/verifier and signed_verification.rs), the custody of evidence    *)
(* when the live Candidate changes (`pfCustody`, evidence.rs and           *)
(* aggregate.rs), and the two retained receipts of a synthetic selection   *)
(* as the code reads them back (`pfDoc`, selected_subject and              *)
(* effect_receipt.rs).                                                     *)
(*                                                                         *)
(* A receipt is a table of places, a field of a section.  A place holds    *)
(* its own value, or the one it would have in the losing lane ("l"), in    *)
(* another run of the same fixture ("o") or under another plan ("x"): a    *)
(* part left over, or mixed up.  The fixture's seed is fixed, so two runs  *)
(* share every value derived from plan and lane alone.  Digests are        *)
(* collision free; a digest over its own section is taken as made afresh,  *)
(* unless its place "digest" says that it is an old one.                   *)
(***************************************************************************)
EXTENDS Integers, FiniteSets, TLC

CONSTANT PfRecordBound   \* evidence records held at once

VARIABLES pfRun,      \* one verification of a Candidate
          pfCustody,  \* the live Candidate and the evidence held about it
          pfDoc       \* a receipt being read back

pfVars == <<pfRun, pfCustody, pfDoc>>

-----------------------------------------------------------------------------
(* The clean-room run. *)

\* What can go wrong around the Candidate's own verdict: no scratch space, a
\* git read or probe that fails, a gate that cannot start, is killed or hangs.
PfFaults == {"none", "scratch", "read", "probe", "spawn", "signal", "slow"}

PfNoRecord(reason) == [made |-> FALSE, outcome |-> "NONE", reason |-> reason, code |-> -1]
PfRecord(outcome, reason, code) ==
  [made |-> TRUE, outcome |-> outcome, reason |-> reason, code |-> code]

\* The first check that fails gives the answer.
PfFirst(checks, else) ==
  LET bad == {i \in DOMAIN checks : checks[i][1]}
  IN  IF bad = {} THEN else ELSE checks[CHOOSE i \in bad : \A j \in bad : i <= j][2]

\* A fresh clone brought to exactly the requested head, with the requested tree
\* and on the requested base; anything else is a verdict of its own.
PfReconstruct(world, fault) ==
  PfFirst(<< <<~world.clone, PfRecord("INFRA_ERROR", "CLONE_FAILED", -1)>>,
             <<~world.head, PfRecord("INVALIDATED", "HEAD_UNREACHABLE", -1)>>,
             <<fault = "read", PfRecord("INFRA_ERROR", "GIT_READ_FAILED", -1)>>,
             <<~world.tree, PfRecord("INVALIDATED", "TREE_MISMATCH", -1)>>,
             <<fault = "probe", PfNoRecord("IO_FAILED")>>,
             <<~world.base, PfRecord("INVALIDATED", "BASE_NOT_ANCESTOR", -1)>> >>,
          PfRecord("READY", "NONE", -1))

\* classify: the gate's exit status as an outcome.
PfClassify(exit) ==
  CASE exit = "signal" -> PfRecord("INFRA_ERROR", "GATE_SIGNALED", -1)
    [] exit = "nonzero" -> PfRecord("FAIL", "GATE_NONZERO_EXIT", 1)
    [] exit = "zero" -> PfRecord("PASS", "NONE", 0)

\* run_gate: a gate that cannot start or finish is never a PASS.
PfRunGate(world, fault) ==
  CASE fault = "spawn" -> PfRecord("INFRA_ERROR", "GATE_SPAWN_FAILED", -1)
    [] fault = "slow" -> PfRecord("TIMED_OUT", "GATE_TIMEOUT", -1)
    [] fault = "signal" -> PfClassify("signal")
    [] OTHER -> PfClassify(world.gate)

\* execute: the author's own run is refused before any work.
PfExecute(world, overlap, fault) ==
  LET room == PfReconstruct(world, fault)
  IN  PfFirst(<< <<overlap, PfNoRecord("VERIFIER_IS_AUTHOR")>>,
                 <<fault = "scratch", PfNoRecord("IO_FAILED")>>,
                 <<room.outcome # "READY", room>> >>,
              PfRunGate(world, fault))

\* validate_verifier_record: a PASS has no reason and exit code 0.
PfRecordIsAdmissible(r) == r.outcome = "PASS" => r.reason = "NONE" /\ r.code = 0

PfGo(step) == [pfRun EXCEPT !.step = step, !.proc = "none"]

\* run_verifier starts the fixture in a process group of its own.
PfSpawn ==
  /\ pfRun.step \in {"writer", "external"} /\ pfRun.proc = "none"
  /\ pfRun' = [pfRun EXCEPT !.proc = "running"]
  /\ UNCHANGED <<pfCustody, pfDoc>>

\* The fixture answers and exits; a process it started may outlive it.
PfExit(fault, stray) ==
  /\ pfRun.proc = "running"
  /\ pfRun' = [pfRun EXCEPT !.proc = "exited", !.stray = stray,
                            !.got = PfExecute(pfRun.world, pfRun.step = "writer", fault)]
  /\ UNCHANGED <<pfCustody, pfDoc>>

\* wait_with_output: the whole group is killed and reaped before the answer is
\* read.  The writer's run has to be refused, the external one has to PASS.
PfCollect ==
  /\ pfRun.proc = "exited"
  /\ pfRun' = [PfGo(CASE pfRun.step = "writer" /\ pfRun.got.reason = "VERIFIER_IS_AUTHOR" -> "external"
                      [] pfRun.step = "external" /\ pfRun.got.outcome = "PASS" -> "chain"
                      [] OTHER -> "refused")
               EXCEPT !.stray = FALSE]
  /\ UNCHANGED <<pfCustody, pfDoc>>

\* The group cannot be reaped in time, or the answer is too long or never
\* drains: the run is refused whatever the fixture said.
PfCollectFails ==
  /\ pfRun.proc = "exited"
  /\ pfRun' = PfGo("refused")
  /\ UNCHANGED <<pfCustody, pfDoc>>

\* The fixture does not exit in time: it is killed with its group.
PfDeadline ==
  /\ pfRun.proc = "running"
  /\ pfRun' = [PfGo("refused") EXCEPT !.stray = FALSE]
  /\ UNCHANGED <<pfCustody, pfDoc>>

\* verify_candidate from the issued intent on: a second clean-room run under
\* the signed intent, both records signed, and only PASS is retained.
PfChain(fault) ==
  /\ pfRun.step = "chain"
  /\ LET r == PfExecute(pfRun.world, FALSE, fault)
     IN  pfRun' = [PfGo(IF r.made /\ PfRecordIsAdmissible(r) /\ r.outcome = "PASS"
                        THEN "closed" ELSE "refused")
                   EXCEPT !.got = r]
  /\ UNCHANGED <<pfCustody, pfDoc>>

\* The author's workspace loses the head, or goes away, between two runs.
PfWorkspaceChanges ==
  /\ pfRun.step \in {"writer", "external", "chain"} /\ pfRun.world.clone
  /\ \E lost \in {"clone", "head"} :
       /\ pfRun.world[lost]
       /\ pfRun' = [pfRun EXCEPT !.world = [@ EXCEPT ![lost] = FALSE]]
  /\ UNCHANGED <<pfCustody, pfDoc>>

PfNewRun(world) ==
  [step |-> "writer", proc |-> "none", stray |-> FALSE, world |-> world,
   got |-> PfNoRecord("NONE")]
PfGoodWorld == [clone |-> TRUE, head |-> TRUE, tree |-> TRUE, base |-> TRUE, gate |-> "zero"]
PfWorlds ==
  [clone : BOOLEAN, head : BOOLEAN, tree : BOOLEAN, base : BOOLEAN, gate : {"zero", "nonzero"}]

PfVerifyNext ==
  \/ PfSpawn \/ PfCollect \/ PfCollectFails \/ PfDeadline \/ PfWorkspaceChanges
  \/ \E f \in PfFaults : PfChain(f) \/ \E stray \in BOOLEAN : PfExit(f, stray)

-----------------------------------------------------------------------------
(* The custody of evidence. *)

PfSubjects == {"s1", "s2"}
PfTiers == 1 .. 3            \* E1 the writer's sandbox, E2 the verifier, E3 beyond
PfRuns == {"PASS", "FAIL", "ZERO_TESTS", "ORACLE_MODIFIED"}

\* aggregate: a PASS that ran no test is NOT_RUN, a PASS against an oracle the
\* writer changed is INVALIDATED.
PfAggregate(run) ==
  CASE run = "ZERO_TESTS" -> "NOT_RUN"
    [] run = "ORACLE_MODIFIED" -> "INVALIDATED"
    [] OTHER -> run

\* A custody record; `kept` remembers that no other Candidate was live since.
PfEvidence(subject, custody, tier, run) ==
  [subject |-> subject, custody |-> custody, tier |-> tier, run |-> run,
   outcome |-> PfAggregate(run), kept |-> TRUE]

\* independent_requirement_satisfied.
PfSatisfied(required, floor) ==
  \E r \in pfCustody.records :
    r.custody = "independent" /\ r.tier >= floor /\ r.subject = required /\ r.outcome = "PASS"

\* invalidate_on_subject_change.
PfInvalidate(live, records) ==
  {IF r.subject = live THEN r ELSE [r EXCEPT !.outcome = "INVALIDATED", !.kept = FALSE] :
     r \in records}

\* A gate run ends; it may be about a Candidate that is live no more.
PfEvidenceArrives(subject, custody, tier, run) ==
  /\ Cardinality(pfCustody.records) < PfRecordBound
  /\ pfCustody' = [pfCustody EXCEPT !.records = @ \cup {PfEvidence(subject, custody, tier, run)}]
  /\ UNCHANGED <<pfRun, pfDoc>>

PfCandidateChanges(subject) ==
  /\ subject # pfCustody.live
  /\ pfCustody' = [live |-> subject, records |-> PfInvalidate(subject, pfCustody.records)]
  /\ UNCHANGED <<pfRun, pfDoc>>

PfCustodyNext ==
  \/ \E s \in PfSubjects : PfCandidateChanges(s)
  \/ \E s \in PfSubjects, c \in {"writer", "independent"}, t \in PfTiers, r \in PfRuns :
       PfEvidenceArrives(s, c, t, r)

-----------------------------------------------------------------------------
(* The retained receipts. *)

PfRowFields == {"variant", "attempt", "workspace", "authority", "acquire", "release", "candidate",
                "base", "head", "tree", "patch", "digest", "relative", "journal"}
PfViewFields == {"handle", "base", "head", "tree", "patch"}
PfBlindFields == {"handle", "candidate", "binding"}

\* The selection receipt (schema, body and its rows, views and unblinding; "W"
\* is the winner's and "L" the loser's).
PfOrigin ==
  [envelope |-> {"digest"}, shared |-> {"plan", "package", "base", "class"},
   select |-> {"salt", "handle", "candidate", "digest"},
   rowW |-> PfRowFields, rowL |-> PfRowFields, viewW |-> PfViewFields, viewL |-> PfViewFields,
   blindW |-> PfBlindFields, blindL |-> PfBlindFields]

\* The effect receipt: the selected subject and its binding, the effect's
\* authority with the settlement of its lease, the durable effect, the signed
\* verification and the forge's part with the signed observation.
PfEffect ==
  [subject |-> {"plan", "package", "base", "handle", "digest", "class"},
   author |-> {"variant", "attempt", "workspace", "authority", "fence", "policy"},
   chosen |-> {"candidate", "attempt", "base", "head", "tree", "patch", "digest", "path", "relative"},
   binding |-> {"plan", "handle", "package", "patch", "digest", "class"},
   authority |-> {"variant", "attempt", "workspace", "nonce", "authority", "fence", "author",
                  "authorFence", "class"},
   settlement |-> {"package", "variant", "attempt", "fence", "acquire", "digest", "class"},
   outcome |-> {"package", "variant", "attempt", "fence", "workspace", "nonce", "class"},
   lease |-> {"variant", "attempt", "fence", "workspace", "nonce", "digest", "class"},
   effect |-> {"logical", "target", "attempt", "fence", "authority", "class"},
   durable |-> {"logical", "effectId", "target", "head", "attempt", "fence", "created", "digest",
                "class"},
   receipt |-> {"effectId", "receiptId", "target", "head", "created", "class"}]
PfProof ==
  [keys |-> {"intentKey", "verifierKey", "observerKey"}, closure |-> {"digest", "class"},
   intent |-> {"intentId", "candidate", "path", "base", "head", "tree", "author", "policy", "digest", "class"},
   evidence |-> {"evidenceId", "intentId", "candidate", "base", "head", "tree", "author", "digest",
                 "class"},
   proof |-> {"intentId", "evidenceId", "candidate", "root", "bundle", "digest", "class"},
   forge |-> {"delivered", "root", "sha", "subject", "previous", "integrated", "observed", "class"},
   observation |-> {"candidate", "bundle", "root", "subject", "previous", "integrated", "sha",
                    "checkRoot", "observed", "class"}]
PfLayout == PfOrigin @@ PfEffect @@ PfProof

PfSources == {"w", "l", "o", "x"}
PfPlanKind == {"plan", "package", "base", "class", "policy", "fence", "authorFence", "previous"}
PfLaneKind == {"variant", "attempt", "workspace", "nonce", "authority", "acquire", "release",
               "relative", "author"}

\* A field's value for a source: what is derived from the plan is the same in
\* both lanes and in every run, what is derived from the lane in every run.
PfScalar(f, from) ==
  CASE from = "x" -> "x"
    [] from # "x" /\ f \in PfPlanKind -> "w"
    [] from = "o" /\ f \in PfLaneKind -> "w"
    [] from = "l" /\ f \in {"salt", "created"} -> "w"
    [] OTHER -> from

\* blinded_view and unblinding_digest: a handle commits to the salt and to all
\* of the Candidate, an unblinding row to salt, handle and Candidate.
PfHandle(salt, r) == <<salt, r.candidate, r.base, r.head, r.tree, r.patch>>
PfBinding(salt, handle, candidate) == <<salt, handle, candidate>>
PfCandidateOf(from) == [f \in {"candidate", "base", "head", "tree", "patch"} |-> PfScalar(f, from)]

\* Values put together of several: the effect's key and identities, the
\* integration subject, the handle and the unblinding digest.
PfValue(f, from) ==
  LET v(g) == PfScalar(g, from)
      handle == PfHandle(v("salt"), PfCandidateOf(from))
      logical == <<v("candidate"), v("attempt"), v("fence")>>
  IN  CASE f = "handle" -> handle
        [] f = "binding" -> PfBinding(v("salt"), handle, v("candidate"))
        [] f \in {"logical", "effectId"} -> logical
        [] f = "receiptId" -> <<logical, v("created")>>
        [] f = "subject" -> <<v("base"), v("head")>>
        [] OTHER -> v(f)

PfHome(section) == IF section \in {"rowL", "viewL", "blindL"} THEN "l" ELSE "w"

\* The receipt pair as a table, with the places `at` taken from `from`.
PfTable(from, at) ==
  [s \in DOMAIN PfLayout |->
     [f \in PfLayout[s] |-> PfValue(f, IF <<s, f>> \in at THEN from ELSE PfHome(s))]]

PfPlaces(layout) == UNION {{<<s, f>> : f \in layout[s]} : s \in DOMAIN layout}

\* What may be mixed up: two fields, or two whole sections.
PfMixes(layout) ==
  {{p, q} : p, q \in PfPlaces(layout)}
    \cup {PfPlaces(layout) \cap ({a, b} \X UNION {layout[a], layout[b]}) : a, b \in DOMAIN layout}

-----------------------------------------------------------------------------
(* Reading the receipts back.  `d` is the table. *)

PfSame(a, b, fields) == \A f \in fields : a[f] = b[f]
PfFresh(d, section) == d[section].digest = PfHome(section)
PfPlain(d, sections) == \A s \in sections : d[s].class = "w"
PfCandidateFields == {"base", "head", "tree", "patch"}

\* candidate-row digest: the Candidate with its Attempt.
PfRow(r) == <<r.attempt, r.candidate, r.base, r.head, r.tree, r.patch>>

\* SelectedCandidateSubject::validate.  Plan, package and group are those of
\* the fixed seed; Attempt, workspace and authority follow from the variant.
PfSubjectIsValid(d) ==
  /\ d.subject.plan = "w" /\ d.subject.package = "w" /\ PfPlain(d, {"subject"})
  /\ d.author.variant \in {"w", "l"}
  /\ \A f \in {"attempt", "workspace", "authority"} : d.author[f] = d.author.variant
  /\ d.author.fence = "w" /\ d.author.policy = "w"
  /\ d.chosen.attempt = d.author.attempt /\ d.chosen.base = d.subject.base
  /\ PfFresh(d, "chosen")

\* require_origin_shared and require_classification.
PfSharedIsOrigin(d) == PfSame(d.shared, d.subject, {"plan", "package", "base"}) /\ PfPlain(d, {"shared"})

\* replay_origin_lane: what the plan and the row's position derive, and, for
\* the row of the selected Candidate, all of the subject.
PfLaneIsReplayed(d, row, lane) ==
  /\ \A f \in {"variant", "attempt", "workspace", "authority", "acquire", "release"} : d[row][f] = lane
  /\ d[row].base = d.subject.base /\ PfFresh(d, row)
  /\ d[row].candidate = d.chosen.candidate =>
       /\ d[row].attempt = d.author.attempt /\ d[row].relative = d.chosen.relative
       /\ PfSame(d[row], d.chosen, PfCandidateFields) /\ PfRow(d[row]) = PfRow(d.chosen)

\* A row's blinded view and its unblinding, as replayed.
PfViewIsReplayed(d, row, view, blind) ==
  LET handle == PfHandle(d.select.salt, d[row])
  IN  /\ d[view].handle = handle /\ PfSame(d[view], d[row], PfCandidateFields)
      /\ d[blind].handle = handle /\ d[blind].candidate = d[row].candidate
      /\ d[blind].binding = PfBinding(d.select.salt, handle, d[row].candidate)

\* select_exact_pair: the least tree, then patch, then head, then handle.  The
\* order of the values is fixed, with the winner's before the loser's.
PfRank(v) == CHOOSE n \in 1 .. 4 : <<"w", "o", "x", "l">>[n] = v
PfPrecedes(v, w) ==
  LET key(u) == 64 * PfRank(u.tree) + 16 * PfRank(u.patch) + 4 * PfRank(u.head) + PfRank(u.handle[2])
  IN  key(v) <= key(w)
PfSelected(d) == IF PfPrecedes(d.viewW, d.viewL) THEN "rowW" ELSE "rowL"

\* require_origin_selection.
PfSelectionIsReplayed(d) ==
  LET chosen == d[PfSelected(d)]
  IN  /\ PfViewIsReplayed(d, "rowW", "viewW", "blindW") /\ PfViewIsReplayed(d, "rowL", "viewL", "blindL")
      /\ d.viewW.handle # d.viewL.handle
      /\ d.select.handle = PfHandle(d.select.salt, chosen) /\ d.select.handle = d.subject.handle
      /\ chosen.candidate = d.chosen.candidate /\ d.select.candidate = d.chosen.candidate
      /\ PfFresh(d, "select")

\* validate_origin_receipt.
PfOriginIsValid(d) ==
  /\ PfFresh(d, "envelope") /\ PfFresh(d, "subject") /\ PfSharedIsOrigin(d)
  /\ PfLaneIsReplayed(d, "rowW", "w") /\ PfLaneIsReplayed(d, "rowL", "l")
  /\ d.rowW.candidate # d.rowL.candidate
  /\ PfSelectionIsReplayed(d)

\* effect_authority_binding: the effect's own Attempt, workspace, nonce,
\* authority and acquire request follow from the selected variant.
PfEffectAuthority(d) ==
  [f \in {"attempt", "workspace", "nonce", "authority", "acquire"} |-> d.author.variant]

\* ClosedSettlement::validate_internal: one release, told three times.
PfSettlementIsWhole(d) ==
  /\ PfFresh(d, "settlement") /\ PfFresh(d, "lease") /\ PfPlain(d, {"settlement", "outcome", "lease"})
  /\ PfSame(d.outcome, d.settlement, {"package", "variant", "attempt", "fence"})
  /\ PfSame(d.lease, d.outcome, {"workspace", "nonce"})
  /\ PfSame(d.lease, d.settlement, {"variant", "attempt", "fence"})

\* ClosedSettlement::validate_authority.
PfSettlementIsOfAuthority(d) ==
  /\ PfSettlementIsWhole(d)
  /\ PfSame(d.settlement, d.authority, {"variant", "attempt", "fence"})
  /\ PfSame(d.outcome, d.authority, {"variant", "attempt", "fence", "workspace", "nonce"})
  /\ d.settlement.package = d.subject.package
  /\ d.settlement.acquire = PfEffectAuthority(d).acquire

\* EffectAuthorityReceipt::validate: the author's successor on the variant.
PfAuthorityIsSuccessor(d) ==
  /\ PfSettlementIsOfAuthority(d)
  /\ d.authority.variant = d.author.variant /\ d.authority.fence = d.author.fence
  /\ PfSame(d.authority, PfEffectAuthority(d), {"attempt", "workspace", "nonce", "authority"})
  /\ d.authority.author = d.author.attempt /\ d.authority.authorFence = d.author.fence
  /\ PfPlain(d, {"authority"})

\* verify_record: the section is, to the letter, what the holder of the key
\* signed; a verification never signs for the losing lane.
PfVerifyRecord(d, section, key) ==
  \E from \in PfSources \ {"l"} :
    /\ d.keys[key] = PfValue(key, from)
    /\ \A f \in PfLayout[section] : d[section][f] = PfValue(f, from)

\* validate_intent, for the selected Candidate and the request about it.
PfIntentIsExpected(d) ==
  /\ PfVerifyRecord(d, "intent", "intentKey") /\ PfFresh(d, "intent")
  /\ PfSame(d.intent, d.chosen, {"candidate", "path", "base", "head", "tree"})
  /\ d.intent.author = d.author.attempt /\ d.intent.policy = d.author.policy

\* validate_evidence with validate_verifier_record, and validate_proof.
PfEvidenceIsOfIntent(d) ==
  /\ PfVerifyRecord(d, "evidence", "verifierKey") /\ PfFresh(d, "evidence")
  /\ PfSame(d.evidence, d.intent, {"intentId", "candidate", "base", "head", "tree", "author"})
PfProofIsOfEvidence(d) ==
  /\ PfVerifyRecord(d, "proof", "verifierKey") /\ PfFresh(d, "proof")
  /\ PfSame(d.proof, d.intent, {"intentId", "candidate"})
  /\ d.proof.evidenceId = d.evidence.evidenceId

\* SignedVerificationClosure::validate_selected.
PfVerificationIsOfSelected(d) ==
  /\ PfIntentIsExpected(d) /\ PfEvidenceIsOfIntent(d) /\ PfProofIsOfEvidence(d)
  /\ PfFresh(d, "closure") /\ PfPlain(d, {"closure", "intent", "evidence", "proof"})

\* SignedObservationClosure::validate_selected.
PfObservationIsOfSelected(d) ==
  /\ PfVerifyRecord(d, "observation", "observerKey") /\ PfPlain(d, {"observation"})
  /\ d.observation.candidate = d.chosen.candidate /\ d.observation.subject = d.forge.subject
  /\ d.observation.bundle = d.proof.bundle
  /\ d.observation.root = d.proof.root /\ d.observation.checkRoot = d.proof.root
  /\ d.observation.previous = d.chosen.base
  /\ \A f \in {"integrated", "sha", "observed"} : d.observation[f] = d.chosen.head

\* LocalForgeClosure::validate_selected.
PfForgeIsOfSelected(d) ==
  /\ PfObservationIsOfSelected(d) /\ PfPlain(d, {"forge"})
  /\ \A f \in {"delivered", "sha", "integrated", "observed"} : d.forge[f] = d.chosen.head
  /\ d.forge.root = d.proof.root /\ d.forge.previous = d.chosen.base
  /\ d.forge.subject = <<d.chosen.base, d.chosen.head>>

\* EffectChainClosure::validate: the push of the selected head under the
\* effect's authority, and the read-back that settled it.
PfEffectIsOfSelected(d) ==
  LET logical == <<d.chosen.candidate, d.authority.attempt, d.authority.fence>>
  IN  /\ PfFresh(d, "durable") /\ PfVerificationIsOfSelected(d) /\ PfForgeIsOfSelected(d)
      /\ PfPlain(d, {"effect", "durable", "receipt"})
      /\ d.effect.logical = logical /\ d.effect.target = d.chosen.candidate
      /\ PfSame(d.effect, d.authority, {"attempt", "fence", "authority"})
      /\ PfSame(d.durable, d.effect, {"logical", "target", "attempt", "fence"})
      /\ d.durable.effectId = logical /\ d.durable.head = d.chosen.head
      /\ PfSame(d.receipt, d.durable, {"effectId", "created"})
      /\ d.receipt.receiptId = <<logical, d.durable.created>>
      /\ d.receipt.target = d.effect.target /\ d.receipt.head = d.chosen.head

\* Body::validate: all of it, and the binding of the receipt to the subject.
PfBodyIsValid(d) ==
  /\ PfSubjectIsValid(d) /\ PfOriginIsValid(d) /\ PfAuthorityIsSuccessor(d) /\ PfEffectIsOfSelected(d)
  /\ PfSame(d.binding, d.subject, {"plan", "handle", "package"}) /\ d.binding.patch = d.chosen.patch
  /\ PfFresh(d, "binding") /\ PfPlain(d, {"binding"})

-----------------------------------------------------------------------------
(* Sealing the subject: the selection receipt against the two lanes of this
   run as they are in memory (`lane` "w" or "l" stands for its facts).      *)

PfLanes == {"w", "l"}

\* Bug: the row need only name the lane's Candidate.
PfLaneReceiptOfCandidate(d, lane) ==
  \E row \in {"rowW", "rowL"} :
    /\ d[row].candidate = lane
    /\ PfSame(d[row], PfCandidateOf(lane), PfCandidateFields) /\ PfFresh(d, row)

\* require_lane_receipt: the row of the lane's Candidate is that lane's.
PfLaneReceipt(d, lane) ==
  \E row \in {"rowW", "rowL"} :
    /\ d[row].candidate = lane
    /\ \A f \in {"variant", "attempt", "workspace", "authority"} : d[row][f] = lane
    /\ PfSame(d[row], PfCandidateOf(lane), PfCandidateFields) /\ PfFresh(d, row)

\* require_unblinding: exactly one row opens the selected handle.
PfUnblinding(d) ==
  LET rows == {d.blindW, d.blindL}
  IN  /\ d.blindW.candidate # d.blindL.candidate
      /\ \A r \in rows : /\ r.candidate \in PfLanes
                         /\ r.binding = PfBinding(d.select.salt, r.handle, r.candidate)
      /\ \E r \in rows : r.handle = d.select.handle /\ r.candidate = d.select.candidate

\* require_views: each view is of the Candidate its handle opens to.
PfViewsAreOfLanes(d) ==
  \A v \in {"viewW", "viewL"} :
    \E b \in {"blindW", "blindL"}, lane \in PfLanes :
      /\ d[b].handle = d[v].handle /\ d[b].candidate = lane
      /\ PfSame(d[v], PfCandidateOf(lane), PfCandidateFields)

\* seal_facts, of a receipt read back from its file.
PfSealed(d) ==
  /\ PfFresh(d, "envelope") /\ d.shared.package = "w" /\ d.shared.base = "w"
  /\ d.viewW.handle # d.viewL.handle /\ d.viewW.base = d.viewL.base
  /\ d.select.handle = d[IF PfPrecedes(d.viewW, d.viewL) THEN "viewW" ELSE "viewL"].handle
  /\ PfUnblinding(d) /\ PfViewsAreOfLanes(d)
  /\ \A lane \in PfLanes : PfLaneReceipt(d, lane)
  /\ d.select.candidate \in PfLanes

-----------------------------------------------------------------------------
PfReadBack ==
  /\ pfDoc.at = "admit"
  /\ pfDoc' = [pfDoc EXCEPT !.at = IF PfBodyIsValid(PfTable(pfDoc.from, pfDoc.mix))
                                   THEN "admitted" ELSE "refused"]
  /\ UNCHANGED <<pfRun, pfCustody>>

PfSeal ==
  /\ pfDoc.at = "seal"
  /\ pfDoc' = [pfDoc EXCEPT !.at = IF PfSealed(PfTable(pfDoc.from, pfDoc.mix))
                                   THEN "sealed" ELSE "refused"]
  /\ UNCHANGED <<pfRun, pfCustody>>

\* One of the three is at work; none touches another's state.
PfNoDoc(at) == [at |-> at, from |-> "w", mix |-> {}]

ProofIdle ==
  pfCustody = [live |-> "s1", records |-> {}] /\ pfRun = PfNewRun(PfGoodWorld)
    /\ pfDoc = PfNoDoc("custody")

ProofInit ==
  /\ pfCustody = [live |-> "s1", records |-> {}]
  /\ \/ \E world \in PfWorlds : pfRun = PfNewRun(world) /\ pfDoc = PfNoDoc("verify")
     \/ ProofIdle
     \/ /\ pfRun = PfNewRun(PfGoodWorld)
        /\ \E from \in PfSources :
             \/ \E mix \in PfMixes(PfLayout) : pfDoc = [at |-> "admit", from |-> from, mix |-> mix]
             \/ \E mix \in PfMixes(PfOrigin) : pfDoc = [at |-> "seal", from |-> from, mix |-> mix]

ProofNext ==
  \/ pfDoc.at = "verify" /\ PfVerifyNext
  \/ pfDoc.at = "custody" /\ PfCustodyNext
  \/ PfReadBack
  \/ PfSeal

ProofTypesOK ==
  /\ pfRun.step \in {"writer", "external", "chain", "closed", "refused"}
  /\ pfRun.proc \in {"none", "running", "exited"} /\ pfRun.stray \in BOOLEAN
  /\ pfRun.world \in PfWorlds
  /\ pfCustody.live \in PfSubjects /\ Cardinality(pfCustody.records) <= PfRecordBound
  /\ pfDoc.at \in {"verify", "custody", "seal", "admit", "sealed", "admitted", "refused"}

\* A verification is closed only for a Candidate whose gate passes on exactly
\* the requested tree and base: the second clean-room run is not excused by the
\* first (run.rs, verify_candidate).
ClosureIsEarned ==
  pfRun.step = "closed" =>
    pfRun.world.tree /\ pfRun.world.base /\ pfRun.world.gate = "zero" /\ pfRun.got.outcome = "PASS"

\* While a verification goes on, and once it is closed, nothing of a verifier
\* that has answered still runs (ProcessGuard::wait_with_output).
NoStrayVerifier == pfRun.stray => pfRun.proc = "exited" \/ pfRun.step = "refused"

\* Only independent evidence that really passed its tests, against an oracle
\* the writer left alone, meets a requirement on the live Candidate, and only
\* if no other Candidate was live since it came (evidence.rs, aggregate.rs).
EvidenceIsCurrent ==
  \A floor \in PfTiers : PfSatisfied(pfCustody.live, floor) =>
    \E r \in pfCustody.records :
      r.kept /\ r.custody = "independent" /\ r.tier >= floor /\ r.run = "PASS"
        /\ r.subject = pfCustody.live

\* Places whose value is not its own.
PfForeign ==
  {p \in pfDoc.mix : PfValue(p[2], pfDoc.from) # PfValue(p[2], PfHome(p[1]))}

\* What the code admits by its form alone: the digests and paths of a row's
\* artifacts, and, of the losing row, the path of its repository.
PfUnbound == {<<"rowW", "journal">>, <<"rowL", "journal">>, <<"rowL", "relative">>}

\* The winner's repository path, bound to its copy in the subject only.
PfPathCopies == {<<"rowW", "relative">>, <<"chosen", "relative">>}

\* What sealing leaves to the read-back: also the plan digest and the
\* classification, the acquire and release digests and the input digest.
PfUnsealed ==
  PfUnbound \cup {<<"rowW", "relative">>, <<"shared", "plan">>, <<"shared", "class">>, <<"select", "digest">>}
    \cup {"rowW", "rowL"} \X {"acquire", "release"}

\* A receipt that is read back tells of one lane of one run, the one that was
\* selected, in all that the code binds (effect_receipt.rs Body::validate); so
\* does a selection receipt from which the subject is sealed (seal_facts).
ReceiptIsOfOneRun ==
  /\ pfDoc.at = "admitted" => \/ PfForeign \subseteq PfUnbound
                              \/ PfPathCopies \subseteq PfForeign
                                   /\ PfForeign \subseteq PfUnbound \cup PfPathCopies
  /\ pfDoc.at = "sealed" => PfForeign \subseteq PfUnsealed

\* All of these: a verdict is earned, current and read back as it was given.
ProofHolds == ClosureIsEarned /\ NoStrayVerifier /\ EvidenceIsCurrent /\ ReceiptIsOfOneRun
=============================================================================
