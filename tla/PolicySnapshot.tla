--------------------------- MODULE PolicySnapshot ---------------------------
(***************************************************************************)
(* The operator's policy (application/src/policy_snapshot): the validator  *)
(* of a snapshot, what a validated snapshot admits at an instant, and the  *)
(* activation ledger of configuration generations.                         *)
(*                                                                         *)
(* A snapshot keeps the values the rules compare (schema, generation,      *)
(* windows, lease TTL, the live flag, its keys); of every other field it   *)
(* keeps only whether it departs from what the validator asks, in `flaws'. *)
(* The ledger is in memory and takes its instants from the caller.         *)
(***************************************************************************)
EXTENDS Naturals, FiniteSets, Sequences, FiniteSetsExt

CONSTANTS
  PolSnapshots,    \* the snapshots an operator may have published
  PolHorizon,      \* last instant
  PolGenerations,  \* highest generation number used
  PolDigests       \* digests a generation's content may have

VARIABLES
  polFile,         \* the published snapshot
  polLoaded,       \* "none", "ok" or the refusal of from_bytes
  polNow,          \* the clock of the policy's users
  polGranted,      \* admissions given under the loaded snapshot, with instant
  genCurrent,      \* ActivationLedger.current
  genGood,         \* ActivationLedger.last_known_good
  genHistory,      \* ActivationLedger.history
  genHighest,      \* ActivationLedger.highest
  genAcked,        \* every acknowledgement ever accepted
  genBound         \* every generation an Attempt was admitted under

polVars == <<polFile, polLoaded, polNow, polGranted>>
genVars == <<genCurrent, genGood, genHistory, genHighest, genAcked, genBound>>
policyVars == <<polVars, genVars>>

Nothing == <<>>
PolComponents == {"kernel", "runner", "verifier", "effects"}
LiveAdmissionMinGeneration == 2
MaxPolicyTtl == 15

-----------------------------------------------------------------------------
(* The snapshot.                                                           *)

ShapeFlaws == {"schema_bundle_hash", "invariant_registry_hash", "unsafe_integer"}
NestedSchemas == {"risk_policy", "evidence_policy", "sandbox_policy",
                  "budget_policy", "route_policy"}
UnsafeFlaws == {"unknown_quota_is_headroom", "arbitrary_shell_gates",
           "author_evidence_is_independent", "unknown_satisfies_gate",
           "no_sealed_product_holdout", "universal_incumbent",
           "evolutionary_authority"}
PolicyFlaws == {"non_canonical"} \cup ShapeFlaws \cup NestedSchemas \cup UnsafeFlaws

\* A key: what it may sign, for whom, and when; revoked is Nothing or an
\* instant.  It is retained past the last instant, so a revocation after the
\* retention is a flaw too.
LifecycleFlaws == {"issuer", "key_id", "identity", "retain_until",
                   "revoked_after_retain_until", "audiences"}
KeyLifecycleBroken(k) ==
  \/ k.flaws \cap LifecycleFlaws # {}
  \/ k.starts >= k.ends
  \/ k.revoked # Nothing /\ k.revoked[1] < k.starts
KeyUse(k) ==
  CASE k.use = "authority" /\ k.audiences # {}  -> "ok"
    [] k.use = "authority" /\ k.audiences = {}  -> "INVALID_AUTHORITY_PUBLIC_KEY"
    [] k.use = "release" /\ k.audiences = {}    -> "ok"
    [] k.use = "release" /\ k.audiences # {}    -> "INVALID_RELEASE_PUBLIC_KEY"
    [] OTHER                                    -> "INVALID_KEY_USE"

ValidateIssuerKeys(keys) ==
  IF \E k \in keys : "schema_version" \in k.flaws THEN {"UNSUPPORTED_POLICY_SCHEMA"}
  ELSE IF \E k \in keys : KeyLifecycleBroken(k) THEN {"INVALID_ISSUER_KEY_LIFECYCLE"}
  ELSE {KeyUse(k) : k \in keys} \ {"ok"}

QualifiesForLiveAdmission(k) ==
  k.use = "authority" /\ "provider-runner" \in k.audiences /\ k.revoked = Nothing
OverlapsPolicyWindow(k, p) == k.starts < p.ends /\ k.ends > p.starts
KeyActiveAt(k, now) ==
  k.starts <= now /\ now < k.ends /\ (k.revoked # Nothing => now < k.revoked[1])

\* Both the runner's self-kill budget, 4/5 of the TTL, and what is left of
\* the TTL after it lie strictly inside the TTL.
SelfKillGracePrecedesExpiry(ttl) ==
  LET ms == ttl * 1000
      budget == (ms \div 5) * 4
  IN  budget < ms /\ ms - budget < ms

RefuseIf(broken, code) == IF broken THEN {code} ELSE {}
\* The refusals of the first rule that refuses.
FirstOf(rules) ==
  LET refusing == {i \in DOMAIN rules : rules[i] # {}}
  IN  IF refusing = {} THEN {} ELSE rules[Min(refusing)]

LiveRefusals(p) ==
  FirstOf(<<
    RefuseIf(p.generation < LiveAdmissionMinGeneration, "LIVE_ADMISSION_REQUIRES_GENERATION"),
    RefuseIf(~\E k \in p.keys : QualifiesForLiveAdmission(k) /\ OverlapsPolicyWindow(k, p),
             "LIVE_ADMISSION_REQUIRES_RUNNER_KEY")>>)

ValidatePolicy(p) ==
  FirstOf(<<
    RefuseIf(p.schema \notin {"v1alpha1", "v1alpha2"}, "UNSUPPORTED_POLICY_SCHEMA"),
    RefuseIf(\/ p.generation = 0 \/ p.starts >= p.ends \/ p.keys = {}
             \/ p.flaws \cap ShapeFlaws # {}, "INVALID_POLICY_WINDOW"),
    RefuseIf(p.flaws \cap NestedSchemas # {}, "UNSUPPORTED_POLICY_SCHEMA"),
    ValidateIssuerKeys(p.keys),
    RefuseIf(p.ttl > MaxPolicyTtl \/ p.flaws \cap UnsafeFlaws # {}, "UNSAFE_POLICY"),
    RefuseIf(~SelfKillGracePrecedesExpiry(p.ttl), "UNSAFE_POLICY"),
    RefuseIf(p.live /\ p.schema = "v1alpha1", "UNSAFE_POLICY"),
    IF p.live THEN LiveRefusals(p) ELSE {}>>)

\* LoadedPolicy::from_bytes.
PolicyRefusals(p) ==
  IF "non_canonical" \in p.flaws THEN {"NON_CANONICAL_POLICY"} ELSE ValidatePolicy(p)

-----------------------------------------------------------------------------
(* What a loaded snapshot admits.                                          *)

ActiveAt(p, now) == p.starts <= now /\ now < p.ends

RequireActiveAt(p, now) ==
  /\ ActiveAt(p, now)
  /\ p.live => \E k \in p.keys : QualifiesForLiveAdmission(k) /\ KeyActiveAt(k, now)

AuthorityKeyAt(p, k, audience, now) ==
  /\ ActiveAt(p, now)
  /\ k \in p.keys /\ k.use = "authority" /\ audience \in k.audiences
  /\ KeyActiveAt(k, now)

ValidateDogfoodAdmission(p) ==
  /\ ~p.live
  /\ p.schema = "v1alpha2"
  /\ p.generation >= LiveAdmissionMinGeneration
  /\ \E k \in p.keys : QualifiesForLiveAdmission(k) /\ OverlapsPolicyWindow(k, p)

LoadPolicy ==
  /\ polLoaded = "none"
  /\ polLoaded' \in IF PolicyRefusals(polFile) = {} THEN {"ok"} ELSE PolicyRefusals(polFile)
  /\ UNCHANGED <<polFile, polNow, polGranted>>

PolicyTick ==
  /\ polNow < PolHorizon
  /\ polNow' = polNow + 1
  /\ UNCHANGED <<polFile, polLoaded, polGranted>>

\* The POLICY step of a live run: require_live_admission, then validate_at.
AdmitLive ==
  /\ polLoaded = "ok" /\ polFile.live /\ RequireActiveAt(polFile, polNow)
  /\ polGranted' = polGranted \cup {<<"live", polNow>>}
  /\ UNCHANGED <<polFile, polLoaded, polNow>>

AdmitDogfood ==
  /\ polLoaded = "ok" /\ ValidateDogfoodAdmission(polFile)
  /\ polGranted' = polGranted \cup {<<"dogfood", polNow>>}
  /\ UNCHANGED <<polFile, polLoaded, polNow>>

-----------------------------------------------------------------------------
(* Configuration generations.  An activation is the generation, the        *)
(* instant it was marked active and who has acknowledged it.               *)

\* A generation requires every component: validate_content refuses another set.
MissingAcks(a) == PolComponents \ a.acked
ActivationPending == genCurrent # Nothing /\ MissingAcks(genCurrent[1]) # {}

\* When the content of a generation says it was created.
GenerationCreatedAt(n) == n \div 2

ActivateGeneration(n, d, at) ==
  /\ at >= GenerationCreatedAt(n)
  /\ genCurrent # Nothing => at >= genCurrent[1].at
  /\ ~ActivationPending
  /\ n > genHighest
  /\ genGood' = IF genCurrent # Nothing THEN genCurrent ELSE genGood
  /\ genHighest' = n
  /\ genCurrent' = <<[number |-> n, digest |-> d, at |-> at, acked |-> {}]>>
  /\ UNCHANGED <<genHistory, genAcked, genBound>>

Acknowledge(c, n, d) ==
  /\ genCurrent # Nothing
  /\ n = genCurrent[1].number /\ d = genCurrent[1].digest
  /\ c \notin genCurrent[1].acked
  /\ genCurrent' = <<[genCurrent[1] EXCEPT !.acked = @ \cup {c}]>>
  /\ genAcked' = genAcked \cup {<<c, n, d>>}
  /\ UNCHANGED <<genGood, genHistory, genHighest, genBound>>

AbortActivation(at) ==
  /\ ActivationPending
  /\ at >= genCurrent[1].at
  /\ genHistory' = Append(genHistory, genCurrent[1].number)
  /\ genCurrent' = genGood
  /\ genGood' = Nothing
  /\ UNCHANGED <<genHighest, genAcked, genBound>>

\* generation_for_admission and the binding an Attempt takes from it.
BindGeneration ==
  /\ genCurrent # Nothing /\ ~ActivationPending
  /\ genBound' = genBound \cup {<<genCurrent[1].number, genCurrent[1].digest>>}
  /\ UNCHANGED <<genCurrent, genGood, genHistory, genHighest, genAcked>>

-----------------------------------------------------------------------------
PolicyInit ==
  /\ polFile \in PolSnapshots
  /\ polLoaded = "none" /\ polNow = 0 /\ polGranted = {}

GenerationInit ==
  /\ genCurrent = Nothing /\ genGood = Nothing /\ genHistory = <<>>
  /\ genHighest = 0 /\ genAcked = {} /\ genBound = {}

PolicyNext == LoadPolicy \/ PolicyTick \/ AdmitLive \/ AdmitDogfood

\* One content per number; an acknowledgement may name any digest.
GenerationDigest(n) == CHOOSE d \in PolDigests : d % 2 = n % 2

GenerationNext ==
  \/ \E n \in 1..PolGenerations, at \in 0..PolHorizon :
       ActivateGeneration(n, GenerationDigest(n), at)
  \/ \E c \in PolComponents, n \in 1..PolGenerations, d \in PolDigests : Acknowledge(c, n, d)
  \/ \E at \in 0..PolHorizon : AbortActivation(at)
  \/ BindGeneration

-----------------------------------------------------------------------------
(* Properties.                                                             *)

\* Live admission is only ever given under a snapshot that is ratified for
\* it and still conservative, at an instant at which one of its keys would
\* verify a grant for the provider runner; and no snapshot serves both the
\* live and the dogfood path.
LiveIsRatified ==
  /\ polGranted # {} => PolicyRefusals(polFile) = {} /\ polFile.ttl \in 1..MaxPolicyTtl
                        /\ polFile.flaws = {} /\ polFile.schema = "v1alpha2"
                        /\ polFile.generation >= LiveAdmissionMinGeneration
  /\ \A g \in polGranted : g[1] = "live" =>
       /\ \E k \in polFile.keys : AuthorityKeyAt(polFile, k, "provider-runner", g[2])
       /\ \A h \in polGranted : h[1] # "dogfood"

\* A generation an Attempt was admitted under was acknowledged, at that
\* digest, by every component; it was never aborted, its number has one
\* digest, and it is never superseded by an older one: once a generation
\* was bound, an abort always falls back to one at least as new.
GenerationsAreOrderly ==
  /\ \A b \in genBound :
       /\ \A c \in PolComponents : <<c, b[1], b[2]>> \in genAcked
       /\ \A i \in DOMAIN genHistory : genHistory[i] # b[1]
       /\ \A o \in genBound : o[1] = b[1] => o = b
       /\ genCurrent # Nothing
       /\ LET base == IF ActivationPending THEN genGood ELSE genCurrent
          IN  base # Nothing /\ b[1] <= base[1].number
  /\ genCurrent # Nothing => genCurrent[1].number <= genHighest
  /\ ActivationPending => genCurrent[1].number = genHighest
=============================================================================
