----------------------- MODULE CandidatePreparation -----------------------
(***************************************************************************)
(* Candidate preparation and the Kernel's mutation permits.  A runner      *)
(* registers the immutable source of a Change, farmd mints one signed      *)
(* grant per source inside a ledger transaction, the runner reads it back  *)
(* and verifies it, the Kernel mints a one-use permit for the exact        *)
(* request, and gitd presents both: the Kernel spends the permit in its    *)
(* memory and then consumes the grant's nonce in the ledger.  The lease,   *)
(* the authority revision and the clock move between any two of these      *)
(* steps; the Kernel process and the runner may restart.                   *)
(*                                                                         *)
(* A source is its content (its digest names it), a grant is named by its  *)
(* source, an attempt by its fence.  The authority epoch and the freeze    *)
(* generation are always compared together and are one number, the era.    *)
(* A message carries at most one flaw; a validator is the set of flaws it  *)
(* refuses.                                                                *)
(***************************************************************************)
EXTENDS Integers, FiniteSets

CONSTANTS
  CpFences,     \* the fences of the variant's attempts, in the order they come
  CpChanges,    \* Change identities
  CpParents,    \* where a source's parent Candidates are
  CpTtls,       \* requested grant lifetimes
  CpLeaseTtl,   \* the lease's lifetime
  CpHorizon,    \* bound: the last instant
  CpSources,    \* bound: sources registered
  CpRevisions,  \* bound: authority revisions and graph deltas together
  CpCrashes,    \* bound: restarts of the Kernel and of runners together
  CpSessions,   \* concurrent Kernel-authority connections
  CpNone        \* no grant, no request, no workload

VARIABLES
  cl,   \* the ledger: lease, authority, sources, grants, consumed nonces
  ck,   \* the Kernel-authority process: reservation rows and sessions
  cr,   \* the runner of each attempt
  ch    \* what was answered, and what gitd holds

cpVars == <<cl, ck, cr, ch>>

-----------------------------------------------------------------------------
(* What the validators look at.                                            *)

\* The canonical decoder: size, UTF-8, shape, and RFC 8785 bytes.
DecodeCanonical == {"bytes", "shape", "not_canonical"}

\* A signed envelope: its schema, issuer, key id and token framing.
ValidateSigned == {"signed_schema", "signed_label", "token_framing"}

\* The claims of a grant.
ValidateGrant ==
  {"claims_constant", "claims_id", "claims_digest", "claims_integer",
   "claims_window", "claims_parents"}

\* The tool manifest of an execution envelope.
ValidateTools == {"no_tool", "tool_fields", "duplicate_tool", "relative_tool"}

\* An execution envelope.
ValidateEnvelope ==
  {"envelope_constant", "envelope_id", "envelope_digest", "envelope_label",
   "envelope_integer", "envelope_window", "toolchain_digest"} \cup ValidateTools

\* A grant against the envelope it names.
ValidateBinding == ValidateGrant \cup ValidateEnvelope \cup {"envelope_binding"}

\* A source before it is hashed or used.
ValidateSource ==
  {"source_schema", "change_id", "root_with_parents", "parents", "ttl"}
    \cup ValidateEnvelope

\* The signing key refuses claims that are not its own.
Sign == ValidateGrant \cup {"foreign_key"}

\* The key authenticates a signed grant: envelope, key, signature, claims.
Authenticate ==
  ValidateSigned \cup {"unknown_key", "signature", "key_identity"}
    \cup DecodeCanonical \cup ValidateGrant

\* A key is made only from well-formed bytes and labels.
KeyBytes == {"key_length", "key_zero", "key_label"}

\* The key file: a small regular file of one owner, itself from open to read.
KeyFile == {"key_file_kind", "key_file_mode", "key_file_links", "key_file_changed"}

\* The runner loads its verification key from a file that stays itself.
LoadKey == KeyBytes \cup KeyFile \cup {"key_path", "key_record"}

\* A stored grant: bytes, digest and envelope, when made and when read.
ValidateStored == ValidateBinding \cup ValidateSigned \cup {"stored_bytes", "stored_digest"}

\* The columns of a stored grant repeat its claims.
DecodeRow == DecodeCanonical \cup ValidateStored \cup {"grant_columns"}

\* The columns of a stored source repeat its bytes.
DecodeSource == DecodeCanonical \cup ValidateSource \cup {"source_columns"}

\* The strict parameters of the four candidate calls.
ParseParams == {"params", "attempt_syntax", "digest_syntax"}

\* The runner's decoder of a prepared grant.
DecodeResponse ==
  {"response_schema", "response_digest", "response_id", "response_subject",
   "response_envelope"} \cup DecodeCanonical \cup ValidateSigned

\* The runner compares the claims with its own attempt, token and lease.
RequireSubject ==
  {"token", "response_subject", "claims_request", "claims_token", "claims_scope",
   "claims_graph", "claims_incarnation", "claims_revision"}

\* farmd compares the request with the claims and the token.
RequireRequestBinding ==
  {"change", "token_digest", "provenance_schema", "provenance_subject",
   "provenance_base", "provenance_parents", "provenance_scope",
   "provenance_snapshots", "provenance_envelope"}

\* A mutation permit: its envelope, its claims and its subject.
PermitEnvelope == {"permit_schema", "permit_label", "permit_framing"}

PermitClaims ==
  {"permit_audience", "permit_id", "permit_digest", "permit_integer", "permit_window"}

\* The permit key signs only valid claims of its own issuer.
SignPermit == PermitClaims \cup {"permit_issuer"}

AuthenticatePermit ==
  PermitEnvelope \cup {"permit_key", "permit_signature", "permit_issuer"} \cup PermitClaims

VerifyPermitSubject == {"permit_subject"}

\* The authority token presented to the Kernel.
TokenFields == {"token_attempt", "token_fence", "token_nonce"}

\* What can be wrong with a source a runner submits, with a grant that comes
\* back to it, with the stored rows, and with a request gitd presents: everything a later step takes
\* for granted.
SourceDefects ==
  {"params", "source_schema", "change_id", "root_with_parents", "parents", "ttl",
   "envelope_constant", "envelope_id", "envelope_digest", "envelope_window",
   "toolchain_digest", "no_tool", "duplicate_tool", "relative_tool"}

GrantDefects ==
  {"response_schema", "response_subject", "response_envelope", "not_canonical",
   "token_framing", "unknown_key", "signature", "claims_window", "claims_request",
   "claims_token", "claims_scope", "claims_graph", "claims_incarnation",
   "claims_revision"}

RowDefects ==
  {"source_columns", "grant_columns", "stored_bytes", "stored_digest",
   "envelope_binding", "foreign_key"}

RequestDefects ==
  {"signature", "claims_window", "change", "token_digest", "provenance_subject",
   "provenance_base", "provenance_parents", "provenance_scope",
   "provenance_snapshots", "provenance_envelope"}

PermitDefects ==
  {"permit_schema", "permit_key", "permit_signature", "permit_audience",
   "permit_window", "permit_subject", "fingerprint"}

-----------------------------------------------------------------------------
(* The ledger.                                                             *)

\* check_active_lease: the attempt's lease row, unexpired.
LeaseIsActive(c, a) == c.lease = a /\ c.now < c.until

\* The authority snapshot of an attempt exists only under its active lease,
\* one owning graph and the current context; it carries the era and the times.
AuthoritySnapshot(c, a) == LeaseIsActive(c, a)

\* The grant a source already has.
Issued(c, s) == {g \in c.grants : g.source = s}

\* Every parent Candidate exists in the source's repository.
RequireParents(s) == s.parents \in {"root", "known"}

\* The source's execution envelope is of the current era and open.
RequireCurrentSource(c, s) == s.era = c.era /\ c.now < s.until

\* The insert trigger on grants: source, attempt and lease rows of one
\* identity, the current authority row, no restored ledger awaiting admission.
GrantInsertGuard(c, g) ==
  /\ g.source \in c.sources
  /\ g.fence = g.source.fence
  /\ c.lease = g.fence
  /\ g.era = c.era
  /\ ~c.pending

\* The insert trigger on consumptions joins the grant instead of the source.
ConsumptionInsertGuard(c, g) ==
  g \in c.grants /\ c.lease = g.fence /\ g.era = c.era /\ ~c.pending

CpLess(a, b) == IF a < b THEN a ELSE b

\* The grant the issuer builds: it ends with the requested lifetime, the lease
\* or the envelope, whichever is first.
BuildRecord(c, s) ==
  [source |-> s, fence |-> s.fence, era |-> c.era, graph |-> c.graph,
   issued |-> c.now,
   until |-> CpLess(CpLess(c.now + s.ttl, c.until), s.until)]

\* One transaction: the grant a source has is returned again (to a workload
\* only while the authority behind it is current), a new one is inserted.
\* The result is the ledger after it, or CpNone when it is refused.
MintBound(c, s, workload) ==
  LET bound == workload # CpNone
      mine == ~bound \/ s.fence = workload
      current == /\ RequireParents(s)
                 /\ AuthoritySnapshot(c, s.fence)
                 /\ RequireCurrentSource(c, s)
      g == BuildRecord(c, s)
  IN CASE Issued(c, s) # {} /\ mine /\ (bound => current) -> c
       [] Issued(c, s) # {} -> CpNone
       [] s \in c.sources /\ mine /\ current /\ g.until > c.now /\ GrantInsertGuard(c, g) ->
            [c EXCEPT !.grants = @ \cup {g}]
       [] OTHER -> CpNone

\* Registration: the same source again is accepted, another source of the same
\* Change is refused.
RegisterSource(c, s) ==
  CASE s \in c.sources -> c
    [] \E t \in c.sources : t.change = s.change -> CpNone
    [] OTHER -> [c EXCEPT !.sources = @ \cup {s}]

\* What the trigger on consumptions compares is all that is compared.
SameAuthorityOfTrigger(c, g) == g.era = c.era

\* Everything the grant was made from is still so: the authority row and the
\* graph and context the trigger does not look at.
SameAuthority(c, g) == g.era = c.era /\ g.graph = c.graph

\* Spending a nonce, in the order of the code.
ConsumeRecord(c, g, a) ==
  CASE g \in c.consumed -> "Replayed"
    [] g.fence # a -> "Unknown"
    [] c.now >= g.until -> "Expired"
    [] ~AuthoritySnapshot(c, a) -> "Unknown"
    [] ~SameAuthority(c, g) -> "Unknown"
    [] ~ConsumptionInsertGuard(c, g) -> "Failed"
    [] OTHER -> "Consumed"

Consumed(c, g) == [c EXCEPT !.consumed = @ \cup {g}]

-----------------------------------------------------------------------------
(* The runner of an attempt.                                               *)

FreeSession == [at |-> "free", req |-> CpNone]

IdleRunner == [at |-> "idle", got |-> CpNone, seen |-> {}]

CpInit ==
  /\ cl = [now |-> 0, era |-> 0, graph |-> 0, pending |-> FALSE, lease |-> 1,
           until |-> CpLeaseTtl, sources |-> {}, grants |-> {}, consumed |-> {}]
  /\ ck = [rows |-> {}, sessions |-> [k \in CpSessions |-> FreeSession]]
  /\ cr = [a \in CpFences |-> IdleRunner]
  /\ ch = [permits |-> {}, passed |-> {}, candidates |-> {}, twice |-> FALSE,
           flawed |-> FALSE, crashes |-> 0, moved |-> 0]

Defective(h, flaw) == [h EXCEPT !.flawed = @ \/ flaw # "none"]

\* candidate_register: the caller's authority is current, the source is valid
\* and of that authority, and it is stored.
CandidateRegister(a, s, flaw) ==
  /\ Cardinality(cl.sources) < CpSources \/ s \in cl.sources
  /\ s.fence = a
  /\ flaw \notin ParseParams \cup ValidateSource
  /\ AuthoritySnapshot(cl, a)
  /\ RequireCurrentSource(cl, s)
  /\ RegisterSource(cl, s) # CpNone
  /\ cl' = RegisterSource(cl, s)
  /\ ch' = Defective(ch, flaw)
  /\ UNCHANGED <<ck, cr>>

\* candidate_prepare: the grant is minted or returned again; the answer may be
\* lost, and the runner does not ask twice.
CandidatePrepare(a, s, lost, flaw) ==
  /\ cr[a].at = "idle"
  /\ s \in cl.sources
  /\ flaw \notin DecodeSource \cup DecodeRow \cup Sign
  /\ MintBound(cl, s, a) # CpNone
  /\ cl' = MintBound(cl, s, a)
  /\ cr' = [cr EXCEPT ![a].at = IF lost THEN "failed" ELSE "prepared",
                      ![a].got = IF lost THEN CpNone
                                 ELSE CHOOSE g \in Issued(cl', s) : TRUE]
  /\ ch' = Defective(ch, flaw)
  /\ UNCHANGED ck

\* candidate_readback: the same mint again, which must find the same grant.
CandidateReadback(a) ==
  /\ cr[a].at = "prepared"
  /\ LET s == cr[a].got.source IN
     cr' = [cr EXCEPT ![a].at =
              IF Issued(cl, s) = {cr[a].got} /\ MintBound(cl, s, a) # CpNone
              THEN "readback" ELSE "failed"]
  /\ UNCHANGED <<cl, ck, ch>>

\* The runner's own admission: authentic, about this attempt, in its window by
\* the runner's clock, and not seen by this process before.
VerifyAt(a, flaw) ==
  LET g == cr[a].got
      refused == \/ flaw \in DecodeResponse \cup Authenticate \cup RequireSubject \cup LoadKey
                 \/ cl.now < g.issued \/ cl.now >= g.until
                 \/ g \in cr[a].seen
  IN /\ cr[a].at = "readback"
     /\ cr' = [cr EXCEPT ![a].at = IF refused THEN "failed" ELSE "verified",
                         ![a].seen = IF refused THEN @ ELSE @ \cup {g}]
     /\ ch' = IF refused THEN ch ELSE Defective(ch, flaw)
     /\ UNCHANGED <<cl, ck>>

\* The runner process dies and is started again for the same attempt: what it
\* had seen is forgotten.
RunnerRestart(a) ==
  /\ cr[a].at # "idle"
  /\ ch.crashes < CpCrashes
  /\ cr' = [cr EXCEPT ![a] = IdleRunner]
  /\ ch' = [ch EXCEPT !.crashes = ch.crashes + 1]
  /\ UNCHANGED <<cl, ck>>

-----------------------------------------------------------------------------
(* The Kernel authority: one row per mutation, in memory.                  *)

\* The gitd calls for which the runner asks the Kernel for a permit; cleanup
\* runs on the sealed preservation receipt.
NeedsPermit ==
  {"clone-workspace", "apply-patch", "checkpoint", "prepare-candidate", "preserve-workspace"}

\* The two kinds of request: one without a grant, and a Candidate under a
\* verified grant.
PatchRequest(a) == [op |-> "apply-patch", fence |-> a, grant |-> CpNone]

CandidateRequest(a, g) == [op |-> "prepare-candidate", fence |-> a, grant |-> g]

\* from_verified_grant: only a verified grant becomes a request.
CandidateRequests ==
  {CandidateRequest(a, cr[a].got) : a \in {b \in CpFences : cr[b].at = "verified"}}

CpRequests == {PatchRequest(a) : a \in CpFences} \cup CandidateRequests

SessionAt(k, at, req) == [ck EXCEPT !.sessions[k] = [at |-> at, req |-> req]]

\* online_subject: the token's attempt exists and its lease is active now.
OnlineSubject(a) == LeaseIsActive(cl, a)

\* The first half of mint and of check: the subject is read under the ledger's
\* lock, which is then released.
OpenMint(k, req, flaw) ==
  /\ ck.sessions[k].at = "free"
  /\ req \in CpRequests /\ req.op \in NeedsPermit
  /\ flaw \notin TokenFields
  /\ OnlineSubject(req.fence)
  /\ ck' = SessionAt(k, "minting", req)
  /\ ch' = Defective(ch, flaw)
  /\ UNCHANGED <<cl, cr>>

\* mint: one row per mutation.  The permit's window begins at the time the
\* caller states (now_unix_ms) and lasts a second of the callers' clocks.
KernelMint(k, flaw) ==
  LET req == ck.sessions[k].req
      row == [req |-> req, spent |-> FALSE]
      issued == \E r \in ck.rows : r.req = req
  IN /\ ck.sessions[k].at = "minting"
     /\ flaw \notin SignPermit
     /\ ck' = [ck EXCEPT !.sessions[k] = FreeSession,
                         !.rows = IF issued THEN @ ELSE @ \cup {row}]
     /\ ch' = [Defective(ch, flaw) EXCEPT !.permits = IF issued THEN @ ELSE @ \cup {req}]
     /\ UNCHANGED <<cl, cr>>

OpenCheck(k, req) ==
  /\ ck.sessions[k].at = "free"
  /\ OnlineSubject(req.fence)
  /\ ck' = SessionAt(k, "subject", req)
  /\ UNCHANGED <<cl, cr, ch>>

\* The refusals of require_signed_mutation_permit.  Whether the window is open
\* (timely) is judged by the time the caller of check states, which the Kernel
\* does not compare with its own: any two statements are possible.
RequireSignedPermit(req, timely, flaw) ==
  /\ flaw \notin AuthenticatePermit \cup VerifyPermitSubject \cup {"fingerprint"}
  /\ req \in ch.permits /\ timely

\* check, first lock: an unspent row of this request, and a permit for it.
FindReservation(k, timely, flaw) ==
  LET req == ck.sessions[k].req
      found == /\ \E r \in ck.rows : r.req = req /\ ~r.spent
               /\ RequireSignedPermit(req, timely, flaw)
  IN /\ ck.sessions[k].at = "subject"
     /\ ck' = SessionAt(k, IF found THEN "reserved" ELSE "free", IF found THEN req ELSE CpNone)
     /\ ch' = IF found THEN Defective(ch, flaw) ELSE ch
     /\ UNCHANGED <<cl, cr>>

\* What gitd may now do, once for a request.
Passes(h, req) ==
  [h EXCEPT !.twice = @ \/ req \in h.passed \/ req.grant \in h.candidates,
            !.passed = @ \cup {req},
            !.candidates = IF req.grant = CpNone THEN @ ELSE @ \cup {req.grant}]

SpendRow(r) == [r EXCEPT !.spent = TRUE]

\* check, second lock: the row is still unspent, and is spent.
SpendReservation(k) ==
  LET req == ck.sessions[k].req
      row == CHOOSE r \in ck.rows : r.req = req
      candidate == req.op = "prepare-candidate"
  IN /\ ck.sessions[k].at = "reserved"
     /\ IF row.spent
        THEN ck' = SessionAt(k, "free", CpNone) /\ UNCHANGED ch
        ELSE /\ ck' = [ck EXCEPT
                 !.rows = (@ \ {row}) \cup {SpendRow(row)},
                 !.sessions[k] = IF candidate THEN [at |-> "spent", req |-> req]
                                 ELSE FreeSession]
             /\ ch' = IF candidate THEN ch ELSE Passes(ch, req)
     /\ UNCHANGED <<cl, cr>>

\* The stored grant is the one presented.
FinalCheck(c, g, a) == IF g \in c.grants THEN ConsumeRecord(c, g, a) ELSE "Refused"

\* The Candidate half of check: the grant is authenticated against the request
\* and then consumed in the ledger; the permit stays spent either way.
FinalCheckCandidate(k, flaw) ==
  LET req == ck.sessions[k].req
      passes == /\ flaw \notin Authenticate \cup RequireRequestBinding
                /\ FinalCheck(cl, req.grant, req.fence) = "Consumed"
  IN /\ ck.sessions[k].at = "spent"
     /\ ck' = SessionAt(k, "free", CpNone)
     /\ cl' = IF passes THEN Consumed(cl, req.grant) ELSE cl
     /\ ch' = IF passes THEN Passes(Defective(ch, flaw), req) ELSE ch
     /\ UNCHANGED cr

\* verify_candidate_preparation_grant over the store's nonce ledger: the other
\* way to spend a nonce.
ConsumeNonce(g) ==
  /\ ConsumeRecord(cl, g, g.fence) = "Consumed"
  /\ cl' = Consumed(cl, g)
  /\ ch' = [ch EXCEPT !.twice = @ \/ g \in ch.candidates]
  /\ UNCHANGED <<ck, cr>>

\* The Kernel restarts: rows and sessions are gone.
KernelRestart ==
  /\ ch.crashes < CpCrashes
  /\ ck' = [rows |-> {}, sessions |-> [k \in CpSessions |-> FreeSession]]
  /\ ch' = [ch EXCEPT !.crashes = ch.crashes + 1, !.passed = {}]
  /\ UNCHANGED <<cl, cr>>

-----------------------------------------------------------------------------
(* What moves around them.                                                 *)

CpTick ==
  cl.now < CpHorizon /\ cl' = [cl EXCEPT !.now = @ + 1] /\ UNCHANGED <<ck, cr, ch>>

\* The holder extends its lease; a lease that ended passes to the next fence.
CpHeartbeat ==
  /\ LeaseIsActive(cl, cl.lease)
  /\ cl' = [cl EXCEPT !.until = cl.now + CpLeaseTtl]
  /\ UNCHANGED <<ck, cr, ch>>

CpTakeover ==
  /\ cl.now >= cl.until
  /\ cl.lease + 1 \in CpFences
  /\ cl' = [cl EXCEPT !.lease = @ + 1, !.until = cl.now + CpLeaseTtl]
  /\ UNCHANGED <<ck, cr, ch>>

\* An authority revision or a graph delta; a restored ledger awaits admission.
CpRevise ==
  /\ ch.moved < CpRevisions
  /\ cl' \in {[cl EXCEPT !.era = @ + 1], [cl EXCEPT !.graph = @ + 1],
             [cl EXCEPT !.pending = TRUE]}
  /\ ch' = [ch EXCEPT !.moved = @ + 1]
  /\ UNCHANGED <<ck, cr>>

CpAdmitRestored ==
  /\ cl.pending
  /\ cl' = [cl EXCEPT !.pending = FALSE]
  /\ UNCHANGED <<ck, cr, ch>>

Submissions(a) ==
  [change : CpChanges, fence : {a}, parents : CpParents, ttl : CpTtls,
   era : {cl.era}, until : {CpHorizon - 1}]

\* Grants: registration to verification, and the other way to spend a nonce.
CpGrantSteps ==
  \/ \E a \in CpFences :
       \/ \E s \in Submissions(a), f \in {"none"} \cup SourceDefects :
            CandidateRegister(a, s, f)
       \/ \E s \in cl.sources, lost \in BOOLEAN, f \in {"none"} \cup RowDefects :
            CandidatePrepare(a, s, lost, f)
       \/ CandidateReadback(a)
       \/ \E f \in {"none"} \cup GrantDefects : VerifyAt(a, f)
       \/ RunnerRestart(a)
  \/ \E g \in cl.grants : ConsumeNonce(g)

\* Permits for the given requests.
PermitSteps(requests) ==
  \/ \E k \in CpSessions :
       \/ \E req \in requests, f \in {"none", "token_fence"} : OpenMint(k, req, f)
       \/ \E f \in {"none", "permit_issuer", "permit_window"} : KernelMint(k, f)
       \/ \E req \in ch.permits : OpenCheck(k, req)
       \/ \E timely \in BOOLEAN, f \in {"none"} \cup PermitDefects : FindReservation(k, timely, f)
       \/ SpendReservation(k)
       \/ \E f \in {"none"} \cup RequestDefects : FinalCheckCandidate(k, f)
  \/ KernelRestart

CpMoves == CpTick \/ CpHeartbeat \/ CpTakeover \/ CpRevise \/ CpAdmitRestored

\* A patch needs a permit and no grant; a Candidate needs both.
CpPatchNext == PermitSteps({PatchRequest(a) : a \in CpFences}) \/ CpMoves
CpCandidateNext == CpGrantSteps \/ PermitSteps(CandidateRequests) \/ CpMoves

CpNext == CpGrantSteps \/ PermitSteps(CpRequests) \/ CpMoves

CpSpec == CpInit /\ [][CpNext]_cpVars

-----------------------------------------------------------------------------
(* Properties.                                                             *)

CpTypeOK ==
  /\ cl.now \in 0..CpHorizon /\ cl.lease \in CpFences /\ cl.pending \in BOOLEAN
  /\ cl.consumed \subseteq cl.grants
  /\ {g.source : g \in cl.grants} \subseteq cl.sources
  /\ \A r \in ck.rows : r.spent \in BOOLEAN
  /\ \A k \in CpSessions :
       ck.sessions[k].at \in {"free", "minting", "subject", "reserved", "spent"}
  /\ \A a \in CpFences :
       cr[a].at \in {"idle", "prepared", "readback", "verified", "failed"}

\* gitd is told to go ahead at most once for a request while a Kernel process
\* lives, and at most once for a grant whatever restarts (the rows of
\* kernel_authority.rs are memory, the nonce is a row); nothing that a
\* validator had to refuse was used.
PermitsAreOneUse ==
  /\ ~ch.twice
  /\ ~ch.flawed
  /\ ch.candidates \subseteq cl.consumed

\* A Change has one grant, and the grant ends within the envelope it was made
\* for (issuer.rs, the UNIQUE column of migration 0019).
OneGrantPerChange ==
  \A g, h \in cl.grants :
    /\ g.source.change = h.source.change => g = h
    /\ g.issued < g.until /\ g.until <= g.source.until /\ g.era = g.source.era

\* What the issuer admits the insert triggers admit too, unless a restored
\* ledger awaits admission: outside a restore they are a backstop, and a
\* workload never sees a store failure for a live authority.
TriggersAreBackstops ==
  ~cl.pending =>
    /\ \A s \in cl.sources :
         RequireParents(s) /\ AuthoritySnapshot(cl, s.fence) /\ RequireCurrentSource(cl, s)
           => GrantInsertGuard(cl, BuildRecord(cl, s))
    /\ \A g \in cl.grants : ConsumeRecord(cl, g, g.fence) # "Failed"

CpSafe == CpTypeOK /\ PermitsAreOneUse /\ OneGrantPerChange /\ TriggersAreBackstops

\* A nonce is spent only under the lease, the era and the graph its grant was
\* minted for, within its window, and never after a later fence held the lease
\* (sqlite/candidate_preparation/nonce.rs).
ConsumedUnderAuthority ==
  \A g \in cl'.consumed \ cl.consumed :
    /\ cl.lease = g.fence /\ cl.now < cl.until
    /\ g.era = cl.era /\ g.graph = cl.graph
    /\ g.issued <= cl.now /\ cl.now < g.until
    /\ ~cl.pending

\* Candidate preparation, whole.
CandidateHolds ==
  [][CpSafe' /\ (cl'.consumed # cl.consumed => ConsumedUnderAuthority)]_cpVars
=============================================================================
