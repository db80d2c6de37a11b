---------------------------- MODULE LeasePermits ----------------------------
(***************************************************************************)
(* Permits of the signed lease transport: the claims a permit binds and    *)
(* their verification (crates/harness-core/src/lease_transport.rs with     *)
(* binding.rs and subject.rs), the Kernel that mints, verifies and spends  *)
(* one inside a store transaction (KernelLeaseTransport of                 *)
(* crates/application/src/lease_transport.rs over the nonce table of       *)
(* crates/adapters/src/sqlite/lease_transport.rs), and the in-process      *)
(* service of the test seams, whose permits its holder keeps and may       *)
(* present late, twice or with another body (SignedLeaseService and        *)
(* SignedLeaseClient).                                                     *)
(*                                                                         *)
(* An attempt is named by the idempotency key it is derived from.  The     *)
(* clock is the wall clock both sides read: it may be set back.            *)
(***************************************************************************)
EXTENDS Integers, FiniteSets

CONSTANTS
  LpKeys,      \* idempotency keys, each with the attempt seeded by it
  LpRunners,   \* Runner identities
  LpOps,       \* the operations presented, a subset of PermitOps
  LpNonces,    \* bound: nonces the seam draws are 1..LpNonces
  LpRows,      \* bound: nonces the Kernel draws are 1..LpRows
  LpTtl,       \* PERMIT_TTL_MS
  LpMaxTime    \* MAX_SAFE_INTEGER, the last instant a claim may carry

ASSUME PermitConstants ==
  LpNonces \in Nat /\ LpRows \in Nat /\ LpTtl \in Nat \ {0} /\ LpMaxTime \in Nat

VARIABLES
  lpNow,       \* unix_ms()
  lpAttempt,   \* each key's attempt in the ledger: its fence, 0 before its acquire, and runner
  lpTable,     \* lease_transport_nonces
  lpMemory,    \* SignedLeaseService: its MemoryNonceLedger
  lpGrants,    \* SignedLeaseService::last_acquire
  lpPermits,   \* permits the seam's holder was given
  lpApplied    \* operations applied, each with the permit spent on it

permitVars == <<lpNow, lpAttempt, lpTable, lpMemory, lpGrants, lpPermits, lpApplied>>

\* LeaseTransportOperation, and binds_incarnation.
PermitOps == {"acquire", "readback", "heartbeat", "advance", "release", "settlement_readback"}
BindsIncarnation(o) == o \in {"heartbeat", "advance", "release", "settlement_readback"}

\* A request as presented: the operation, who presents it, its idempotency
\* key, and the attempt its body names (a grant's body names none but its
\* key's).  The body is what the digest covers.
Presentations ==
  {p \in [op : LpOps, runner : LpRunners, key : LpKeys, body : LpKeys] :
     BindsIncarnation(p.op) \/ p.body = p.key}

\* grant_subject and incarnation_subject: for an incarnation, the attempt and
\* its fence.  The authority epoch is left out: the Kernel reads it twice in one
\* transaction, and the seam has the genesis epoch only.
SubjectOf(o, a) ==
  [attempt |-> {x \in {a} : BindsIncarnation(o)},
   fence |-> IF BindsIncarnation(o) THEN lpAttempt[a].fence ELSE 0]

\* expectation_for.
ExpectationFor(p, subject) == [asked |-> p, subject |-> subject, now |-> lpNow]

\* LeaseTransportExpectation::claims, with the time added saturating.
ClaimsOf(e, n) == [nonce |-> n, asked |-> e.asked, subject |-> e.subject,
                   from |-> e.now, till |-> e.now + LpTtl]

\* LeaseSubjectClaims::validate_shape: the incarnation is there exactly when
\* the operation binds one, with a positive fence.
SubjectShape(s, o) ==
  /\ (s.attempt # {}) = BindsIncarnation(o)
  /\ BindsIncarnation(o) => s.fence >= 1

\* LeaseTransportClaims::validate_shape.
ClaimsShape(c) ==
  /\ c.from < c.till /\ c.till <= LpMaxTime
  /\ c.till - c.from <= LpTtl
  /\ SubjectShape(c.subject, c.asked.op)

\* nonce_binding.
NonceBinding(c) == [op |-> c.asked.op, runner |-> c.asked.runner, key |-> c.asked.key]

\* LeaseTransportExpectation::check: the operation, the digest of the body,
\* the presenter, the key, then the subject field by field.
CheckClaims(e, c) == c.asked = e.asked /\ c.subject = e.subject

RowFor(c) == [nonce |-> c.nonce, binding |-> NonceBinding(c), till |-> c.till, spent |-> FALSE]

\* consume_transport_nonce and MemoryNonceLedger::consume_nonce: the row of
\* this nonce and binding, not spent, not expired.
Consumable(table, c, now) ==
  \E r \in table : r.nonce = c.nonce /\ r.binding = NonceBinding(c) /\ ~r.spent /\ now < r.till

Spend(table, c) ==
  {IF r.nonce = c.nonce THEN [r EXCEPT !.spent = TRUE] ELSE r : r \in table}

\* Bug: a permit that verified before verifies again.
VerifyUnspent(c, e, table) ==
  ClaimsShape(c) /\ CheckClaims(e, c) /\ c.from <= e.now /\ e.now < c.till

\* verify_lease_permit: authenticate, check, window, then the nonce.
VerifyLeasePermit(c, e, table) ==
  /\ ClaimsShape(c) /\ CheckClaims(e, c)
  /\ c.from <= e.now /\ e.now < c.till
  /\ Consumable(table, c, e.now)

PermitsInit ==
  /\ lpNow = 0
  /\ lpAttempt = [k \in LpKeys |-> [fence |-> 0, runner |-> "nobody"]]
  /\ lpGrants = [k \in LpKeys |-> 0]
  /\ lpTable = {} /\ lpMemory = {} /\ lpPermits = {} /\ lpApplied = {}

\* What the ledger does for an operation that was admitted: an acquire that
\* finds no attempt for the key makes one, with the next fence; one under a
\* key another runner used is refused.
NextFence == 1 + Cardinality({k \in LpKeys : lpAttempt[k].fence # 0})
Held(p) == lpAttempt[p.key].fence # 0
LedgerTakes(p) == Held(p) => lpAttempt[p.key].runner = p.runner
Acquired(p) == IF p.op = "acquire" /\ ~Held(p)
               THEN [lpAttempt EXCEPT ![p.key] = [fence |-> NextFence, runner |-> p.runner]]
               ELSE lpAttempt

PermitApplied(c, by) ==
  lpApplied \cup {[by |-> by, permit |-> c, at |-> lpNow, nth |-> Cardinality(lpApplied)]}

-----------------------------------------------------------------------------
\* grant_truth and incarnation_truth: the attempt named must be the one the
\* key derives, held by the runner that presents the request.
KernelTruth(p) ==
  /\ p.body = p.key /\ LedgerTakes(p)
  /\ p.op # "acquire" => Held(p)

\* KernelLeaseTransport::admit_tx: the expectation from the transaction's own
\* rows, the nonce reserved, the claims signed, verified and spent, and the
\* operation applied, in one transaction: a refusal at any point, at the end
\* of the integer range included, leaves nothing.
LpKernelAdmit(p) ==
  LET e == ExpectationFor(p, SubjectOf(p.op, p.body))
      c == ClaimsOf(e, 1 + Cardinality(lpTable))
      reserved == lpTable \cup {RowFor(c)}
  IN /\ c.nonce <= LpRows /\ KernelTruth(p)
     /\ VerifyLeasePermit(c, e, reserved)
     /\ lpTable' = Spend(reserved, c)
     /\ lpAttempt' = Acquired(p)
     /\ lpApplied' = PermitApplied(c, "kernel")
     /\ UNCHANGED <<lpNow, lpMemory, lpGrants, lpPermits>>

-----------------------------------------------------------------------------
(* The seams' service. *)

\* issue_operation_permit: an incarnation is bound from the grant this service
\* stored for the key, whatever attempt the body names.  The nonce is
\* registered before the claims are signed, and stays if signing refuses them.
LpIssue(p) ==
  LET subject == [SubjectOf(p.op, p.key) EXCEPT
                    !.fence = IF BindsIncarnation(p.op) THEN lpGrants[p.key] ELSE 0]
      drawn == {q.nonce : q \in lpPermits \cup lpMemory}
      fresh == CHOOSE n \in 1..(LpNonces + 1) : n \notin drawn /\ 1..(n - 1) \subseteq drawn
      c == ClaimsOf(ExpectationFor(p, subject), fresh)
  IN /\ c.nonce <= LpNonces
     /\ BindsIncarnation(p.op) => lpGrants[p.key] # 0
     /\ lpMemory' = lpMemory \cup {RowFor(c)}
     /\ lpPermits' = IF ClaimsShape(c) THEN lpPermits \cup {c} ELSE lpPermits
     /\ UNCHANGED <<lpNow, lpAttempt, lpTable, lpGrants, lpApplied>>

\* SignedLeaseService::{acquire, readback, heartbeat, release}: the expectation
\* is built from the request and the ledger's attempt.  A verified permit is spent even when the ledger then refuses.
LpPresent(c, p) ==
  LET e == ExpectationFor(p, SubjectOf(p.op, p.body))
  IN /\ p.op \in {"acquire", "readback", "heartbeat", "release"}
     /\ BindsIncarnation(p.op) => lpAttempt[p.body].fence # 0
     /\ VerifyLeasePermit(c, e, lpMemory)
     /\ lpMemory' = Spend(lpMemory, c)
     /\ \/ /\ p.op = "acquire" => LedgerTakes(p)
           /\ p.op = "readback" => lpGrants[p.key] # 0
           /\ lpAttempt' = Acquired(p)
           /\ lpGrants' = IF p.op = "acquire"
                          THEN [lpGrants EXCEPT ![p.key] = lpAttempt'[p.key].fence] ELSE lpGrants
           /\ lpApplied' = PermitApplied(c, "seam")
        \/ UNCHANGED <<lpAttempt, lpGrants, lpApplied>>
     /\ UNCHANGED <<lpNow, lpTable, lpPermits>>

\* The seam's process goes and with it its nonces and grants, not the permits
\* already handed out.
LpSeamRestart ==
  /\ lpMemory # {}
  /\ lpMemory' = {} /\ lpGrants' = [k \in LpKeys |-> 0]
  /\ UNCHANGED <<lpNow, lpAttempt, lpTable, lpPermits, lpApplied>>

\* The wall clock goes on, or is set back.
LpClock ==
  /\ lpNow' \in {lpNow - 1, lpNow + 1} \cap 0..LpMaxTime
  /\ UNCHANGED <<lpAttempt, lpTable, lpMemory, lpGrants, lpPermits, lpApplied>>

PermitsNext ==
  \/ \E p \in Presentations : LpKernelAdmit(p) \/ LpIssue(p)
  \/ \E c \in lpPermits, p \in Presentations : LpPresent(c, p)
  \/ LpSeamRestart \/ LpClock

-----------------------------------------------------------------------------
PermitsTypeOK ==
  /\ lpNow \in 0..LpMaxTime
  /\ lpAttempt \in [LpKeys -> [fence : Nat, runner : LpRunners \cup {"nobody"}]]
  /\ lpGrants \in [LpKeys -> Nat]
  /\ \A r \in lpTable \cup lpMemory : r.nonce \in Nat /\ r.spent \in BOOLEAN
  /\ \A c \in lpPermits : ClaimsShape(c)

\* Every permit is spent on at most one operation, inside its window, however
\* often and however late its holder presents it, and although the clock is
\* set back and the seam's service restarts with an empty nonce ledger.
PermitsAreOneUse ==
  \A x, y \in lpApplied :
    /\ x.permit.from <= x.at /\ x.at < x.permit.till
    /\ x.by = y.by /\ x.permit.nonce = y.permit.nonce => x = y

\* An operation on an incarnation was permitted for the attempt it touched and
\* the fence that attempt still has; one the Kernel admitted left no nonce
\* reserved and unspent in the table, as its refusals leave none.
PermitsNameTheirSubject ==
  /\ \A x \in lpApplied : LET s == x.permit.subject
                          IN \A a \in s.attempt : a = x.permit.asked.body /\ s.fence = lpAttempt[a].fence
  /\ \A r \in lpTable : r.spent

PermitsAreBound == PermitsAreOneUse /\ PermitsNameTheirSubject
=============================================================================
