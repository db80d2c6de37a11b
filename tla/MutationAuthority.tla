-------------------------- MODULE MutationAuthority --------------------------
(***************************************************************************)
(* One-use authority bound to a writer lease: durable mutation             *)
(* reservations and their permits                                          *)
(* (adapters/src/sqlite/mutation_authority*.rs, migrations 0017 and 0018)  *)
(* and launch-grant nonces (application/src/launch_grant,                  *)
(* adapters/src/sqlite/launch_grants.rs, harness-core/src/launch_grant).   *)
(*                                                                         *)
(* The ledger is shared with the lease operations of LeaseLedger, which    *)
(* appear here as the few steps that open, extend and end the lease of one *)
(* variant.  Every acquisition makes a new Attempt, so a fence names an    *)
(* Attempt.  All seven authority columns move together, in the one         *)
(* operation that moves them (authority_scope.rs admit), so "authority" is *)
(* the authority epoch.  Reserving, presenting and completing again what   *)
(* is already recorded only reads, and is no action here.                  *)
(*                                                                         *)
(* In this revision present_mutation, the only writer of CONSUMED, is      *)
(* compiled for tests only: the triggers and the loader below already      *)
(* serve it.                                                               *)
(***************************************************************************)
EXTENDS Integers, FiniteSets

CONSTANTS
  Mutations,  \* mutation ids
  Requests,   \* the contract a reservation fixes: operation and digest
  Readbacks,  \* completion digests clients report
  Grants,     \* launch grants, each with its random nonce
  LeaseTtl, PermitTtl, GrantTtl,
  MaxFence,   \* bound: acquisitions
  MaxEpoch,   \* bound: authority epochs
  MaxPermits, \* bound: permits signed
  Horizon,    \* bound: last instant of the clock
  NoRow       \* "no such row"

Fences == 1..MaxFence
Epochs == 1..MaxEpoch

\* AuthorityMoved is the digest the invalidation trigger writes.
AuthorityMoved == "authority moved"
CompletionDigests == Readbacks \cup {AuthorityMoved}

Dispositions == {"RESERVED", "CONSUMED", "SETTLED", "UNKNOWN", "INVALIDATED"}

MutationRow == [request : Requests, fence : Fences, authority : Epochs,
                disposition : Dispositions,
                completion : CompletionDigests \cup {NoRow}]

\* SignedMutationPermitV1 with its verified claims; permit_nonce keeps apart
\* permits that agree on everything else, and no operation compares more.
Permit == [mutation : Mutations, request : Requests, fence : Fences,
           authority : Epochs, issued_at : Nat, expires_at : Nat]

Presentation == [permit : Permit, presented_at : Nat]

\* "settled" stands for every Attempt state in which
\* permits_online_lease_check is false.
LeaseRow == [fence : Fences, attempt : {"online", "settled"}, expires_at : Nat]

NonceRow == [fence : Fences, expires_at : Nat,
             consumed_at : Nat \cup {NoRow}]

\* DurableLeaseBinding as far as mint has got, with the caller's clock.
MintRead == [fence : Fences, expires_at : Nat, at : Nat,
             lease : {"read", "checked"}]

ASSUME AuthorityConstants ==
  /\ LeaseTtl \in Nat \ {0} /\ PermitTtl \in Nat \ {0} /\ GrantTtl \in Nat \ {0}
  /\ MaxFence \in Nat /\ MaxEpoch \in Nat \ {0} /\ Horizon \in Nat
  /\ MaxPermits \in Nat
  /\ NoRow \notin CompletionDigests /\ NoRow \notin MutationRow
  /\ NoRow \notin Presentation /\ NoRow \notin LeaseRow /\ NoRow \notin NonceRow
  /\ NoRow \notin MintRead /\ NoRow \notin [fence : Fences, authority : Epochs]
  /\ NoRow \notin Nat

VARIABLES
  now,          \* the database clock
  fence,        \* variant_fence_counters.next_fence
  lease,        \* active_leases
  reclaimed,    \* when the lease of a fence was reclaimed by expiry
  authority,    \* authority_revisions
  fingerprint,  \* lease_authority_fingerprints, keyed by fence; 0 before
  mutation,     \* mutation_authority
  presentation, \* mutation_permit_presentations
  permits,      \* signed permits in circulation
  nonce,        \* launch_grant_nonces
  mint,         \* what LaunchGrantIssuer::mint has read so far
  grant,        \* signed launch grants: fence and authority they bind
  admitting
leaseVars == <<now, fence, lease, reclaimed, fingerprint>>
mutationVars == <<mutation, presentation, permits>>
grantVars == <<nonce, mint, grant, admitting>>
vars == <<leaseVars, authority, mutationVars, grantVars>>

MutationTypeOK ==
  /\ now \in Nat
  /\ fence \in 0..MaxFence
  /\ lease \in LeaseRow \cup {NoRow}
  /\ reclaimed \in [Fences -> Nat \cup {NoRow}]
  /\ authority \in Epochs
  /\ fingerprint \in [Fences -> Epochs \cup {0}]
  /\ mutation \in [Mutations -> MutationRow \cup {NoRow}]
  /\ presentation \in [Mutations -> Presentation \cup {NoRow}]
  /\ permits \in SUBSET Permit
  /\ nonce \in [Grants -> NonceRow \cup {NoRow}]
  /\ mint \in [Grants -> MintRead \cup {NoRow}]
  /\ grant \in [Grants -> [fence : Fences, authority : Epochs] \cup {NoRow}]
  /\ admitting \in SUBSET Grants

Init ==
  /\ now = 0 /\ fence = 0 /\ lease = NoRow
  /\ reclaimed = [f \in Fences |-> NoRow]
  /\ authority = 1
  /\ fingerprint = [f \in Fences |-> 0]
  /\ mutation = [m \in Mutations |-> NoRow]
  /\ presentation = [m \in Mutations |-> NoRow]
  /\ permits = {}
  /\ nonce = [g \in Grants |-> NoRow]
  /\ mint = [g \in Grants |-> NoRow]
  /\ grant = [g \in Grants |-> NoRow]
  /\ admitting = {}

-----------------------------------------------------------------------------
(* The lease of the variant, as the rest of the ledger moves it.           *)

Tick ==
  /\ now < Horizon
  /\ now' = now + 1
  /\ UNCHANGED <<fence, lease, reclaimed, fingerprint, authority,
                 mutationVars, grantVars>>

\* acquire_lease, with the trigger that captures the current authority.
Acquire ==
  /\ lease = NoRow /\ fence < MaxFence
  /\ fence' = fence + 1
  /\ lease' = [fence |-> fence', attempt |-> "online", expires_at |-> now + LeaseTtl]
  /\ fingerprint' = [fingerprint EXCEPT ![fence'] = authority]
  /\ UNCHANGED <<now, reclaimed, authority, mutationVars, grantVars>>

Heartbeat ==
  /\ lease # NoRow /\ now < lease.expires_at
  /\ lease' = [lease EXCEPT !.expires_at = now + LeaseTtl]
  /\ UNCHANGED <<now, fence, reclaimed, fingerprint, authority,
                 mutationVars, grantVars>>

\* put_attempt, which leaves the lease row to expire.
AttemptSettles ==
  /\ lease # NoRow /\ lease.attempt = "online"
  /\ lease' = [lease EXCEPT !.attempt = "settled"]
  /\ UNCHANGED <<now, fence, reclaimed, fingerprint, authority,
                 mutationVars, grantVars>>

Release ==
  /\ lease # NoRow
  /\ lease' = NoRow
  /\ UNCHANGED <<now, fence, reclaimed, fingerprint, authority,
                 mutationVars, grantVars>>

Reclaim ==
  /\ lease # NoRow /\ lease.expires_at <= now
  /\ lease' = NoRow
  /\ reclaimed' = [reclaimed EXCEPT ![lease.fence] = now]
  /\ UNCHANGED <<now, fence, fingerprint, authority, mutationVars, grantVars>>

ActiveLease(f) ==
  /\ lease # NoRow
  /\ lease.fence = f /\ lease.attempt = "online" /\ now < lease.expires_at

-----------------------------------------------------------------------------
(* Mutation reservations.                                                  *)

Open == {"RESERVED", "CONSUMED"}

\* The trigger on authority_revisions.
Invalidate(rows) ==
  [m \in Mutations |->
     IF rows[m] # NoRow /\ rows[m].disposition = "RESERVED"
     THEN [rows[m] EXCEPT !.disposition = "INVALIDATED"]
     ELSE IF rows[m] # NoRow /\ rows[m].disposition = "CONSUMED"
     THEN [[rows[m] EXCEPT !.disposition = "UNKNOWN"] EXCEPT !.completion = AuthorityMoved]
     ELSE rows[m]]

\* Mutant: nothing stops the epoch at its last value.
MoveAuthorityUnchecked ==
  /\ authority' = authority + 1
  /\ mutation' = Invalidate(mutation)
  /\ UNCHANGED <<leaseVars, presentation, permits, grantVars>>

\* admit: the epoch and the scope move, and nothing open survives.
MoveAuthority ==
  /\ authority < MaxEpoch
  /\ authority' = authority + 1
  /\ mutation' = Invalidate(mutation)
  /\ UNCHANGED <<leaseVars, presentation, permits, grantVars>>

\* The trigger mutation_authority_fresh_lease_insert.
FreshLease(f) == fingerprint[f] = authority

ReserveMutation(m, r, f) ==
  /\ mutation[m] = NoRow
  /\ ActiveLease(f)
  /\ FreshLease(f)
  /\ mutation' = [mutation EXCEPT ![m] =
       [request |-> r, fence |-> f, authority |-> authority,
        disposition |-> "RESERVED", completion |-> NoRow]]
  /\ UNCHANGED <<leaseVars, authority, presentation, permits, grantVars>>

\* mint_signed_permit: a pure signature over what its caller holds.  The
\* caller may hold an authority binding older or newer than the row's.
MintPermit(m, e) ==
  /\ mutation[m] # NoRow /\ e \in 1..authority
  /\ Cardinality(permits) < MaxPermits
  /\ permits' = permits \cup
       {[mutation |-> m, request |-> mutation[m].request,
         fence |-> mutation[m].fence, authority |-> e,
         issued_at |-> now, expires_at |-> now + PermitTtl]}
  /\ UNCHANGED <<leaseVars, authority, mutation, presentation, grantVars>>

\* validate_claims, validate_window, the lease check and the insert guard.
Presentable(p) ==
  LET row == mutation[p.mutation] IN
  /\ row # NoRow /\ row.disposition = "RESERVED"
  /\ p.request = row.request /\ p.fence = row.fence /\ p.authority = row.authority
  /\ p.issued_at <= now /\ now < p.expires_at
  /\ ActiveLease(row.fence)
  /\ row.authority = authority

PresentMutation(p) ==
  /\ Presentable(p)
  /\ presentation' = [presentation EXCEPT ![p.mutation] =
       [permit |-> p, presented_at |-> now]]
  /\ mutation' = [mutation EXCEPT ![p.mutation].disposition = "CONSUMED"]
  /\ UNCHANGED <<leaseVars, authority, permits, grantVars>>

\* Mutant: a late read-back overwrites the outcome a trigger recorded.
CompletableLate(m) ==
  mutation[m] # NoRow /\ mutation[m].disposition \in {"CONSUMED", "UNKNOWN"}

Completable(m) == mutation[m] # NoRow /\ mutation[m].disposition = "CONSUMED"

\* complete_mutation: no lease is needed to report what I/O was done.
CompleteMutation(m, next, digest) ==
  /\ Completable(m)
  /\ mutation' = [mutation EXCEPT ![m] =
       [[@ EXCEPT !.disposition = next] EXCEPT !.completion = digest]]
  /\ UNCHANGED <<leaseVars, authority, presentation, permits, grantVars>>

-----------------------------------------------------------------------------
(* Launch grants.  mint and the admission that verifies a grant make       *)
(* several ledger calls each; other clients move the ledger in between.    *)

\* The wall clock of the caller is read before the ledger is.
MintReadsLease(g) ==
  /\ grant[g] = NoRow /\ mint[g] = NoRow
  /\ lease # NoRow
  /\ mint' = [mint EXCEPT ![g] =
       [fence |-> lease.fence, expires_at |-> lease.expires_at, at |-> now,
        lease |-> "read"]]
  /\ UNCHANGED <<leaseVars, authority, mutationVars, nonce, grant, admitting>>

\* check_active_lease inside durable_lease_binding; refused, mint gives up.
MintChecksLease(g) ==
  /\ mint[g] # NoRow /\ mint[g].lease = "read"
  /\ mint' = [mint EXCEPT ![g] =
       IF ActiveLease(mint[g].fence) THEN [mint[g] EXCEPT !.lease = "checked"]
       ELSE NoRow]
  /\ UNCHANGED <<leaseVars, authority, mutationVars, nonce, grant, admitting>>

Lesser(a, b) == IF a <= b THEN a ELSE b

\* Mutant: the grant lives its full TTL whatever the lease has left.
FullTtl(b) == b.at + GrantTtl

GrantExpiry(b) == Lesser(b.at + GrantTtl, b.expires_at)

\* current_authority, record_launch_grant_nonce and the signature.
MintRecords(g) ==
  /\ mint[g] # NoRow /\ mint[g].lease = "checked"
  /\ mint' = [mint EXCEPT ![g] = NoRow]
  /\ IF GrantExpiry(mint[g]) > mint[g].at
     THEN /\ nonce' = [nonce EXCEPT ![g] =
               [fence |-> mint[g].fence, expires_at |-> GrantExpiry(mint[g]),
                consumed_at |-> NoRow]]
          /\ grant' = [grant EXCEPT ![g] =
               [fence |-> mint[g].fence, authority |-> authority]]
     ELSE UNCHANGED <<nonce, grant>>
  /\ UNCHANGED <<leaseVars, authority, mutationVars, admitting>>

\* The expectation is read from the ledger and compared with the claims.
AdmitCompares(g) ==
  /\ grant[g] # NoRow /\ g \notin admitting
  /\ ActiveLease(grant[g].fence) /\ grant[g].authority = authority
  /\ admitting' = admitting \cup {g}
  /\ UNCHANGED <<leaseVars, authority, mutationVars, nonce, mint, grant>>

Consumable(g) ==
  nonce[g] # NoRow /\ nonce[g].consumed_at = NoRow /\ now < nonce[g].expires_at

\* consume_launch_grant_nonce at the database clock; the provider is
\* launched only if this admission consumed the nonce.
AdmitConsumes(g) ==
  /\ g \in admitting
  /\ admitting' = admitting \ {g}
  /\ nonce' = IF Consumable(g) THEN [nonce EXCEPT ![g].consumed_at = now] ELSE nonce
  /\ UNCHANGED <<leaseVars, authority, mutationVars, mint, grant>>

-----------------------------------------------------------------------------
LeaseSteps ==
  \/ Tick \/ Acquire \/ Heartbeat \/ AttemptSettles \/ Release \/ Reclaim

MutationSteps ==
  \/ \E m \in Mutations, r \in Requests, f \in Fences : ReserveMutation(m, r, f)
  \/ \E m \in Mutations, e \in Epochs : MintPermit(m, e)
  \/ \E p \in permits : PresentMutation(p)
  \/ \E m \in Mutations, next \in {"SETTLED", "UNKNOWN"}, d \in Readbacks :
       CompleteMutation(m, next, d)

GrantSteps ==
  \E g \in Grants :
    \/ MintReadsLease(g) \/ MintChecksLease(g) \/ MintRecords(g)
    \/ AdmitCompares(g) \/ AdmitConsumes(g)

Next == LeaseSteps \/ MoveAuthority \/ MutationSteps \/ GrantSteps

Spec == Init /\ [][Next]_vars

-----------------------------------------------------------------------------
\* What validate_mutation_row asks of a row of the live database, where no
\* restore admission is pending.
RowLoads(m, row) ==
  /\ (row.completion # NoRow) <=> (row.disposition \in {"SETTLED", "UNKNOWN"})
  /\ (presentation[m] # NoRow) <=>
       (row.disposition \in {"CONSUMED", "SETTLED", "UNKNOWN"})
  /\ fingerprint[row.fence] = row.authority
  /\ row.disposition \in Open => row.authority = authority

\* Every stored reservation passes the loader's consistency check, which
\* refuses a row as corrupt otherwise (validate_mutation_row): whatever
\* acquisitions, authority moves, presentations and read-backs interleave, an
\* open row is bound to the current authority, and a row carries a
\* presentation exactly when its permit was spent.
EveryRowLoads ==
  \A m \in Mutations : mutation[m] # NoRow => RowLoads(m, mutation[m])

ClosedRowKept ==
  \A m \in Mutations :
    mutation[m] # NoRow /\ mutation[m].disposition \notin Open
      => mutation'[m] = mutation[m]

\* The recorded outcome of a mutation is final: a late read-back never turns
\* the UNKNOWN that an authority move recorded into SETTLED, and a withdrawn
\* reservation is never revived (complete_mutation, legal_update trigger).
OutcomeIsFinal == [][ClosedRowKept]_vars

\* One-use authority is used only under the lease of the fence it binds, and
\* inside its own window.  A provider is launched (AdmitConsumes), and a permit
\* is spent (PresentMutation), before that fence's lease is reclaimed: mint
\* caps a grant at the expiry it read, leases only get longer, and both uses
\* read the database clock, so no interleaving of mint, admission, expiry and
\* reclaim lets a use follow the reclaim of its own lease.
UsedUnderOwnLease ==
  /\ \A g \in Grants :
       nonce[g] # NoRow /\ nonce[g].consumed_at # NoRow
         /\ reclaimed[nonce[g].fence] # NoRow
       => nonce[g].consumed_at < reclaimed[nonce[g].fence]
  /\ \A m \in Mutations :
       presentation[m] # NoRow =>
         LET p == presentation[m] IN
         /\ p.permit.issued_at <= p.presented_at /\ p.presented_at < p.permit.expires_at
         /\ mutation[m] # NoRow /\ p.permit.fence = mutation[m].fence
         /\ reclaimed[p.permit.fence] # NoRow
              => p.presented_at < reclaimed[p.permit.fence]

\* Mutation rows and grant nonces are sound: they load, and are used only
\* under the lease they bind.
UsesAreBound == EveryRowLoads /\ UsedUnderOwnLease
=============================================================================
