---------------------------- MODULE LeaseLedger ----------------------------
(***************************************************************************)
(* The writer-lease part of the durable ledger:                            *)
(* crates/adapters/src/sqlite/{leases,leases/acquire,graph}.rs.            *)
(*                                                                         *)
(* Every operation of the code runs in one BEGIN IMMEDIATE transaction, so *)
(* it is one action here.  A refusal, or an error at any of its steps,     *)
(* rolls the whole transaction back and is a stuttering step: each guard   *)
(* below is the conjunction of the checks the transaction makes.           *)
(*                                                                         *)
(* An acquire request is named by its idempotency key.  The Attempt id is  *)
(* a function of the key (AttemptId::from_seed), so keys and Attempts are  *)
(* one set.  runner_id, runner_epoch and workspace_nonce travel together   *)
(* in every request and every row: "runner" stands for the triple.         *)
(***************************************************************************)
EXTENDS States, Integers

CONSTANTS
  Variants,       \* rows of variant_fence_counters and active_leases
  Packages,       \* work packages of the one mission graph
  PackageOf,      \* the package each variant implements
  Attempts,       \* idempotency keys, hence Attempt ids
  Runners,        \* runner incarnations
  Ttls,           \* lease TTLs clients ask for (1..15 seconds in the code)
  AdvanceTargets, \* Attempt states clients ask put_attempt for
  ReleaseTargets, \* final states clients ask release_lease for
  DeltaTargets,   \* work-package states graph deltas ask for
  FenceBumps,     \* bound: BumpFence operations per variant
  Horizon,        \* bound: last instant of the database clock
  StepBack,       \* bound: how far one clock adjustment may go back
  NoRow           \* "no such row"

LeaseRow == [attempt : Attempts, runner : Runners, fence : Nat, ttl : Ttls,
             heartbeat_at : Int, expires_at : Int]

AttemptRow == [variant : Variants, runner : Runners, fence : Nat,
               state : AttemptStates]

\* The response stored with an applied acquire_lease command.
Grant == [attempt : Attempts, variant : Variants, runner : Runners,
          fence : Nat, ttl : Ttls, expires_at : Int]

OutboxKinds == {"dispatch_attempt", "lease_reclaimed"}

ASSUME LedgerConstants ==
  /\ PackageOf \in [Variants -> Packages]
  /\ Ttls \subseteq Nat \ {0}
  /\ AdvanceTargets \subseteq AttemptStates
  /\ ReleaseTargets \subseteq AttemptStates
  /\ DeltaTargets \subseteq PackageStates
  /\ FenceBumps \in Nat /\ Horizon \in Nat /\ StepBack \in Nat

ASSUME NoRowIsNoRow ==
  NoRow \notin LeaseRow /\ NoRow \notin AttemptRow /\ NoRow \notin Grant

VARIABLES
  now,         \* the database wall clock (strftime 'now')
  fence,       \* variant_fence_counters.next_fence
  graphFence,  \* Variant.fence_counter in the graph body
  lease,       \* active_leases, keyed by variant
  attempt,     \* attempts, keyed by id
  package,     \* work-package states in the graph body
  ready,       \* ready_queue
  command,     \* commands of kind acquire_lease, keyed by idempotency key
  outbox,      \* number of outbox rows of a kind for an Attempt
  returned     \* grants that have reached a caller

ledger == <<fence, graphFence, lease, attempt, package, ready, command, outbox>>
vars == <<now, ledger, returned>>

TypeOK ==
  /\ now \in Int
  /\ fence \in [Variants -> Nat]
  /\ graphFence \in [Variants -> Nat]
  /\ lease \in [Variants -> LeaseRow \cup {NoRow}]
  /\ attempt \in [Attempts -> AttemptRow \cup {NoRow}]
  /\ package \in [Packages -> PackageStates \cup {"Absent"}]
  /\ ready \in SUBSET Packages
  /\ command \in [Attempts -> Grant \cup {NoRow}]
  /\ outbox \in [OutboxKinds -> [Attempts -> Nat]]
  /\ returned \in SUBSET Grant

Init ==
  /\ now = 0
  /\ fence = [v \in Variants |-> 0]
  /\ graphFence = [v \in Variants |-> 0]
  /\ lease = [v \in Variants |-> NoRow]
  /\ attempt = [a \in Attempts |-> NoRow]
  /\ package = [p \in Packages |-> "Absent"]
  /\ ready = {}
  /\ command = [a \in Attempts |-> NoRow]
  /\ outbox = [k \in OutboxKinds |-> [a \in Attempts |-> 0]]
  /\ returned = {}

-----------------------------------------------------------------------------
(* Reading the tables. *)

\* Bug: a lease counts as expired one instant early.
DueEarly(v) == lease[v] # NoRow /\ lease[v].expires_at <= now + 1

\* due_leases and reclaim_expired_variant: the expiry has already passed.
Due(v) == lease[v] # NoRow /\ lease[v].expires_at <= now

\* Bug: an Attempt that is preparing its candidate is never reclaimed.
ReclaimableButPreparing(v) ==
  attempt[lease[v].attempt].state \in LiveAttemptStates \ {"Preparing"}

\* reclaim refuses a holder whose state does not permit expiry reclaim.
Reclaimable(v) == attempt[lease[v].attempt].state \in LiveAttemptStates

\* requeue_package moves a package only along a legal edge to Ready.
Requeueable(p) == <<package[p], "Ready">> \in PackageTransition

\* The packages requeue_package really moves when it is called for each of S.
Requeued(S) == {p \in S : Requeueable(p)}

\* database_window: a lease row whose window of t seconds starts now.
Window(a, r, f, t) ==
  [attempt |-> a, runner |-> r, fence |-> f, ttl |-> t,
   heartbeat_at |-> now, expires_at |-> now + t]

\* Bug: the fence is minted only when the variant has never been leased.
FenceMintedOnce(v) == IF fence[v] = 0 THEN 1 ELSE fence[v]

\* The fence acquire_on mints: the counter's next value.  Reclaiming and
\* releasing never touch the counter.
NextFence(v) == fence[v] + 1

\* Bug: reclaim writes a state the schema does not know.
ReclaimedAsExpired(rows, V) ==
  [a \in Attempts |->
     IF \E v \in V : lease[v].attempt = a
     THEN [rows[a] EXCEPT !.state = "Expired"] ELSE rows[a]]

Reclaimed(rows, V) ==
  [a \in Attempts |->
     IF \E v \in V : lease[v].attempt = a
     THEN [rows[a] EXCEPT !.state = "Crashed"] ELSE rows[a]]

Enqueued(kind, A) ==
  [outbox EXCEPT ![kind] = [a \in Attempts |->
     IF a \in A THEN @[a] + 1 ELSE @[a]]]

-----------------------------------------------------------------------------
(* The operations. *)

\* materialize_plan_command, first application: every package starts Ready
\* with its ready row.  A replay returns the stored graph.
Materialize ==
  /\ \A p \in Packages : package[p] = "Absent"
  /\ package' = [p \in Packages |-> "Ready"]
  /\ ready' = Packages
  /\ UNCHANGED <<now, fence, graphFence, lease, attempt, command, outbox,
                 returned>>

\* acquire_on, first application, for key a.  A dead lease of the variant is
\* reclaimed first, in the same transaction.  acquire_lease may fail after
\* the commit, so the grant may or may not reach the caller.
AcquireLease(a, v, r, t) ==
  LET p      == PackageOf[v]
      dead   == IF Due(v) THEN {v} ELSE {}
      back   == IF Due(v) THEN Requeued({p}) ELSE {}
      f      == NextFence(v)
      grant  == [attempt |-> a, variant |-> v, runner |-> r, fence |-> f,
                 ttl |-> t, expires_at |-> now + t]
      Marked == Reclaimed(attempt, dead)
  IN /\ now + t <= Horizon
     /\ command[a] = NoRow
     /\ Due(v) => Reclaimable(v)
     /\ package[p] = "Ready" \/ p \in back
     /\ p \in ready \cup back
     /\ lease[v] = NoRow \/ Due(v)
     /\ attempt[a] = NoRow
     /\ fence' = [fence EXCEPT ![v] = f]
     /\ graphFence' = [graphFence EXCEPT ![v] = f]
     /\ attempt' = [Marked EXCEPT ![a] = [variant |-> v, runner |-> r,
                                          fence |-> f, state |-> "Starting"]]
     /\ lease' = [lease EXCEPT ![v] = Window(a, r, f, t)]
     /\ ready' = ready \ {p}
     /\ package' = [package EXCEPT ![p] = "Leased"]
     /\ command' = [command EXCEPT ![a] = grant]
     /\ outbox' = [Enqueued("lease_reclaimed", {lease[u].attempt : u \in dead})
                     EXCEPT !["dispatch_attempt"][a] = @ + 1]
     /\ returned' \in {returned, returned \cup {grant}}
     /\ UNCHANGED now

\* Bug: a replay renews the expiry instead of returning the stored response.
ReplayAcquireRenewed(a, v, r, t) ==
  /\ command[a] # NoRow
  /\ command[a].variant = v /\ command[a].runner = r /\ command[a].ttl = t
  /\ returned' = returned \cup {[command[a] EXCEPT !.expires_at = now + t]}
  /\ UNCHANGED <<now, ledger>>

\* acquire_on, replay: the stored response is returned when the payload
\* matches; a different payload under the key is refused.
ReplayAcquire(a, v, r, t) ==
  /\ command[a] # NoRow
  /\ command[a].variant = v /\ command[a].runner = r /\ command[a].ttl = t
  /\ returned' = returned \cup {command[a]}
  /\ UNCHANGED <<now, ledger>>

\* heartbeat_on: the six identity columns, the TTL and the live window.
Heartbeat(v, a, f, r, t) ==
  /\ now + t <= Horizon
  /\ lease[v] # NoRow
  /\ attempt[lease[v].attempt].state \in LiveAttemptStates
  /\ lease[v].attempt = a /\ lease[v].fence = f
  /\ lease[v].runner = r /\ lease[v].ttl = t
  /\ lease[v].heartbeat_at <= now /\ now < lease[v].expires_at
  /\ lease' = [lease EXCEPT ![v] = Window(a, r, f, t)]
  /\ UNCHANGED <<now, fence, graphFence, attempt, package, ready, command,
                 outbox, returned>>

\* put_attempt_on: an existing row moves along a legal edge.  Identity
\* columns are immutable; no lease is consulted.
PutAttempt(a, s) ==
  /\ attempt[a] # NoRow
  /\ <<attempt[a].state, s>> \in AttemptTransition
  /\ attempt' = [attempt EXCEPT ![a].state = s]
  /\ UNCHANGED <<now, fence, graphFence, lease, package, ready, command,
                 outbox, returned>>

\* release_on, the branch in which the Attempt holds the lease.  Its other
\* branches refuse, or find the Attempt already in final_state, and change
\* nothing.
ReleaseLease(v, a, final, requeue) ==
  LET back == IF requeue THEN Requeued({PackageOf[v]}) ELSE {}
  IN /\ final \in TerminalAttemptStates
     /\ lease[v] # NoRow /\ lease[v].attempt = a
     /\ <<attempt[a].state, final>> \in AttemptTransition
     /\ attempt' = [attempt EXCEPT ![a].state = final]
     /\ lease' = [lease EXCEPT ![v] = NoRow]
     /\ package' = [p \in Packages |->
                      IF p \in back THEN "Ready" ELSE package[p]]
     /\ ready' = ready \cup back
     /\ UNCHANGED <<now, fence, graphFence, command, outbox, returned>>

\* expire_leases: every due lease in one transaction, or none of them when
\* one holder cannot be reclaimed.  A sweep that finds nothing due commits
\* and changes nothing.
ExpireLeases ==
  LET due  == {v \in Variants : Due(v)}
      back == Requeued({PackageOf[v] : v \in due})
  IN /\ \A v \in due : Reclaimable(v)
     /\ attempt' = Reclaimed(attempt, due)
     /\ lease' = [v \in Variants |-> IF v \in due THEN NoRow ELSE lease[v]]
     /\ package' = [p \in Packages |->
                      IF p \in back THEN "Ready" ELSE package[p]]
     /\ ready' = ready \cup back
     /\ outbox' = Enqueued("lease_reclaimed", {lease[v].attempt : v \in due})
     /\ UNCHANGED <<now, fence, graphFence, command, returned>>

\* Bug: a delta to Ready also enqueues the package.
SetPackageStateEnqueues(p, s) ==
  /\ <<package[p], s>> \in PackageTransition
  /\ package' = [package EXCEPT ![p] = s]
  /\ ready' = IF s = "Ready" THEN ready \cup {p} ELSE ready
  /\ UNCHANGED <<now, fence, graphFence, lease, attempt, command, outbox,
                 returned>>

\* apply_graph_delta with one SetPackageState op whose parent digest and
\* "from" are current.  The ready queue is not touched.
SetPackageState(p, s) ==
  /\ <<package[p], s>> \in PackageTransition
  /\ package' = [package EXCEPT ![p] = s]
  /\ UNCHANGED <<now, fence, graphFence, lease, attempt, ready, command,
                 outbox, returned>>

\* apply_graph_delta with one BumpFence op: only the graph body moves.
BumpFence(v) ==
  /\ package[PackageOf[v]] # "Absent"
  /\ graphFence[v] < fence[v] + FenceBumps
  /\ graphFence' = [graphFence EXCEPT ![v] = @ + 1]
  /\ UNCHANGED <<now, fence, lease, attempt, package, ready, command, outbox,
                 returned>>

\* The wall clock runs, and may be set back.
Tick ==
  /\ now < Horizon
  /\ now' = now + 1
  /\ UNCHANGED <<ledger, returned>>

ClockSetBack ==
  /\ \E d \in 1..StepBack : now - d >= 0 /\ now' = now - d
  /\ UNCHANGED <<ledger, returned>>

\* The steps while the clock is not set back.
SteadyNext ==
  \/ Materialize
  \/ \E a \in Attempts, v \in Variants, r \in Runners, t \in Ttls :
       AcquireLease(a, v, r, t) \/ ReplayAcquire(a, v, r, t)
  \/ \E g \in returned : Heartbeat(g.variant, g.attempt, g.fence, g.runner, g.ttl)
  \/ \E a \in Attempts, s \in AdvanceTargets : PutAttempt(a, s)
  \/ \E g \in returned, s \in ReleaseTargets, q \in BOOLEAN :
       ReleaseLease(g.variant, g.attempt, s, q)
  \/ ExpireLeases
  \/ \E p \in Packages, s \in DeltaTargets : SetPackageState(p, s)
  \/ \E v \in Variants : BumpFence(v)
  \/ Tick

Next == SteadyNext \/ ClockSetBack

Spec == Init /\ [][Next]_vars

\* The clock runs, is not set back for ever, and the reaper of bullet-farmd
\* sweeps at least every 500ms.
Fairness == WF_vars(Tick) /\ WF_vars(ExpireLeases)

FairSpec == Init /\ [][SteadyNext]_vars /\ Fairness

-----------------------------------------------------------------------------
(* Safety. *)

\* The attempts table and the lease table agree about who may write: an
\* Attempt in a live state holds the lease of its variant, with its own
\* fence and runner.  So a variant has at most one live Attempt, whatever
\* the order of acquisitions, heartbeats, sweeps and releases.
LiveAttemptHoldsLease ==
  \A a \in Attempts :
    attempt[a] # NoRow /\ attempt[a].state \in LiveAttemptStates =>
      LET row == lease[attempt[a].variant]
      IN /\ row # NoRow
         /\ row.attempt = a
         /\ row.fence = attempt[a].fence
         /\ row.runner = attempt[a].runner

\* The holder of a variant's lease is its newest incarnation: it carries the
\* counter's fence, and every other Attempt of the variant a smaller one.
HolderIsNewest ==
  \A v \in Variants : lease[v] # NoRow =>
    /\ attempt[lease[v].attempt] # NoRow
    /\ attempt[lease[v].attempt].variant = v
    /\ attempt[lease[v].attempt].fence = fence[v]
    /\ lease[v].fence = fence[v]
    /\ \A a \in Attempts \ {lease[v].attempt} :
         attempt[a] # NoRow /\ attempt[a].variant = v =>
           attempt[a].fence < fence[v]

\* Fences are permanent: two Attempts of a variant never share one, and none
\* is above the counter (acquire_on increments it, reclaim never touches it).
FencesNeverReused ==
  \A a \in Attempts : attempt[a] # NoRow =>
    /\ attempt[a].fence \in 1..fence[attempt[a].variant]
    /\ \A b \in Attempts \ {a} :
         attempt[b] # NoRow /\ attempt[b].variant = attempt[a].variant =>
           attempt[b].fence # attempt[a].fence

\* One writer per work package, although leases are keyed by variant: sibling
\* variants never hold leases together, and a package with a ready row has
\* no lease.  Only the ready row protects this; acquire_on tests no sibling.
OneWriterPerPackage ==
  \A v \in Variants : lease[v] # NoRow =>
    /\ PackageOf[v] \notin ready
    /\ \A u \in Variants \ {v} : PackageOf[u] = PackageOf[v] => lease[u] = NoRow

\* The three together: whatever acquire_on, heartbeat_on, reclaim, release_on
\* and put_attempt_on do in whatever order, the one writer of a variant, and of
\* its package, is the newest incarnation.
OneWriter == LiveAttemptHoldsLease /\ HolderIsNewest /\ OneWriterPerPackage

\* Idempotency: whatever reached a caller under a key, by a first answer or
\* by a replay after a lost one, is the response stored for the key, and it
\* names the incarnation the attempts table holds.
GrantsAgree ==
  /\ \A g \in returned : command[g.attempt] = g
  /\ \A a \in Attempts :
       IF command[a] = NoRow THEN attempt[a] = NoRow
       ELSE /\ attempt[a] # NoRow
            /\ command[a].attempt = a
            /\ command[a].variant = attempt[a].variant
            /\ command[a].fence = attempt[a].fence
            /\ command[a].runner = attempt[a].runner

\* Outbox rows commit with the change they report: one dispatch per Attempt
\* ever granted, at most one reclaim notice per Attempt, and a notice means
\* that the Attempt is Crashed and holds nothing.
OutboxMatchesHistory ==
  \A a \in Attempts :
    /\ outbox["dispatch_attempt"][a] = IF attempt[a] = NoRow THEN 0 ELSE 1
    /\ outbox["lease_reclaimed"][a] \in {0, 1}
    /\ outbox["lease_reclaimed"][a] = 1 =>
         /\ attempt[a] # NoRow /\ attempt[a].state = "Crashed"
         /\ \A v \in Variants : lease[v] # NoRow => lease[v].attempt # a

\* What acquire_on, reclaim and their replays recorded agrees: grants with
\* stored responses and Attempts, outbox rows with what became of each Attempt.
RecordsAgree == GrantsAgree /\ OutboxMatchesHistory

-----------------------------------------------------------------------------
(* What a step may never do. *)

\* The window a holder was promised is honoured: a lease that has not expired
\* ends only by its holder's release, never by a sweep or a rival acquisition,
\* and a renewal never shortens it or changes its fence, even when the clock
\* is set back between two heartbeats.
HonoursWindows ==
  \A v \in Variants : lease[v] # NoRow =>
    LET a == lease[v].attempt
    IN \/ now >= lease[v].expires_at
       \/ /\ lease'[v] # NoRow /\ lease'[v].attempt = a
          /\ lease'[v].expires_at >= lease[v].expires_at
          /\ lease'[v].fence = lease[v].fence
       \/ /\ lease'[v] = NoRow
          /\ outbox'["lease_reclaimed"][a] = outbox["lease_reclaimed"][a]
          /\ \E g \in returned : g.attempt = a

\* Every step of the ledger honours the windows it promised.
WindowIsHonoured == [][HonoursWindows]_vars

-----------------------------------------------------------------------------
(* Liveness, under FairSpec. *)

\* A lease whose expiry has passed is reclaimed: a runner that dies without
\* releasing never blocks its variant for ever.
ExpiredLeaseIsReclaimed ==
  \A v \in Variants, a \in Attempts :
    (Due(v) /\ lease[v].attempt = a)
      ~> (lease[v] = NoRow \/ lease[v].attempt # a)

-----------------------------------------------------------------------------
(* What the ledger implements. *)

Writer == INSTANCE FencedWriter WITH
  None    <- NoRow,
  holder  <- [v \in Variants |->
                IF lease[v] = NoRow THEN NoRow ELSE lease[v].attempt],
  granted <- [a \in Attempts |->
                IF attempt[a] = NoRow THEN NoRow
                ELSE <<attempt[a].variant, attempt[a].fence>>],
  top     <- fence

\* Every step of the ledger is a grant of a fresh, larger fence, the end of
\* some holders' authority, or invisible: the ledger implements FencedWriter.
ImplementsFencedWriter == Writer!FWSpec
=============================================================================
