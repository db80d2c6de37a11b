---------------------------- MODULE MemoryLedger ----------------------------
(***************************************************************************)
(* crates/application/src/memory: the ledger that implements the Ledger    *)
(* trait in process, and the services of crates/application that run over  *)
(* it.  Every call is one step (&mut self).  A failpoint counts durable    *)
(* writes down: `tick` fails the write it reaches, and what the call does  *)
(* with the writes it already made is the point of this model.  Four       *)
(* groups of maps never refer to each other and are four variables:        *)
(*                                                                         *)
(*   ml   leases, attempts, packages, ready rows and acquire commands;     *)
(*   mc   commands, their outbox rows and events, coding admission, plans  *)
(*        and graph deltas;                                                *)
(*   me   effect intents, receipts and append-only rows;                   *)
(*   mn   launch-grant and lease-transport nonces.                         *)
(***************************************************************************)
EXTENDS States, Integers, FiniteSets

CONSTANTS
  MlVariants,   \* 1..n: one variant per work package, in map order
  MlAttempts,   \* the attempt incarnations that may be asked for
  MlTtl,        \* the granted lease window
  MlHorizon,    \* bound: the latest simulation time
  MlFails,      \* bound: the failpoints a test sets, in writes
  MlKeys,       \* idempotency keys
  MlQuota,      \* coding quota units; a reservation takes one
  MlNone         \* a key a map does not hold

VARIABLES ml, mc, me, mn

mlVars == <<ml, mc, me, mn>>

Off == -1
Row(x) == x # MlNone

(***************************************************************************)
(* support.rs: `tick` before each durable write.  A call that makes n      *)
(* writes trips when the failpoint is below n, and is then disarmed.       *)
(***************************************************************************)
Trips(m, n) == m.fail \in 0..(n - 1)
Ticked(m, n) == [m EXCEPT !.fail = IF @ >= n THEN @ - n ELSE Off]

\* An Ok or an Err together with the maps the call leaves behind.
Fine(m) == [ok |-> TRUE, m |-> m]
Fault(m) == [ok |-> FALSE, m |-> m]

(***************************************************************************)
(* Leases.                                                                 *)
(***************************************************************************)
NewLeases ==
  [fail |-> Off, now |-> 0,
   fence |-> [v \in MlVariants |-> 0],
   lease |-> [v \in MlVariants |-> MlNone],
   attempt |-> [a \in MlAttempts |-> MlNone],
   package |-> [v \in MlVariants |-> "Ready"],
   ready |-> MlVariants,
   granted |-> [a \in MlAttempts |-> MlNone],
   dispatched |-> {}, reclaimed |-> {}]

MlHolds(m, v, a) == Row(m.lease[v]) /\ m.lease[v].attempt = a
Overdue(m, v) == Row(m.lease[v]) /\ m.lease[v].expires <= m.now
MlReclaimable(m, v) == m.attempt[m.lease[v].attempt].state \in LiveAttemptStates

\* The package goes back to Ready, with its ready row, where the edge is legal.
RequeuePackage(m, v) ==
  IF <<m.package[v], "Ready">> \in PackageTransition
  THEN [m EXCEPT !.package[v] = "Ready", !.ready = @ \cup {v}]
  ELSE m

\* reclaim: the holder crashes, its lease goes, its package is requeued.
MlReclaimed(m, v) ==
  LET a == m.lease[v].attempt
  IN  RequeuePackage([m EXCEPT !.attempt[a].state = "Crashed",
                               !.lease[v] = MlNone,
                               !.reclaimed = @ \cup {a}], v)

\* reclaim_expired_variant, at the head of every fresh acquire.
ReclaimExpiredVariant(m, v) ==
  IF ~Overdue(m, v) THEN Fine(m)
  ELSE IF MlReclaimable(m, v) THEN Fine(MlReclaimed(m, v)) ELSE Fault(m)

\* The checks an acquire makes after the reclaim it may have made.
MayGrant(m, a, v, revision) ==
  /\ revision = 1
  /\ m.package[v] = "Ready"
  /\ v \in m.ready
  /\ ~Row(m.lease[v])
  /\ ~Row(m.attempt[a])

Granted(m, a, v) ==
  LET f == m.fence[v] + 1
  IN  [m EXCEPT !.fence[v] = f,
                !.lease[v] = [attempt |-> a, fence |-> f, expires |-> m.now + MlTtl],
                !.attempt[a] = [variant |-> v, fence |-> f, state |-> "Starting"],
                !.package[v] = "Leased",
                !.ready = @ \ {v},
                !.granted[a] = [variant |-> v, revision |-> 1],
                !.dispatched = @ \cup {a}]

\* A refusal after the reclaim keeps the reclaim: this path restores nothing.
AcquireFresh(m, a, v, revision) ==
  IF Trips(m, 1) THEN Fault(Ticked(m, 1))
  ELSE LET r == ReclaimExpiredVariant(Ticked(m, 1), v)
       IN  IF r.ok /\ MayGrant(r.m, a, v, revision)
           THEN Fine(Granted(r.m, a, v)) ELSE Fault(r.m)

\* An attempt is granted once; asking again answers from the stored command
\* when the request is the same and is refused when it is not.
MlAcquireLease(m, a, v, revision) ==
  IF ~Row(m.granted[a]) THEN AcquireFresh(m, a, v, revision)
  ELSE IF m.granted[a] = [variant |-> v, revision |-> revision]
       THEN Fine(m) ELSE Fault(m)

\* check_active_lease_snapshot for an attempt quoting its own row.
ActiveLease(m, a) ==
  /\ Row(m.attempt[a])
  /\ m.attempt[a].state \in LiveAttemptStates
  /\ LET v == m.attempt[a].variant
     IN  /\ MlHolds(m, v, a)
         /\ m.lease[v].fence = m.attempt[a].fence
         /\ m.now < m.lease[v].expires

MlHeartbeat(m, a) ==
  IF Trips(m, 1) THEN Fault(Ticked(m, 1))
  ELSE LET n == Ticked(m, 1)
       IN  IF ActiveLease(n, a)
           THEN Fine([n EXCEPT !.lease[n.attempt[a].variant].expires = n.now + MlTtl])
           ELSE Fault(n)

\* put_attempt moves one legal edge; an unchanged row is a replay.
MlPutAttempt(m, a, state) ==
  IF Trips(m, 1) THEN Fault(Ticked(m, 1))
  ELSE LET n == Ticked(m, 1)
       IN  IF ~Row(n.attempt[a]) THEN Fault(n)
           ELSE IF n.attempt[a].state = state THEN Fine(n)
           ELSE IF <<n.attempt[a].state, state>> \in AttemptTransition
                THEN Fine([n EXCEPT !.attempt[a].state = state]) ELSE Fault(n)

MlRelease(m, a, v, final, requeue) ==
  IF Trips(m, 1) THEN Fault(Ticked(m, 1))
  ELSE LET n == Ticked(m, 1)
           over == [n EXCEPT !.attempt[a].state = final, !.lease[v] = MlNone]
       IN  IF final \notin TerminalAttemptStates THEN Fault(n)
           ELSE IF MlHolds(n, v, a)
                THEN IF <<n.attempt[a].state, final>> \in AttemptTransition
                     THEN Fine(IF requeue THEN RequeuePackage(over, v) ELSE over)
                     ELSE Fault(n)
                ELSE IF ~Row(n.lease[v]) /\ Row(n.attempt[a]) /\ n.attempt[a].state = final
                     THEN Fine(n) ELSE Fault(n)

\* expire_leases reclaims in map order and stops at the first it cannot.
MlExpireLeases(m) ==
  IF Trips(m, 1) THEN Ticked(m, 1)
  ELSE LET n == Ticked(m, 1)
           stuck == {v \in MlVariants : Overdue(n, v) /\ ~MlReclaimable(n, v)}
           swept == {v \in MlVariants : Overdue(n, v) /\ \A s \in stuck : v < s}
           lost == {n.lease[v].attempt : v \in swept}
           home == {v \in swept : <<n.package[v], "Ready">> \in PackageTransition}
       IN  [n EXCEPT
              !.attempt = [a \in MlAttempts |->
                 IF a \in lost THEN [@[a] EXCEPT !.state = "Crashed"] ELSE @[a]],
              !.lease = [v \in MlVariants |-> IF v \in swept THEN MlNone ELSE @[v]],
              !.reclaimed = @ \cup lost,
              !.package = [v \in MlVariants |-> IF v \in home THEN "Ready" ELSE @[v]],
              !.ready = @ \cup home]

\* ready_queue, in map order; active_attempt for the package of a variant.
ReadyQueue(m) == {v \in m.ready : \A w \in m.ready : v <= w}
ActiveAttempts(m, v) ==
  {a \in MlAttempts : /\ Row(m.attempt[a]) /\ m.attempt[a].variant = v
                      /\ m.attempt[a].state \in LiveAttemptStates}

\* claim_ready: an attempt that exists is answered from its row; otherwise
\* the first ready package is acquired.
ClaimReady(m, a) ==
  IF Row(m.attempt[a]) \/ m.ready = {} THEN Fine(m)
  ELSE MlAcquireLease(m, a, CHOOSE v \in ReadyQueue(m) : TRUE, 1)

\* with_lease_transport runs the call on a copy and keeps the copy only on
\* Ok, so that a failpoint the copy reached stays armed in the original.
WithLeaseTransport(m, r) == IF Trips(m, 1) \/ ~r.ok THEN Ticked(m, 1) ELSE r.m

\* Each operation is called on the ledger, or on the copy.
MlAcquire(a, v, revision) ==
  \/ ml' = MlAcquireLease(ml, a, v, revision).m
  \/ ml' = WithLeaseTransport(ml, MlAcquireLease(Ticked(ml, 1), a, v, revision))
MlBeat(a) ==
  \/ ml' = MlHeartbeat(ml, a).m
  \/ ml' = WithLeaseTransport(ml, MlHeartbeat(Ticked(ml, 1), a))
MlMove(a, state) ==
  \/ ml' = MlPutAttempt(ml, a, state).m
  \/ ml' = WithLeaseTransport(ml, MlPutAttempt(Ticked(ml, 1), a, state))
MlEnd(a, v, final, requeue) ==
  \/ ml' = MlRelease(ml, a, v, final, requeue).m
  \/ ml' = WithLeaseTransport(ml, MlRelease(Ticked(ml, 1), a, v, final, requeue))
MlExpire == ml' = MlExpireLeases(ml)
MlClaim(a) == ml' = ClaimReady(ml, a).m

\* clock.rs: the simulation clock only moves forward.
AdvanceTo(t) == ml.now < t /\ ml' = [ml EXCEPT !.now = t]

MlSetFailpoint(n) == ml.fail = Off /\ ml' = [ml EXCEPT !.fail = n]

MlLeaseNext ==
  \/ \E a \in MlAttempts, v \in MlVariants, revision \in 1..2 : MlAcquire(a, v, revision)
  \/ \E a \in MlAttempts : MlBeat(a) \/ MlClaim(a)
  \/ \E a \in MlAttempts, state \in {"Running", "Failed"} : MlMove(a, state)
  \/ \E a \in MlAttempts, v \in MlVariants, requeue \in BOOLEAN,
        final \in {"Running", "Failed"} : MlEnd(a, v, final, requeue)
  \/ MlExpire
  \/ \E t \in 1..MlHorizon : AdvanceTo(t)
  \/ \E n \in 0..1 : MlSetFailpoint(n)

(***************************************************************************)
(* Commands.  A request is a kind and a payload under an idempotency key;  *)
(* its digest is the pair itself.  A coding payload names its launch       *)
(* nonce, its quota reservation and the authority epoch it expects (the    *)
(* memory ledger's authority is never set, so the epoch is 1).  A delta    *)
(* names the graph state it was computed on and one package edge.          *)
(***************************************************************************)
CodingPayloads == {[nonce |-> 1, reservation |-> 1, revision |-> 1],
                   [nonce |-> 2, reservation |-> 2, revision |-> 1],
                   [nonce |-> 2, reservation |-> 1, revision |-> 2]}
MlDeltas == {[parent |-> "Ready", from |-> "Ready", to |-> "Leased"],
             [parent |-> "Leased", from |-> "Leased", to |-> "Ready"],
             [parent |-> "Ready", from |-> "Ready", to |-> "Survived"]}
PublicRequests ==
  [kind : {"run_demo", "lease_acquire"}, body : {1}]
    \cup [kind : {"run_coding"}, body : CodingPayloads]
GraphRequests ==
  [kind : {"materialize"}, body : {1}] \cup [kind : {"graph_delta"}, body : MlDeltas]

NewCommands ==
  [fail |-> Off,
   cmd |-> [k \in MlKeys |-> MlNone],       \* request, phase, response
   out |-> [k \in MlKeys |-> MlNone],       \* the command_dispatch row
   submitted |-> {}, reconciled |-> {},    \* keys with the audit event
   nonce |-> [n \in 1..2 |-> MlNone],       \* request it was issued for, consumed
   reserved |-> {},                        \* quota reservations held
   graph |-> "none", capsules |-> 0, applied |-> 0]

\* restore on error: everything but the failpoint goes back.
Restored(m, n) == [m EXCEPT !.fail = Ticked(m, n).fail]

Matches(m, k, q) ==
  /\ m.cmd[k].request.kind = q.kind
  /\ m.cmd[k].request.body = q.body

PendingRow(q) == [request |-> q, phase |-> "Pending", response |-> "none"]
Recorded(m, k, q) == IF Row(m.cmd[k]) THEN m ELSE [m EXCEPT !.cmd[k] = PendingRow(q)]

\* record_command alone: a row without dispatch truth.
RecordCommand(k, q) ==
  mc' = IF Trips(mc, 1) \/ (Row(mc.cmd[k]) /\ ~Matches(mc, k, q)) THEN Ticked(mc, 1)
        ELSE Recorded(Ticked(mc, 1), k, q)

\* plan_run_coding_admission for a first insert, over the nonce row the
\* caller has just issued when there was none.
CodingAdmitted(m, q) ==
  LET p == q.body
  IN  /\ p.revision = 1
      /\ p.reservation \notin m.reserved
      /\ Cardinality(m.reserved) < MlQuota
      /\ Row(m.nonce[p.nonce]) => m.nonce[p.nonce] = [request |-> q, consumed |-> FALSE]

\* validate_run_coding_replay.
CodingReplays(m, q) ==
  /\ q.body.reservation \in m.reserved
  /\ m.nonce[q.body.nonce] = [request |-> q, consumed |-> TRUE]

AdmitRunCoding(m, q) ==
  [m EXCEPT !.nonce[q.body.nonce] = [request |-> q, consumed |-> TRUE],
            !.reserved = @ \cup {q.body.reservation}]

\* submit_command: the row, its dispatch row and its event stand or fall
\* together, with the coding admission of a run_coding request.
SubmitFresh(m, k, q) ==
  LET n == [Recorded(m, k, q) EXCEPT
              !.out[k] = [phase |-> "Pending", delivered |-> FALSE, acked |-> FALSE],
              !.submitted = @ \cup {k}]
  IN  IF q.kind # "run_coding" THEN Fine(n)
      ELSE IF CodingAdmitted(n, q) THEN Fine(AdmitRunCoding(n, q)) ELSE Fault(m)

SubmitAgain(m, k, q) ==
  IF /\ Matches(m, k, q)
     /\ Row(m.out[k]) /\ k \in m.submitted
     /\ q.kind = "run_coding" => CodingReplays(m, q)
  THEN Fine(m) ELSE Fault(m)

SubmitCommand(k, q) ==
  IF Row(mc.cmd[k])
  THEN mc' = IF Trips(mc, 1) THEN Ticked(mc, 1) ELSE SubmitAgain(Ticked(mc, 1), k, q).m
  ELSE mc' = IF Trips(mc, 3) THEN Restored(mc, 3)
             ELSE SubmitFresh(Ticked(mc, 3), k, q).m

\* offline_worker_resolution: no executor is attached to a known kind.
OfflinePhase(q) == IF q.kind \in {"run_demo", "run_coding"} THEN "Unknown" ELSE "Failed"

\* reconcile_offline_command on a pending command; on a resolved one it only
\* compares.  The command, the dispatch row and the event change together.
ReconcileOffline(k) ==
  LET c == mc.cmd[k]
      phase == OfflinePhase(c.request)
      r == Ticked(mc, 3)
  IN  /\ Row(c) /\ Row(mc.out[k]) /\ k \in mc.submitted
      /\ c.phase = "Pending"
      /\ mc.out[k] = [phase |-> "Pending", delivered |-> FALSE, acked |-> FALSE]
      /\ k \notin mc.reconciled
      /\ mc' = IF Trips(mc, 3) THEN Restored(mc, 3)
               ELSE [r EXCEPT !.cmd[k].phase = phase, !.cmd[k].response = "offline",
                              !.out[k].phase = phase, !.out[k].acked = TRUE,
                              !.reconciled = @ \cup {k}]

\* CommandRecord::validate on the phase and the stored response.
ValidRow(c) ==
  /\ c.phase = "Pending" => c.response = "none"
  /\ c.phase \in {"Applied", "Verified", "Failed"} => c.response # "none"

SetCommandPhase(k, phase, response) ==
  /\ Row(mc.cmd[k])
  /\ LET next == [mc.cmd[k] EXCEPT !.phase = phase,
                                   !.response = IF response = "none" THEN @ ELSE response]
     IN  /\ ValidRow(next)
         /\ mc' = IF Trips(mc, 1) THEN Ticked(mc, 1)
                  ELSE [Ticked(mc, 1) EXCEPT !.cmd[k] = next]

OutboxMark(k, phase) ==
  /\ Row(mc.out[k])
  /\ mc' = IF Trips(mc, 1) THEN Ticked(mc, 1)
           ELSE [Ticked(mc, 1) EXCEPT
                   !.out[k].phase = phase,
                   !.out[k].delivered = @ \/ phase = "Applied",
                   !.out[k].acked = @ \/ phase \in {"Verified", "Failed", "Unknown"}]

IssueCodingNonce(n, q) ==
  /\ ~Row(mc.nonce[n])
  /\ mc' = [mc EXCEPT !.nonce[n] = [request |-> q, consumed |-> FALSE]]

\* A transaction of n writes under one command, then one more tick after the
\* commit: a failpoint that reaches the last one errs, and keeps the writes.
Transact(n, done) ==
  mc' = IF Trips(mc, n) THEN Restored(mc, n) ELSE Ticked(done, n + 1)

\* materialize_plan_command: graph, capsules, fence, ready row, event and
\* command (one package); Applied answers from the stored result, a Failed or
\* Unknown command and a graph that is already there are refused.
MaterializePlan(k) ==
  LET q == [kind |-> "materialize", body |-> 1]
      c == Recorded(mc, k, q).cmd[k]
      fresh == [Recorded(mc, k, q) EXCEPT
                  !.graph = "Ready", !.capsules = @ + 1,
                  !.cmd[k].phase = "Applied", !.cmd[k].response = "graph"]
  IN  /\ Row(mc.cmd[k]) => Matches(mc, k, q)
      /\ \/ /\ c.phase \in {"Applied", "Verified"}
            /\ IF c.response = "graph" THEN Transact(1, mc) ELSE mc' = Restored(mc, 1)
         \/ /\ c.phase = "Pending" /\ mc.graph = "none"
            /\ Transact(8, fresh)
         \/ /\ \/ c.phase \in {"Failed", "Unknown"}
               \/ c.phase = "Pending" /\ mc.graph # "none"
            /\ mc' = Restored(mc, 1)

\* materialize_graph: the same rows without a command, in one write.
MaterializeGraph ==
  mc' = IF Trips(mc, 1) \/ mc.graph # "none" THEN Ticked(mc, 1)
        ELSE [Ticked(mc, 1) EXCEPT !.graph = "Ready", !.capsules = @ + 1]

\* evaluate_graph_delta: a delta whose targets already hold is Ok whatever
\* parent it names; otherwise the parent must be the stored graph and the
\* edge legal.
DeltaHolds(m, d) == m.graph = d.to
DeltaApplies(m, d) ==
  /\ m.graph # "none" /\ m.graph = d.parent /\ m.graph = d.from
  /\ <<d.from, d.to>> \in PackageTransition

ApplyGraphDelta(k, d) ==
  LET q == [kind |-> "graph_delta", body |-> d]
      n == Recorded(mc, k, q)
      c == n.cmd[k]
      applied == [n EXCEPT !.graph = d.to, !.cmd[k].phase = "Applied",
                           !.cmd[k].response = d.to,
                           !.applied = @ + (IF DeltaHolds(mc, d) THEN 0 ELSE 1)]
      failed == [n EXCEPT !.cmd[k].phase = "Failed", !.cmd[k].response = "refused"]
  IN  /\ Row(mc.cmd[k]) => Matches(mc, k, q)
      /\ mc.applied < 2   \* bound: deltas applied
      /\ \/ /\ c.phase \in {"Applied", "Verified", "Failed"}
            /\ IF c.response \in (IF c.phase = "Failed" THEN {"refused"} ELSE PackageStates)
               THEN Transact(1, mc) ELSE mc' = Restored(mc, 1)
         \/ /\ c.phase \in {"Pending", "Unknown"}
            /\ IF DeltaHolds(mc, d) \/ DeltaApplies(mc, d)
               THEN Transact(5, applied) ELSE Transact(3, failed)

McSetFailpoint(n) == mc.fail = Off /\ mc' = [mc EXCEPT !.fail = n]

\* The public commands, and the plan and delta commands of one mission.
MlSubmitNext ==
  \/ \E k \in MlKeys, q \in PublicRequests : RecordCommand(k, q) \/ SubmitCommand(k, q)
  \/ \E k \in MlKeys : ReconcileOffline(k)
  \/ \E k \in MlKeys :
        \/ \E response \in {"none", "worker"} : SetCommandPhase(k, "Failed", response)
        \/ OutboxMark(k, "Failed")
  \/ \E p \in CodingPayloads :
        IssueCodingNonce(p.nonce, [kind |-> "run_coding", body |-> p])
  \/ \E n \in MlFails \cap 0..2 : McSetFailpoint(n)

MlGraphNext ==
  \/ \E k \in MlKeys, q \in GraphRequests : RecordCommand(k, q)
  \/ \E k \in MlKeys : MaterializePlan(k)
  \/ \E k \in MlKeys, phase \in {"Pending", "Applied", "Unknown", "Failed"},
        response \in {"none", "worker"} : SetCommandPhase(k, phase, response)
  \/ MaterializeGraph
  \/ \E k \in MlKeys, d \in MlDeltas : ApplyGraphDelta(k, d)
  \/ \E n \in MlFails : McSetFailpoint(n)

(***************************************************************************)
(* Effects: an intent per logical effect key, receipts and the append-only *)
(* candidate, evidence, effect, grant and settlement rows.                 *)
(***************************************************************************)
EffectTransition ==
  {<<"PROPOSED", "AUTHORIZED">>, <<"AUTHORIZED", "DISPATCHING">>,
   <<"PROPOSED", "FAILED">>, <<"AUTHORIZED", "FAILED">>,
   <<"DISPATCHING", "RECEIPT_PENDING">>, <<"DISPATCHING", "OUTCOME_UNKNOWN">>,
   <<"RECEIPT_PENDING", "OUTCOME_UNKNOWN">>, <<"RECEIPT_PENDING", "VERIFIED">>,
   <<"OUTCOME_UNKNOWN", "VERIFIED">>, <<"OUTCOME_UNKNOWN", "DISPATCHING">>,
   <<"OUTCOME_UNKNOWN", "ORPHANED_REMOTE">>, <<"VERIFIED", "COMMITTED">>,
   <<"QUARANTINED", "COMPENSATION_PENDING">>,
   <<"COMPENSATION_PENDING", "COMPENSATING">>, <<"COMPENSATING", "COMPENSATED">>}
  \cup ({"DISPATCHING", "RECEIPT_PENDING", "OUTCOME_UNKNOWN"} \X {"QUARANTINED"})

NewEffects ==
  [fail |-> Off,
   intent |-> [i \in 1..2 |-> MlNone], key |-> [l \in 1..2 |-> 0],
   row |-> MlNone]

\* append_only, and the identical-or-refused rule of receipts, transport
\* grants and settlements.
AppendOnly(old, new) == IF Row(old) THEN old ELSE new

\* The logical key finds the intent; an id another key uses is refused.
RecordEffectIntent(i, l, payload) ==
  LET n == Ticked(me, 1)
  IN  me' = IF Trips(me, 1) \/ me.key[l] # 0 \/ Row(me.intent[i]) THEN n
            ELSE [n EXCEPT !.key[l] = i,
                           !.intent[i] = [key |-> l, payload |-> payload,
                                          state |-> "PROPOSED", retries |-> 0]]

TransitionEffect(i, to) ==
  LET n == Ticked(me, 1)
      again == me.intent[i].state = "OUTCOME_UNKNOWN" /\ to = "DISPATCHING"
  IN  /\ Row(me.intent[i])
      /\ me.intent[i].retries < 1   \* bound: retries after an unknown outcome
      /\ me' = IF Trips(me, 1) \/ <<me.intent[i].state, to>> \notin EffectTransition THEN n
               ELSE [n EXCEPT !.intent[i].state = to,
                              !.intent[i].retries = IF again THEN @ + 1 ELSE @]

\* put_candidate, put_evidence, put_effect and record_effect_receipt.
PutRow(body) ==
  me' = IF Trips(me, 1) THEN Ticked(me, 1)
        ELSE [Ticked(me, 1) EXCEPT !.row = AppendOnly(@, [body |-> body])]

MeSetFailpoint == me.fail = Off /\ me' = [me EXCEPT !.fail = 0]

MlEffectNext ==
  \/ \E i \in 1..2, l \in 1..2, payload \in 1..2 : RecordEffectIntent(i, l, payload)
  \/ \E i \in 1..2, to \in {e[2] : e \in EffectTransition} : TransitionEffect(i, to)
  \/ \E body \in 1..2 : PutRow(body)
  \/ MeSetFailpoint

(***************************************************************************)
(* Nonces.  Both tables spend a nonce for its own binding, once, before it *)
(* expires; a transport nonce is spent inside with_lease_transport and is  *)
(* unspent again when the rest of that transaction fails.                  *)
(***************************************************************************)
NewNonces ==
  [fail |-> Off, now |-> 0,
   launch |-> MlNone, transport |-> MlNone,
   spent |-> [launch |-> 0, transport |-> 0]]

NonceRow(bind, expires) == [bind |-> bind, expires |-> expires, used |-> FALSE]

\* classify_stored_nonce, and the same order of checks in
\* consume_transport_nonce.
Consumption(row, bind, now) ==
  IF ~Row(row) THEN "Unknown"
  ELSE IF row.bind # bind THEN "Unknown"
  ELSE IF row.used THEN "Replayed"
  ELSE IF now >= row.expires THEN "Expired" ELSE "Consumed"

RecordLaunchNonce(bind, expires) ==
  mn' = IF Trips(mn, 1) \/ Row(mn.launch) THEN Ticked(mn, 1)
        ELSE [Ticked(mn, 1) EXCEPT !.launch = NonceRow(bind, expires)]

ConsumeLaunchNonce(bind) ==
  mn' = IF Trips(mn, 1) \/ Consumption(mn.launch, bind, mn.now) # "Consumed"
        THEN Ticked(mn, 1)
        ELSE [Ticked(mn, 1) EXCEPT !.launch.used = TRUE, !.spent.launch = @ + 1]

ReserveTransportNonce(bind, expires) ==
  /\ ~Row(mn.transport)
  /\ mn' = IF Trips(mn, 1) THEN Ticked(mn, 1)
           ELSE [Ticked(mn, 1) EXCEPT !.transport = NonceRow(bind, expires)]

\* The rest of the transaction, a heartbeat or a release, answers Ok or Err.
ConsumeTransportNonce(bind, ok) ==
  mn' = IF Trips(mn, 1) \/ ~ok \/ Consumption(mn.transport, bind, mn.now) # "Consumed"
        THEN Ticked(mn, 1)
        ELSE [Ticked(mn, 1) EXCEPT !.transport.used = TRUE, !.spent.transport = @ + 1]

MnTick == mn.now < 2 /\ mn' = [mn EXCEPT !.now = @ + 1]
MnSetFailpoint == mn.fail = Off /\ mn' = [mn EXCEPT !.fail = 0]

MlNonceNext ==
  \/ \E bind \in 1..2 :
        \/ \E expires \in 1..2 : \/ RecordLaunchNonce(bind, expires)
                                 \/ ReserveTransportNonce(bind, expires)
        \/ ConsumeLaunchNonce(bind)
        \/ \E ok \in BOOLEAN : ConsumeTransportNonce(bind, ok)
  \/ MnTick \/ MnSetFailpoint
-----------------------------------------------------------------------------
MlInit == ml = NewLeases /\ mc = NewCommands /\ me = NewEffects /\ mn = NewNonces

MlTypeOK ==
  /\ ml.now \in 0..MlHorizon /\ ml.ready \subseteq MlVariants
  /\ \A v \in MlVariants : ml.package[v] \in PackageStates /\ ml.fence[v] \in Nat
  /\ \A a \in MlAttempts : Row(ml.attempt[a]) => ml.attempt[a].state \in AttemptStates
  /\ \A m \in {ml, mc, me, mn} : m.fail = Off \/ m.fail \in Nat

\* The memory ledger keeps the promise the SQLite ledger keeps: authority
\* over a variant passes between incarnations with strictly growing fences.
MemoryWriter ==
  INSTANCE FencedWriter WITH
    Variants <- MlVariants, Attempts <- MlAttempts, None <- MlNone,
    holder <- [v \in MlVariants |-> IF Row(ml.lease[v]) THEN ml.lease[v].attempt ELSE MlNone],
    granted <- [a \in MlAttempts |-> IF Row(ml.attempt[a])
                  THEN <<ml.attempt[a].variant, ml.attempt[a].fence>> ELSE MlNone],
    top <- ml.fence

MemoryWriterStep == MemoryWriter!FWNext \/ UNCHANGED MemoryWriter!wvars

\* memory/authority.rs, reclaim.rs: whatever failpoint trips and whichever
\* acquire is refused after its reclaim, an attempt has its command and its
\* dispatch row, a live attempt holds its variant's lease at the newest fence,
\* a ready row is a Ready package and a leased package is neither.
LeaseMapsAgree ==
  /\ \A a \in MlAttempts :
        /\ Row(ml.granted[a]) = Row(ml.attempt[a])
        /\ (a \in ml.dispatched) = Row(ml.attempt[a])
        /\ a \in ml.reclaimed => ml.attempt[a].state = "Crashed"
  /\ \A v \in MlVariants :
        /\ \A a \in ActiveAttempts(ml, v) : MlHolds(ml, v, a)
        /\ (v \in ml.ready) = (ml.package[v] = "Ready")
        /\ Row(ml.lease[v]) =>
             /\ v \notin ml.ready
             /\ ml.lease[v].fence = ml.fence[v]
             /\ ml.attempt[ml.lease[v].attempt].fence = ml.fence[v]

\* A lease inside its window leaves its holder only by the holder's release.
WindowIsKept ==
  \A v \in MlVariants :
    LET l == ml.lease[v]
    IN  Row(l) /\ ml.now < l.expires /\ ~(Row(ml'.lease[v]) /\ ml'.lease[v].attempt = l.attempt)
          => ml'.attempt[l.attempt].state \in TerminalAttemptStates \ {"Crashed"}

\* memory/commands.rs, run_coding.rs: a failpoint anywhere in a submit, a
\* reconcile or an admission leaves all of its rows or none.  A dispatch row
\* has its command and its event; a reconciled command is settled on both
\* sides; each quota reservation belongs to exactly one submitted coding
\* command, whose launch nonce was consumed for that very request.
CommandMapsAgree ==
  LET coding(k, q) == k \in mc.submitted /\ mc.cmd[k].request = q
  IN  /\ \A k \in MlKeys :
            /\ (k \in mc.submitted) = Row(mc.out[k])
            /\ Row(mc.out[k]) => Row(mc.cmd[k])
            /\ Row(mc.cmd[k]) => ValidRow(mc.cmd[k])
            /\ k \in mc.reconciled => mc.cmd[k].phase # "Pending" /\ mc.out[k].acked
            /\ k \in mc.submitted /\ mc.cmd[k].request.kind = "run_coding"
                 => CodingReplays(mc, mc.cmd[k].request)
      /\ \A n \in 1..2 : Row(mc.nonce[n]) /\ mc.nonce[n].consumed
            => \E k \in MlKeys : coding(k, mc.nonce[n].request)
      /\ \A r \in mc.reserved :
            Cardinality({k \in mc.submitted : /\ mc.cmd[k].request.kind = "run_coding"
                                              /\ mc.cmd[k].request.body.reservation = r}) = 1
      /\ Cardinality(mc.reserved) <= MlQuota

\* memory/materialization.rs, mod.rs: the graph and its context capsules
\* appear together, and the graph is the result of the deltas that applied.
GraphMapsAgree ==
  /\ mc.capsules = (IF mc.graph = "none" THEN 0 ELSE 1)
  /\ mc.graph # "none" => mc.graph = (IF mc.applied % 2 = 0 THEN "Ready" ELSE "Leased")

\* memory/effects.rs: a logical effect key names one intent, and an intent
\* one key.
EffectKeysAgree ==
  /\ \A l \in 1..2 : me.key[l] # 0 => Row(me.intent[me.key[l]]) /\ me.intent[me.key[l]].key = l
  /\ \A i \in 1..2 : Row(me.intent[i]) => me.key[me.intent[i].key] = i

\* append_only: rows and the identity of an intent never change.
RowsAreImmutable ==
  /\ Row(me.row) => me'.row = me.row
  /\ \A i \in 1..2 : Row(me.intent[i]) =>
        /\ me'.intent[i].key = me.intent[i].key
        /\ me'.intent[i].payload = me.intent[i].payload
        /\ me'.intent[i].retries >= me.intent[i].retries

\* launch_grant.rs, lease_transport.rs: a nonce answers Consumed at most once
\* to a committed caller, and then stays used.
NoncesAreSpentOnce ==
  /\ mn.spent.launch = (IF Row(mn.launch) /\ mn.launch.used THEN 1 ELSE 0)
  /\ mn.spent.transport = (IF Row(mn.transport) /\ mn.transport.used THEN 1 ELSE 0)

\* What the in-process ledger promises its callers of every state, and of
\* every step.
MemoryMapsAgree ==
  MlTypeOK /\ LeaseMapsAgree /\ CommandMapsAgree /\ GraphMapsAgree /\ EffectKeysAgree
    /\ NoncesAreSpentOnce

MemoryStepsAreKept ==
  /\ me' # me => RowsAreImmutable
  /\ ml' # ml => WindowIsKept /\ MemoryWriterStep
=============================================================================
