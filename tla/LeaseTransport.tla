--------------------------- MODULE LeaseTransport ---------------------------
(***************************************************************************)
(* The signed lease transport between runners and the kernel:              *)
(*   server  crates/application/src/lease_transport.rs (and its modules)   *)
(*           served by apps/bullet-farmd/src/lease_transport_rpc.rs        *)
(*   client  crates/runner/src/signed_lease_rpc.rs (and its modules) with  *)
(*           its durable recovery journal.                                 *)
(*                                                                         *)
(* One variant is contended for by every idempotency key.  Each server     *)
(* call is one transaction.  A client call is journalled, sent, read back  *)
(* and concluded in separate steps: the server may move between any two    *)
(* of them, the answer may be lost, and the runner may crash and restart.  *)
(* A request whose runner crashed may still be served later.               *)
(*                                                                         *)
(* The journal is written to disk before memory is swapped                 *)
(* (mutate_recovery), so disk and memory are one variable here.            *)
(***************************************************************************)
EXTENDS States, Integers, FiniteSets

CONSTANTS
  Keys,            \* acquire idempotency keys, hence Attempt ids
  Runners,         \* runner incarnations
  Owner,           \* the runner that uses each key
  AdvanceTargets,  \* states runners ask advance for
  ReleaseTargets,  \* outcomes runners ask release for
  Requeues,        \* values of ReleaseCall::requeue
  MaxIntents,      \* MAX_INTENTS
  MaxSettlements,  \* MAX_SETTLEMENTS
  MaxAuthority,    \* bound: authority generations
  MaxCrashes,      \* bound: runner crashes
  None

\* LeaseSettlementRequest; its digest is the settlement id, so a request is
\* its own id.  "requeue" is meaningful for a Release.
Request == [kind : {"Advance", "Release"}, key : Keys, fence : Nat,
            from : AttemptStates, to : AttemptStates, requeue : BOOLEAN]

GrantRow == [fence : Nat, authority : Nat]
AttemptRow == [fence : Nat, state : AttemptStates]
Intent == [grant : GrantRow \cup {None}, current : AttemptStates \cup {None}]

\* What a client call still has to do.  "call" is the key of an acquire or
\* the request of a settlement; "sent" the fate of its last send; "seen" the
\* answer of its last readback.
Call == [at : {"send", "read", "act"}, call : Keys \cup Request, try : 1..2,
         sent : {"no", "ok", "refused", "lost"},
         seen : {"nothing", "recorded", "absent", "failed"}]

ASSUME TransportConstants ==
  /\ Owner \in [Keys -> Runners]
  /\ AdvanceTargets \subseteq AttemptStates
  /\ ReleaseTargets \subseteq TerminalAttemptStates
  /\ Requeues \subseteq BOOLEAN
  /\ MaxIntents \in Nat /\ MaxSettlements \in Nat
  /\ MaxAuthority \in Nat /\ MaxCrashes \in Nat

\* A key is no request, and None is a value of its own.
ASSUME TransportValues ==
  /\ \A k \in Keys : k \notin Request
  /\ None \notin Keys /\ None \notin Request /\ None \notin Call
  /\ None \notin GrantRow /\ None \notin AttemptRow /\ None \notin Intent
  /\ None \notin AttemptStates

VARIABLES
  attempt,    \* attempts, keyed by id
  lease,      \* the holder in active_leases
  due,        \* its expiry has passed
  fence,      \* variant_fence_counters.next_fence
  ready,      \* the package is Ready and queued
  authority,  \* current_authority
  grants,     \* lease_transport_grants
  settled,    \* lease_transport_settlements
  intent,     \* journal: intents
  pending,    \* journal: settlements
  completed,  \* journal: completed
  op,         \* the call each runner has under way
  stray,      \* requests in flight whose runner crashed
  crashes,    \* crashes so far
  cut,        \* every call that was in flight at a crash
  dropped     \* the call each runner last reported as refused

server == <<attempt, lease, due, fence, ready, authority, grants, settled>>
journal == <<intent, pending, completed>>
vars == <<server, journal, op, stray, crashes, cut, dropped>>

TypeOK ==
  /\ attempt \in [Keys -> AttemptRow \cup {None}]
  /\ lease \in Keys \cup {None}
  /\ due \in BOOLEAN /\ ready \in BOOLEAN
  /\ fence \in Nat /\ authority \in 0..MaxAuthority
  /\ grants \in [Keys -> GrantRow \cup {None}]
  /\ settled \subseteq Request
  /\ intent \in [Keys -> Intent \cup {None}]
  /\ pending \in [Keys -> Request \cup {None}]
  /\ completed \in [Keys -> Request \cup {None}]
  /\ op \in [Runners -> Call \cup {None}]
  /\ stray \subseteq Keys \cup Request
  /\ crashes \in 0..MaxCrashes
  /\ cut \subseteq Keys \cup Request
  /\ dropped \in [Runners -> Keys \cup Request \cup {None}]

Init ==
  /\ attempt = [k \in Keys |-> None]
  /\ lease = None /\ due = FALSE /\ fence = 0 /\ ready = TRUE
  /\ authority = 0
  /\ grants = [k \in Keys |-> None]
  /\ settled = {}
  /\ intent = [k \in Keys |-> None]
  /\ pending = [k \in Keys |-> None]
  /\ completed = [k \in Keys |-> None]
  /\ op = [r \in Runners |-> None]
  /\ stray = {} /\ crashes = 0 /\ cut = {}
  /\ dropped = [r \in Runners |-> None]

-----------------------------------------------------------------------------
(* The server: one transaction per operation. *)

\* check_active_lease together with require_current_fence.
Active(k) == lease = k /\ ~due /\ attempt[k].state \in LiveAttemptStates

\* reclaim: a due lease whose holder may still be crashed.
Reclaimable == lease # None /\ due /\ attempt[lease].state \in LiveAttemptStates

\* Bug: reclaim writes a state the schema does not know.
ReclaimedAsExpired ==
  IF Reclaimable THEN [attempt EXCEPT ![lease].state = "Expired"] ELSE attempt

Reclaimed ==
  IF Reclaimable THEN [attempt EXCEPT ![lease].state = "Crashed"] ELSE attempt

\* KernelLeaseTransport::acquire.  A recorded grant is replayed while the
\* authority it was granted under is current; otherwise the variant must be
\* free, or its dead lease is reclaimed in the same transaction.
Replayable(k) == grants[k] # None /\ grants[k].authority = authority

Grantable(k) == grants[k] = None /\ attempt[k] = None /\ (ready \/ Reclaimable)

Grant(k) ==
  /\ attempt' = [Reclaimed EXCEPT ![k] = [fence |-> fence + 1,
                                          state |-> "Starting"]]
  /\ lease' = k /\ due' = FALSE /\ ready' = FALSE
  /\ fence' = fence + 1
  /\ grants' = [grants EXCEPT ![k] = [fence |-> fence + 1,
                                      authority |-> authority]]
  /\ UNCHANGED <<authority, settled>>

ServeAcquire(k, answer) ==
  \/ answer = "ok" /\ Replayable(k) /\ UNCHANGED server
  \/ answer = "ok" /\ Grantable(k) /\ Grant(k)
  \/ answer = "refused" /\ ~Replayable(k) /\ ~Grantable(k) /\ UNCHANGED server

\* require_source and incarnation_truth: the source grant and its authority
\* are current, the Attempt is the one named, in the expected state, and
\* holds the live lease.
SourceCurrent(q) == grants[q.key] # None /\ grants[q.key].authority = authority

IncarnationCurrent(q) ==
  /\ attempt[q.key].fence = q.fence
  /\ attempt[q.key].state = q.from
  /\ Active(q.key)

\* legal_transition, and the same test in release_on.
Settleable(q) ==
  /\ q \notin settled
  /\ SourceCurrent(q) /\ IncarnationCurrent(q)
  /\ <<attempt[q.key].state, q.to>> \in AttemptTransition

Settle(q) ==
  /\ attempt' = [attempt EXCEPT ![q.key].state = q.to]
  /\ settled' = settled \cup {q}
  /\ lease' = IF q.kind = "Release" THEN None ELSE lease
  /\ ready' = (ready \/ (q.kind = "Release" /\ q.requeue))
  /\ UNCHANGED <<due, fence, authority, grants>>

\* KernelLeaseTransport::settle: an existing record is returned whatever the
\* current authority.
ServeSettle(q, answer) ==
  \/ answer = "ok" /\ q \in settled /\ UNCHANGED server
  \/ answer = "ok" /\ Settleable(q) /\ Settle(q)
  \/ answer = "refused" /\ q \notin settled /\ ~Settleable(q) /\ UNCHANGED server

Serve(c, answer) ==
  IF c \in Keys THEN ServeAcquire(c, answer) ELSE ServeSettle(c, answer)

\* readback_active returns the recorded grant only while it is active;
\* settlement_readback returns the record whatever happened since.
Readback(c) ==
  IF c \in Keys
  THEN IF grants[c] = None THEN "absent"
       ELSE IF Replayable(c) /\ Active(c) THEN "recorded" ELSE "failed"
  ELSE IF c \in settled THEN "recorded" ELSE "absent"

\* Time: a lease whose heartbeats stop falls due; the reaper reclaims it.
FallDue ==
  /\ lease # None /\ ~due
  /\ due' = TRUE
  /\ UNCHANGED <<attempt, lease, fence, ready, authority, grants, settled,
                 journal, op, stray, crashes, cut, dropped>>

Reap ==
  /\ Reclaimable
  /\ attempt' = Reclaimed
  /\ lease' = None /\ due' = FALSE /\ ready' = TRUE
  /\ UNCHANGED <<fence, authority, grants, settled, journal, op, stray,
                 crashes, cut, dropped>>

\* A policy, graph, freeze or routing generation moves.
AdvanceAuthority ==
  /\ authority < MaxAuthority
  /\ authority' = authority + 1
  /\ UNCHANGED <<attempt, lease, due, fence, ready, grants, settled, journal,
                 op, stray, crashes, cut, dropped>>

\* A request that outlived its runner is served, and nobody reads the answer.
ServeStray(c) ==
  /\ c \in stray
  /\ \E answer \in {"ok", "refused"} : Serve(c, answer)
  /\ stray' = stray \ {c}
  /\ UNCHANGED <<journal, op, crashes, cut, dropped>>

-----------------------------------------------------------------------------
(* The client.  reconcile_acquire and reconcile_prepared are one protocol: *)
(* send if the journal entry is new, read back, and, when the record is    *)
(* absent and the send was not refused, send and read back once more.      *)

Begin(c, isNew) ==
  [at |-> IF isNew THEN "send" ELSE "read", call |-> c, try |-> 1,
   sent |-> "no", seen |-> "nothing"]

Journalled(r, f) == {k \in Keys : Owner[k] = r /\ f[k] # None}

\* LeaseClient::acquire up to the send: reserve_intent.
StartAcquire(r, k) ==
  LET isNew == intent[k] = None
  IN /\ op[r] = None /\ Owner[k] = r
     /\ completed[k] = None
     /\ isNew => Cardinality(Journalled(r, intent)) < MaxIntents
     /\ intent' = IF isNew
                  THEN [intent EXCEPT ![k] = [grant |-> None, current |-> None]]
                  ELSE intent
     /\ op' = [op EXCEPT ![r] = Begin(k, isNew)]
     /\ dropped' = [dropped EXCEPT ![r] = None]
     /\ UNCHANGED <<server, pending, completed, stray, crashes, cut>>

\* advance_request and release_request: the request the journal implies.
Implied(kind, k, to, requeue) ==
  [kind |-> kind, key |-> k, fence |-> intent[k].grant.fence,
   from |-> intent[k].current, to |-> to, requeue |-> requeue]

Granted(k) == intent[k] # None /\ intent[k].grant # None

\* require_advance and require_release.
Matches(q, kind, to, requeue) ==
  q.kind = kind /\ q.to = to /\ q.requeue = requeue

\* reserve_settlement for a request that has no pending entry.
Reserve(k, q) == pending' = [pending EXCEPT ![k] = q]

\* prepare_advance and prepare_release up to the send.  A pending request is
\* taken up again when it is the one asked for; a different one is refused,
\* and so is any other release of a released Attempt.
StartSettle(r, k, kind, to, requeue) ==
  /\ op[r] = None /\ Owner[k] = r
  /\ \/ /\ pending[k] # None
        /\ Matches(pending[k], kind, to, requeue)
        /\ op' = [op EXCEPT ![r] = Begin(pending[k], FALSE)]
        /\ UNCHANGED pending
     \/ /\ pending[k] = None
        /\ completed[k] # None => /\ ~Matches(completed[k], kind, to, requeue)
                                  /\ completed[k].kind = "Advance"
        /\ Granted(k)
        /\ Cardinality(Journalled(r, pending)) < MaxSettlements
        /\ \/ completed[k] # None
           \/ Cardinality(Journalled(r, completed)) < MaxSettlements
        /\ LET q == Implied(kind, k, to, requeue)
           IN /\ Reserve(k, q)
              /\ op' = [op EXCEPT ![r] = Begin(q, TRUE)]
  /\ dropped' = [dropped EXCEPT ![r] = None]
  /\ UNCHANGED <<server, intent, completed, stray, crashes, cut>>

\* The send: the transaction commits or refuses and the answer arrives; or
\* the connection breaks before the request is served or after it; or the
\* session is refused by the transport's own bounds and nothing is served.
Deliver(r, fate) ==
  op' = [op EXCEPT ![r] = [@ EXCEPT !.at = "read", !.sent = fate]]

Sending(r) == op[r] # None /\ op[r].at = "send"

SendAnswered(r) ==
  /\ Sending(r)
  /\ \E answer \in {"ok", "refused"} :
       Serve(op[r].call, answer) /\ Deliver(r, answer)
  /\ UNCHANGED <<journal, stray, crashes, cut, dropped>>

SendServedAnswerLost(r) ==
  /\ Sending(r)
  /\ \E answer \in {"ok", "refused"} : Serve(op[r].call, answer)
  /\ Deliver(r, "lost")
  /\ UNCHANGED <<journal, stray, crashes, cut, dropped>>

SendNotServed(r) ==
  /\ Sending(r)
  /\ \E fate \in {"lost", "refused"} : Deliver(r, fate)
  /\ UNCHANGED <<server, journal, stray, crashes, cut, dropped>>

\* The readback answers from the state it finds, or fails.
ReadBack(r) ==
  /\ op[r] # None /\ op[r].at = "read"
  /\ \E seen \in {Readback(op[r].call), "failed"} :
       op' = [op EXCEPT ![r] = [@ EXCEPT !.at = "act", !.seen = seen]]
  /\ UNCHANGED <<server, journal, stray, crashes, cut, dropped>>

Saw(r, seen) == op[r] # None /\ op[r].at = "act" /\ op[r].seen = seen

Done(r) == op' = [op EXCEPT ![r] = None]

\* publish_grant: the recorded grant must equal one already journalled.
PublishGrant(r) ==
  LET k == op[r].call
      g == grants[k]
  IN /\ Saw(r, "recorded") /\ k \in Keys
     /\ intent' = IF intent[k].grant = None
                  THEN [intent EXCEPT ![k] = [grant |-> g, current |-> "Starting"]]
                  ELSE intent
     /\ Done(r)
     /\ UNCHANGED <<server, pending, completed, stray, crashes, cut, dropped>>

\* Bug: a release leaves the acquire intent behind, to be replayed.
ReleasedIntentKept(q) ==
  IF q.kind = "Release" THEN intent ELSE [intent EXCEPT ![q.key].current = q.to]

\* complete_settlement: the journalled Attempt takes the recorded state, and
\* a release removes the acquire intent.
CompletedIntent(q) ==
  IF q.kind = "Release" THEN [intent EXCEPT ![q.key] = None]
                        ELSE [intent EXCEPT ![q.key].current = q.to]

PublishCompletion(r) ==
  LET q == op[r].call
  IN /\ Saw(r, "recorded") /\ q \notin Keys
     /\ intent' = CompletedIntent(q)
     /\ completed' = [completed EXCEPT ![q.key] = q]
     /\ pending' = [pending EXCEPT ![q.key] = None]
     /\ Done(r)
     /\ UNCHANGED <<server, stray, crashes, cut, dropped>>

\* The record is absent and the send of this round was refused.
MayDrop(r) == Saw(r, "absent") /\ op[r].sent = "refused"

\* forget_intent and publish_refusal.
DropRefused(r) ==
  LET c == op[r].call
  IN /\ MayDrop(r)
     /\ intent' = IF c \in Keys THEN [intent EXCEPT ![c] = None] ELSE intent
     /\ pending' = IF c \in Keys THEN pending
                                 ELSE [pending EXCEPT ![c.key] = None]
     /\ dropped' = [dropped EXCEPT ![r] = c]
     /\ Done(r)
     /\ UNCHANGED <<server, completed, stray, crashes, cut>>

\* The second round.
Resend(r) ==
  /\ Saw(r, "absent") /\ op[r].sent # "refused" /\ op[r].try = 1
  /\ op' = [op EXCEPT ![r] = [at |-> "send", call |-> op[r].call, try |-> 2,
                               sent |-> "no", seen |-> "nothing"]]
  /\ UNCHANGED <<server, journal, stray, crashes, cut, dropped>>

\* outcome_unknown: the journal keeps its entry for a later call.  So it does
\* when persist_recovery fails before the rename, at its byte ceiling or on an
\* I/O error, whatever was to be published.
GiveUp(r) ==
  /\ \/ Saw(r, "failed") \/ Saw(r, "recorded") \/ MayDrop(r)
     \/ Saw(r, "absent") /\ op[r].sent # "refused" /\ op[r].try = 2
  /\ Done(r)
  /\ UNCHANGED <<server, journal, stray, crashes, cut, dropped>>

\* The runner crashes and restarts from its journal.  What it was sending
\* may or may not have reached the server.
Crash(r) ==
  /\ crashes < MaxCrashes /\ op[r] # None
  /\ crashes' = crashes + 1
  /\ IF op[r].at = "send"
     THEN stray' = stray \cup {op[r].call} /\ cut' = cut \cup {op[r].call}
     ELSE UNCHANGED <<stray, cut>>
  /\ Done(r)
  /\ UNCHANGED <<server, journal, dropped>>

ClientStep(r) ==
  \/ \E k \in Keys : StartAcquire(r, k)
  \/ \E k \in Keys, s \in AdvanceTargets : StartSettle(r, k, "Advance", s, FALSE)
  \/ \E k \in Keys, s \in ReleaseTargets, b \in Requeues :
       StartSettle(r, k, "Release", s, b)
  \/ SendAnswered(r) \/ SendServedAnswerLost(r) \/ SendNotServed(r)
  \/ ReadBack(r)
  \/ PublishGrant(r) \/ PublishCompletion(r) \/ DropRefused(r)
  \/ Resend(r) \/ GiveUp(r)
  \/ Crash(r)

Next ==
  \/ \E r \in Runners : ClientStep(r)
  \/ \E c \in stray : ServeStray(c)
  \/ FallDue \/ Reap \/ AdvanceAuthority

Spec == Init /\ [][Next]_vars

-----------------------------------------------------------------------------
(* Properties. *)

\* A restart can rely on the journal: it passes RecoveryJournal::validate,
\* which persist_recovery runs before every write and load_recovery after
\* every restart, and what it says the server recorded the server recorded: a
\* grant publish_grant journalled is the stored grant, a settlement
\* publish_completion journalled has its immutable row.
JournalIsSound ==
  \A k \in Keys :
    /\ intent[k] # None => (intent[k].grant = None <=> intent[k].current = None)
    /\ Granted(k) => /\ intent[k].grant = grants[k]
                     /\ intent[k].current =
                          IF completed[k] = None THEN "Starting" ELSE completed[k].to
    /\ pending[k] # None => /\ Granted(k)
                            /\ pending[k].fence = intent[k].grant.fence
                            /\ pending[k].from = intent[k].current
    /\ completed[k] # None => completed[k] \in settled

\* What a caller was told is refused took no effect: a lease no journal knows
\* is not held, because reconcile_acquire forgets an intent only when no grant
\* was made, and a settlement reported as refused was not applied.  The one
\* exception is a request that was in flight when its runner crashed and is
\* served after the restarted runner had its own copy refused.
RefusedTookNoEffect ==
  /\ \A k \in Keys : lease = k /\ intent[k] = None => k \in cut
  /\ \A r \in Runners : dropped[r] \in settled => dropped[r] \in cut

\* With no settlement pending, the journal's Attempt state is the server's,
\* unless the lease was reclaimed or a request cut by a crash was applied
\* after the restarted runner had given it up.
JournalAgrees ==
  \A k \in Keys :
    (Granted(k) /\ pending[k] = None /\ attempt[k].state # intent[k].current) =>
      \/ attempt[k].state = "Crashed"
      \/ \E q \in settled \cap cut : q.key = k /\ q.to = attempt[k].state

\* What the signed client concludes from its journal is true of the ledger,
\* through lost requests, lost answers and crashes: refusals took no effect
\* and a journal without pending settlement holds the Attempt's state.
AnswersAreTrue == RefusedTookNoEffect /\ JournalAgrees

\* LeaseClient::advance applies "one legal attempt state transition": while
\* its lease lasts and no crash cut a request, the Attempt of a runner whose
\* last advance completed is in the state that advance named.
AdvanceTakesEffect ==
  \A k \in Keys :
    (completed[k] # None /\ pending[k] = None /\ lease = k /\ cut = {}) =>
      attempt[k].state = completed[k].to
=============================================================================
