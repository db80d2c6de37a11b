--------------------------- MODULE EffectDelivery ---------------------------
(***************************************************************************)
(* One external effect, the creation of a candidate ref on a local bare    *)
(* forge, from its proposal to a settled outcome.                          *)
(*                                                                         *)
(* The author, the writer whose lease has fence 1, runs the broker         *)
(* (crates/effects/src/broker.rs): every ledger call is a transaction of   *)
(* its own, so the author may be overtaken or crash between any two.  A    *)
(* writer with a later fence runs restart recovery                         *)
(* (crates/effects/src/recovery.rs) over durable claims                    *)
(* (crates/adapters/src/sqlite/effect_recovery, db/migrations/0023).       *)
(*                                                                         *)
(* A database time is abstracted to <<generation, what was written then>>: *)
(* the code only ever compares recorded times for equality.  The canonical *)
(* receipt of an observation is identified by its verdict.  A failed       *)
(* ledger call rolls back and ends the invocation.                         *)
(***************************************************************************)
EXTENDS Integers, Sequences, FiniteSets

CONSTANTS
    MaxFence,   \* bound: leases granted; fence 1 is the author's
    MaxEpoch,   \* bound: authority epochs
    MaxMoves,   \* bound: leases granted and authority moves together
    None

Recoverers == 2..MaxFence

ASSUME DeliveryAssumptions ==
    /\ MaxFence \in Nat \ {0} /\ MaxEpoch \in Nat \ {0} /\ MaxMoves \in Nat

VARIABLES
    intent,     \* effect_intents row: state and unknown_retries
    dispatch,   \* phase of the broker's outbox row
    receipts,   \* effect_receipts rows
    claims,     \* effect_recovery_claims rows, by generation
    moves,      \* effect_recovery_transition events
    remote,     \* the ref on the forge
    late,       \* a push nobody waits for any more is still under way
    lease,      \* active_leases row of the variant with its authority binding
    fence,      \* the last fence granted
    epoch,      \* the authority epoch in force
    author,     \* the author's progress
    recoverer   \* the progress of each recovering writer

store == <<intent, dispatch, receipts, claims, moves>>
authority == <<lease, fence, epoch>>
forge == <<remote, late>>
vars == <<store, forge, authority, author, recoverer>>

EffectStates == {"PROPOSED", "AUTHORIZED", "DISPATCHING", "RECEIPT_PENDING",
                 "OUTCOME_UNKNOWN", "VERIFIED", "COMMITTED", "QUARANTINED",
                 "ORPHANED_REMOTE"}
Active == {"CLAIMED", "RETRY_RESERVED", "READBACK_UNKNOWN"}
Terminal == {"ADOPTED", "ORPHANED", "QUARANTINED"}
Verdicts == {"MATCH", "MISMATCH", "ABSENT"}
Reasons == {"RETRY_SPENT_AFTER_ABSENCE", "READBACK_UNAVAILABLE"}
Phases == {"pending", "applied", "verified", "unknown"}
Generations == 1..(MaxFence + MaxEpoch)
Times == Generations \X ({"birth", "INVALIDATED"} \cup Active \cup Terminal)

\* The edges of the effect state machine the broker and recovery use.
Edges ==
    {<<"PROPOSED", "AUTHORIZED">>, <<"AUTHORIZED", "DISPATCHING">>,
     <<"DISPATCHING", "RECEIPT_PENDING">>, <<"DISPATCHING", "OUTCOME_UNKNOWN">>,
     <<"RECEIPT_PENDING", "OUTCOME_UNKNOWN">>, <<"RECEIPT_PENDING", "VERIFIED">>,
     <<"OUTCOME_UNKNOWN", "VERIFIED">>, <<"OUTCOME_UNKNOWN", "DISPATCHING">>,
     <<"OUTCOME_UNKNOWN", "ORPHANED_REMOTE">>, <<"VERIFIED", "COMMITTED">>,
     <<"DISPATCHING", "QUARANTINED">>, <<"RECEIPT_PENDING", "QUARANTINED">>,
     <<"OUTCOME_UNKNOWN", "QUARANTINED">>}

Edge(from, to) == <<from, to>> \in Edges

\* The intent's unknown_retries has no CHECK (0003_effects.sql:19); its copy in
\* a claim has one (0023_effect_recovery_claims.sql:64).
IntentRow == [state : EffectStates, retries : Nat]
SnapshotRow == [state : EffectStates, retries : 0..1]
ReceiptRow == [method : {"read-back", "local-bare"}, verdict : Verdicts,
               adopted : BOOLEAN, at : Times \cup {None}]
ClaimRow == [fence : Recoverers, epoch : 1..MaxEpoch,
             disposition : Active \cup Terminal \cup {"INVALIDATED"},
             from : Active \cup {None}, receipt : Verdicts \cup {None},
             reason : Reasons \cup {None}, intent : SnapshotRow,
             phase : Phases, delivered : Times \cup {None},
             acked : Times \cup {None}, updated : Times]
MoveRow == [gen : Generations, from : Active, to : Active \cup Terminal,
            receipt : Verdicts \cup {None}, reason : Reasons \cup {None}]
LeaseRow == [fence : 1..MaxFence, epoch : 1..MaxEpoch, live : BOOLEAN]

\* None is no row and no value of a column.
ASSUME NoneIsApart ==
    /\ None \notin Nat /\ None \notin Times /\ None \notin IntentRow /\ None \notin LeaseRow
    /\ None \notin Verdicts \cup Active \cup Terminal \cup Reasons \cup Phases

AuthorSteps == {"idle", "enqueue", "applied", "push", "accepted", "look", "record",
                "verify", "commit", "quarantine", "lost", "mark", "reconcile",
                "retry"}
RecovererSteps == {"idle", "read", "apply", "recheck", "push"}
AuthorRow == [pc : AuthorSteps, verdict : Verdicts \cup {None}, adopted : BOOLEAN,
              retries : Nat]
WorkRow == [pc : RecovererSteps, gen : Generations \cup {None},
            disposition : Active \cup {None}, retries : 0..1,
            to : Active \cup Terminal \cup {None},
            receipt : Verdicts \cup {None}, reason : Reasons \cup {None},
            again : BOOLEAN]

TypeOK ==
    /\ intent \in IntentRow \cup {None}
    /\ dispatch \in Phases \cup {None}
    /\ receipts \subseteq ReceiptRow
    /\ claims \in Seq(ClaimRow)
    /\ moves \subseteq MoveRow
    /\ remote \in {"absent", "desired", "foreign"}
    /\ late \in BOOLEAN
    /\ lease \in LeaseRow \cup {None}
    /\ fence \in 1..MaxFence
    /\ epoch \in 1..MaxEpoch
    /\ author \in AuthorRow
    /\ recoverer \in [Recoverers -> WorkRow]

AtRest == [pc |-> "idle", verdict |-> None, adopted |-> FALSE, retries |-> 0]
Work(pc, gen, d, n) ==
    [pc |-> pc, gen |-> gen, disposition |-> d, retries |-> n,
     to |-> None, receipt |-> None, reason |-> None, again |-> FALSE]
Resting == Work("idle", None, None, 0)

Init ==
    /\ intent = None /\ dispatch = None /\ receipts = {}
    /\ claims = <<>> /\ moves = {}
    /\ remote = "absent" /\ late = FALSE
    /\ lease = [fence |-> 1, epoch |-> 1, live |-> TRUE]
    /\ fence = 1 /\ epoch = 1
    /\ author = AtRest
    /\ recoverer = [r \in Recoverers |-> Resting]

-----------------------------------------------------------------------------
(* The forge: push with force-with-lease on an absent ref, and ls-remote.   *)

Verdict == CASE remote = "desired" -> "MATCH"
             [] remote = "foreign" -> "MISMATCH"
             [] remote = "absent" -> "ABSENT"

\* The push is executed: it creates an absent ref, and is up to date on a ref
\* that already has the desired value.
PushAccepted ==
    /\ remote # "foreign"
    /\ remote' = "desired"
    /\ UNCHANGED late

\* Rejected: another value is there, or another push of the same value won a
\* race between the two.
PushRejected == remote # "absent" /\ UNCHANGED forge

\* The caller gets no verdict: the push was executed or not, or will be later.
PushUnanswered ==
    \/ PushAccepted
    \/ UNCHANGED forge
    \/ remote = "absent" /\ late' = TRUE /\ UNCHANGED remote

LatePushLands ==
    /\ late
    /\ late' = FALSE
    /\ remote' = IF remote = "absent" THEN "desired" ELSE remote
    /\ UNCHANGED <<store, authority, author, recoverer>>

\* Somebody else creates the ref.  A candidate ref that is there is assumed to
\* stay: nobody moves or deletes it.
ForeignWrite ==
    /\ remote = "absent"
    /\ remote' = "foreign"
    /\ UNCHANGED <<store, late, authority, author, recoverer>>

-----------------------------------------------------------------------------
(* The author: propose, authorize, dispatch and reconcile of the broker.    *)

\* transition_effect: the edge is checked against the row as it is now.
TransitionEffect(to) ==
    /\ Edge(intent.state, to)
    /\ intent' = [state |-> to,
                  retries |-> IF intent.state = "OUTCOME_UNKNOWN"
                                   /\ to = "DISPATCHING"
                              THEN intent.retries + 1 ELSE intent.retries]

AuthorGoes(pc) == author' = [author EXCEPT !.pc = pc]

\* A broker step that moves the intent, or fails and ends the call.
Transits(to, pc) ==
    IF Edge(intent.state, to)
    THEN TransitionEffect(to) /\ AuthorGoes(pc)
    ELSE UNCHANGED intent /\ author' = AtRest

Propose ==
    /\ author.pc = "idle" /\ intent = None
    /\ intent' = [state |-> "PROPOSED", retries |-> 0]
    /\ UNCHANGED <<dispatch, receipts, claims, moves, forge, authority, author, recoverer>>

\* The lease row must name the author; its expiry is not looked at.
Authorize ==
    /\ author.pc = "idle" /\ intent # None /\ intent.state = "PROPOSED"
    /\ lease # None /\ lease.fence = 1
    /\ TransitionEffect("AUTHORIZED")
    /\ AuthorGoes("enqueue")
    /\ UNCHANGED <<dispatch, receipts, claims, moves, forge, authority, recoverer>>

OutboxEnqueue ==
    /\ author.pc = "enqueue"
    /\ dispatch' = "pending"
    /\ author' = AtRest
    /\ UNCHANGED <<intent, receipts, claims, moves, forge, authority, recoverer>>

\* dispatch: the sequence of the outbox row comes from authorize.
Dispatch ==
    /\ author.pc = "idle" /\ intent # None /\ intent.state = "AUTHORIZED"
    /\ dispatch # None
    /\ TransitionEffect("DISPATCHING")
    /\ AuthorGoes("applied")
    /\ UNCHANGED <<dispatch, receipts, claims, moves, forge, authority, recoverer>>

MarkApplied ==
    /\ author.pc = "applied"
    /\ dispatch' = "applied"
    /\ AuthorGoes("push")
    /\ UNCHANGED <<intent, receipts, claims, moves, forge, authority, recoverer>>

\* push_and_settle: the push and the four answers it may get; any other error
\* is returned to the caller.
AuthorPush ==
    /\ author.pc = "push"
    /\ \/ PushAccepted /\ AuthorGoes("accepted")
       \/ PushUnanswered /\ AuthorGoes("lost")
       \/ PushRejected /\ author' = [author EXCEPT !.pc = "record",
                                                   !.verdict = "MISMATCH"]
       \/ PushUnanswered /\ author' = AtRest
    /\ UNCHANGED <<store, authority, recoverer>>

\* Mutant: an accepted push is taken for a verified one.
AuthorAcceptedUnread ==
    /\ author.pc = "accepted"
    /\ Edge(intent.state, "RECEIPT_PENDING")
    /\ intent' = [intent EXCEPT !.state = "VERIFIED"]
    /\ AuthorGoes("commit")
    /\ UNCHANGED <<dispatch, receipts, claims, moves, forge, authority, recoverer>>

AuthorAccepted ==
    /\ author.pc = "accepted"
    /\ Transits("RECEIPT_PENDING", "look")
    /\ UNCHANGED <<dispatch, receipts, claims, moves, forge, authority, recoverer>>

AuthorLooks ==
    /\ author.pc = "look"
    /\ author' \in {[author EXCEPT !.pc = "record", !.verdict = Verdict], AtRest}
    /\ UNCHANGED <<store, forge, authority, recoverer>>

\* settle_read_back: the receipt, the intent, the outbox row.
RecordReceipt ==
    /\ author.pc = "record"
    /\ receipts' = receipts \cup
            {[method |-> "read-back", verdict |-> author.verdict,
              adopted |-> author.adopted, at |-> None]}
    /\ AuthorGoes(IF author.verdict = "MATCH" THEN "verify" ELSE "quarantine")
    /\ UNCHANGED <<intent, dispatch, claims, moves, forge, authority, recoverer>>

AuthorVerifies ==
    /\ author.pc = "verify"
    /\ Transits("VERIFIED", "commit")
    /\ UNCHANGED <<dispatch, receipts, claims, moves, forge, authority, recoverer>>

AuthorCommits ==
    /\ author.pc = "commit"
    /\ Transits("COMMITTED", "mark")
    /\ UNCHANGED <<dispatch, receipts, claims, moves, forge, authority, recoverer>>

AuthorQuarantines ==
    /\ author.pc = "quarantine"
    /\ Transits("QUARANTINED", "mark")
    /\ UNCHANGED <<dispatch, receipts, claims, moves, forge, authority, recoverer>>

ResponseLost ==
    /\ author.pc = "lost"
    /\ Transits("OUTCOME_UNKNOWN", "mark")
    /\ UNCHANGED <<dispatch, receipts, claims, moves, forge, authority, recoverer>>

\* outbox_mark rewrites the phase whatever it was.
OutboxMark ==
    /\ author.pc = "mark"
    /\ dispatch' = IF author.verdict = "MATCH" THEN "verified" ELSE "unknown"
    /\ author' = AtRest
    /\ UNCHANGED <<intent, receipts, claims, moves, forge, authority, recoverer>>

\* reconcile reads the row once; the retry count it read decides later.
Reconcile ==
    /\ author.pc = "idle" /\ intent # None /\ intent.state = "OUTCOME_UNKNOWN"
    /\ author' = [AtRest EXCEPT !.pc = "reconcile", !.retries = intent.retries]
    /\ UNCHANGED <<store, forge, authority, recoverer>>

ReconcileReads ==
    /\ author.pc = "reconcile"
    /\ \/ author' = AtRest                                   \* read_ref failed
       \/ /\ remote = "absent" /\ author.retries = 0
          /\ AuthorGoes("retry")
       \/ /\ ~(remote = "absent" /\ author.retries = 0)
          /\ author' = [AtRest EXCEPT !.pc = "record", !.verdict = Verdict,
                                      !.adopted = (remote = "desired")]
    /\ UNCHANGED <<store, forge, authority, recoverer>>

ReconcileRetries ==
    /\ author.pc = "retry"
    /\ Transits("DISPATCHING", "push")
    /\ UNCHANGED <<dispatch, receipts, claims, moves, forge, authority, recoverer>>

\* The process dies; a push it had started may still arrive.
AuthorCrashes ==
    /\ author.pc # "idle"
    /\ author' = AtRest
    /\ IF author.pc = "push" THEN PushUnanswered ELSE UNCHANGED forge
    /\ UNCHANGED <<store, authority, recoverer>>

-----------------------------------------------------------------------------
(* The claims of restart recovery.                                          *)

Latest == Len(claims)
Current(c) == c.epoch = epoch /\ lease # None /\ lease.live
              /\ lease.fence = c.fence /\ lease.epoch = epoch
Unresolved(state) == state \in {"DISPATCHING", "RECEIPT_PENDING", "OUTCOME_UNKNOWN"}

\* The row with its outbox row after INVALIDATED, by a trigger or by the code.
Invalidated(g) ==
    LET c == claims[g] IN
    IF c.disposition \notin Active THEN c
    ELSE [c EXCEPT !.disposition = "INVALIDATED", !.from = c.disposition,
                   !.updated = <<g, "INVALIDATED">>,
                   !.phase = IF c.phase \in {"pending", "applied"} THEN "unknown" ELSE @,
                   !.acked = IF c.phase \in {"pending", "applied"}
                             THEN <<g, "INVALIDATED">> ELSE @]

\* The intent snapshot a claim may carry in each active disposition.
SnapshotFits(d, i) ==
    \/ d = "CLAIMED" /\ i.state = "OUTCOME_UNKNOWN" /\ i.retries = 0
    \/ d = "RETRY_RESERVED" /\ i.state \in {"DISPATCHING", "OUTCOME_UNKNOWN"}
                           /\ i.retries = 1
    \/ d = "READBACK_UNKNOWN" /\ i.state = "OUTCOME_UNKNOWN" /\ i.retries <= 1

\* A later claim continues in the phase its predecessor was invalidated in.
NextDisposition ==
    IF Latest > 0 THEN claims[Latest].from
    ELSE IF intent.retries = 0 THEN "CLAIMED" ELSE "READBACK_UNKNOWN"

NewClaim(r, d) ==
    LET g == Latest + 1
        reserved == d = "RETRY_RESERVED"
    IN [fence |-> r, epoch |-> epoch, disposition |-> d, from |-> None,
        receipt |-> IF reserved THEN claims[Latest].receipt ELSE None,
        reason |-> None,
        intent |-> [intent EXCEPT !.state = "OUTCOME_UNKNOWN"],
        phase |-> IF reserved THEN "applied" ELSE "pending",
        delivered |-> IF reserved THEN <<g, "birth">> ELSE None,
        acked |-> None, updated |-> <<g, "birth">>]

Hold(r, g, c) ==
    recoverer' = [recoverer EXCEPT ![r] = Work("read", g, c.disposition, c.intent.retries)]

\* Mutant: a successor is given its own claim again only before it made progress.
ClaimAgainFresh(r) ==
    /\ recoverer[r].pc = "idle" /\ Latest > 0
    /\ LET c == claims[Latest] IN
       /\ c.disposition = "CLAIMED" /\ c.fence = r /\ Current(c)
       /\ c.intent = intent
       /\ Hold(r, Latest, c)
    /\ UNCHANGED <<store, forge, authority, author>>

\* claim_effect_recovery by the holder of the current lease: its own active
\* claim again, or the first claim, or the successor of an invalidated one.
\* A terminal predecessor means no work.
ClaimAgain(r) ==
    /\ recoverer[r].pc = "idle" /\ Latest > 0
    /\ LET c == claims[Latest] IN
       /\ c.disposition \in Active /\ c.fence = r /\ Current(c)
       /\ c.intent = intent
       /\ Hold(r, Latest, c)
    /\ UNCHANGED <<store, forge, authority, author>>

Claimable(r) ==
    /\ intent # None /\ Unresolved(intent.state) /\ intent.retries <= 1
    /\ lease # None /\ lease.fence = r /\ lease.live /\ lease.epoch = epoch
    /\ Latest > 0 => claims[Latest].disposition = "INVALIDATED"

ClaimEffect(r) ==
    /\ recoverer[r].pc = "idle"
    /\ Claimable(r)
    /\ LET d == NextDisposition
           c == NewClaim(r, d)
       IN /\ SnapshotFits(d, c.intent)
          /\ intent' = c.intent
          /\ claims' = Append(claims, c)
          /\ Hold(r, Latest + 1, c)
    /\ UNCHANGED <<dispatch, receipts, moves, forge, authority, author>>

\* The answer of read_ref decides the next transition of the claim.
Decide(r, to, receipt, reason, again) ==
    recoverer' = [recoverer EXCEPT ![r] =
        [@ EXCEPT !.pc = "apply", !.to = to, !.receipt = receipt, !.reason = reason,
                  !.again = again]]

SettleObserved(r) ==
    /\ remote # "absent"
    /\ Decide(r, IF remote = "desired" THEN "ADOPTED" ELSE "ORPHANED", Verdict,
              None, FALSE)

ResolveAbsence(r) ==
    LET me == recoverer[r] IN
    /\ remote = "absent"
    /\ \/ /\ \/ me.disposition = "CLAIMED"
             \/ me.disposition = "READBACK_UNKNOWN" /\ me.retries = 0
          /\ Decide(r, "RETRY_RESERVED", "ABSENT", None, FALSE)
       \/ /\ me.disposition = "RETRY_RESERVED"
          /\ recoverer' = [recoverer EXCEPT ![r].pc = "recheck"]
       \/ /\ me.disposition = "READBACK_UNKNOWN" /\ me.retries = 1
          /\ Decide(r, "QUARANTINED", "ABSENT", "RETRY_SPENT_AFTER_ABSENCE", FALSE)

ReadbackUnavailable(r) ==
    IF recoverer[r].disposition = "READBACK_UNKNOWN"
    THEN Decide(r, "QUARANTINED", None, "READBACK_UNAVAILABLE", FALSE)
    ELSE Decide(r, "READBACK_UNKNOWN", None, None, FALSE)

ReadRef(r) ==
    /\ recoverer[r].pc = "read"
    /\ SettleObserved(r) \/ ResolveAbsence(r) \/ ReadbackUnavailable(r)
    /\ UNCHANGED <<store, forge, authority, author>>

-----------------------------------------------------------------------------
(* apply_effect_recovery: one transaction over receipt, intent, outbox row, *)
(* claim and event.                                                         *)

\* The admitted transitions of a claim (validate_for).
Admitted(c, me) ==
    /\ c.disposition = me.disposition /\ c.disposition \in Active
    /\ \/ /\ me.to = "RETRY_RESERVED" /\ c.disposition # "RETRY_RESERVED"
          /\ c.intent.retries = 0 /\ me.receipt = "ABSENT"
       \/ me.to = "READBACK_UNKNOWN" /\ c.disposition # "READBACK_UNKNOWN"
       \/ me.to = "ADOPTED" /\ me.receipt = "MATCH"
       \/ me.to = "ORPHANED" /\ me.receipt = "MISMATCH"
       \/ /\ me.to = "QUARANTINED" /\ c.disposition = "READBACK_UNKNOWN"
          /\ \/ /\ me.reason = "RETRY_SPENT_AFTER_ABSENCE"
                /\ c.intent.retries = 1 /\ me.receipt = "ABSENT"
             \/ me.reason = "READBACK_UNAVAILABLE" /\ me.receipt = None

\* A receipt that is already there keeps its first time.
InsertReceipt(v, adopted, at) ==
    receipts \cup
        (IF \E x \in receipts : x.method = "local-bare" /\ x.verdict = v
         THEN {}
         ELSE {[method |-> "local-bare", verdict |-> v, adopted |-> adopted, at |-> at]})

\* Mutant: a reservation does not spend the retry budget.
TargetPhaseUnspent(to, i) ==
    CASE to = "RETRY_RESERVED" -> [i EXCEPT !.state = "DISPATCHING"]
      [] to = "READBACK_UNKNOWN" -> [i EXCEPT !.state = "OUTCOME_UNKNOWN"]
      [] to = "ADOPTED" -> [i EXCEPT !.state = "COMMITTED"]
      [] to = "ORPHANED" -> [i EXCEPT !.state = "ORPHANED_REMOTE"]
      [] to = "QUARANTINED" -> [i EXCEPT !.state = "QUARANTINED"]

\* Mutant: an unanswered retry is counted again.
TargetPhaseAgain(to, i) ==
    CASE to = "RETRY_RESERVED" -> [state |-> "DISPATCHING", retries |-> 1]
      [] to = "READBACK_UNKNOWN" -> [state |-> "OUTCOME_UNKNOWN", retries |-> i.retries + 1]
      [] to = "ADOPTED" -> [i EXCEPT !.state = "COMMITTED"]
      [] to = "ORPHANED" -> [i EXCEPT !.state = "ORPHANED_REMOTE"]
      [] to = "QUARANTINED" -> [i EXCEPT !.state = "QUARANTINED"]

TargetPhase(to, i) ==
    CASE to = "RETRY_RESERVED" -> [state |-> "DISPATCHING", retries |-> 1]
      [] to = "READBACK_UNKNOWN" -> [i EXCEPT !.state = "OUTCOME_UNKNOWN"]
      [] to = "ADOPTED" -> [i EXCEPT !.state = "COMMITTED"]
      [] to = "ORPHANED" -> [i EXCEPT !.state = "ORPHANED_REMOTE"]
      [] to = "QUARANTINED" -> [i EXCEPT !.state = "QUARANTINED"]

UpdatedClaim(g, me) ==
    LET c == claims[g] IN
    [c EXCEPT !.disposition = me.to, !.receipt = me.receipt, !.reason = me.reason,
              !.intent = TargetPhase(me.to, c.intent), !.updated = <<g, me.to>>,
              !.phase = CASE me.to = "RETRY_RESERVED" -> "applied"
                          [] me.to = "ADOPTED" -> "verified"
                          [] me.to = "READBACK_UNKNOWN" -> @
                          [] OTHER -> "unknown",
              !.delivered = IF me.to = "RETRY_RESERVED" THEN <<g, me.to>> ELSE @,
              !.acked = IF me.to \in Terminal THEN <<g, me.to>> ELSE @]

\* The outbox row accepts the stamp the transition writes.
OutboxOpen(c, to) ==
    \/ to = "READBACK_UNKNOWN"
    \/ /\ c.phase \in {"pending", "applied"}
       /\ IF to = "RETRY_RESERVED" THEN c.delivered = None ELSE c.acked = None

Applies(r) ==
    LET me == recoverer[r]
        c == claims[me.gen]
    IN c.intent = intent /\ Admitted(c, me) /\ Current(c) /\ OutboxOpen(c, me.to)

\* What the caller does with the answer.
AfterApply(me) ==
    CASE me.to = "RETRY_RESERVED" ->
            Work("recheck", me.gen, me.to, 1)
      [] me.to = "READBACK_UNKNOWN" /\ me.again ->
            Work("read", me.gen, me.to, me.retries)
      [] OTHER -> Resting

ApplyRecovery(r) ==
    LET me == recoverer[r] IN
    /\ me.pc = "apply"
    /\ Applies(r)
    /\ LET c == UpdatedClaim(me.gen, me) IN
       /\ claims' = [claims EXCEPT ![me.gen] = c]
       /\ intent' = c.intent
       /\ receipts' = IF me.receipt = None THEN receipts
                      ELSE InsertReceipt(me.receipt, me.to = "ADOPTED", c.updated)
    /\ moves' = moves \cup {[gen |-> me.gen, from |-> me.disposition, to |-> me.to,
                             receipt |-> me.receipt, reason |-> me.reason]}
    /\ recoverer' = [recoverer EXCEPT ![r] = AfterApply(me)]
    /\ UNCHANGED <<dispatch, forge, authority, author>>

\* Refused; a claim that merely ceased to be current is invalidated first.
ApplyRefused(r) ==
    LET me == recoverer[r]
        c == claims[me.gen]
    IN
    /\ me.pc = "apply"
    /\ ~Applies(r)
    /\ claims' = IF c.intent = intent /\ Admitted(c, me) /\ ~Current(c)
                 THEN [claims EXCEPT ![me.gen] = Invalidated(me.gen)] ELSE claims
    /\ recoverer' = [recoverer EXCEPT ![r] = Resting]
    /\ UNCHANGED <<intent, dispatch, receipts, moves, forge, authority, author>>

\* execute_reserved_retry: the claim is read again before the push, and the
\* push is sent outside of any transaction.
RecheckClaim(r) ==
    LET me == recoverer[r]
        c == claims[me.gen]
    IN
    /\ me.pc = "recheck"
    /\ recoverer' = [recoverer EXCEPT ![r] =
            IF c.disposition = "RETRY_RESERVED" /\ Current(c)
            THEN [me EXCEPT !.pc = "push"] ELSE Resting]
    /\ UNCHANGED <<store, forge, authority, author>>

RecoveryPush(r) ==
    /\ recoverer[r].pc = "push"
    /\ \/ PushAccepted /\ Decide(r, "READBACK_UNKNOWN", None, None, TRUE)
       \/ /\ PushUnanswered \/ PushRejected
          /\ Decide(r, "READBACK_UNKNOWN", None, None, FALSE)
    /\ UNCHANGED <<store, authority, author>>

RecovererCrashes(r) ==
    /\ recoverer[r].pc # "idle"
    /\ recoverer' = [recoverer EXCEPT ![r] = Resting]
    /\ IF recoverer[r].pc = "push" THEN PushUnanswered ELSE UNCHANGED forge
    /\ UNCHANGED <<store, authority, author>>

-----------------------------------------------------------------------------
(* The lease and the authority move.                                        *)

Expire ==
    /\ lease # None /\ lease.live
    /\ lease' = [lease EXCEPT !.live = FALSE]
    /\ UNCHANGED <<store, forge, fence, epoch, author, recoverer>>

\* The row is deleted by release or by the reaper; a trigger invalidates the
\* active claim it carried.
LoseLease ==
    /\ lease # None
    /\ lease' = None
    /\ claims' = [g \in DOMAIN claims |->
                    IF claims[g].fence = lease.fence THEN Invalidated(g) ELSE claims[g]]
    /\ UNCHANGED <<intent, dispatch, receipts, moves, forge, fence, epoch, author,
                   recoverer>>

AcquireLease ==
    /\ lease = None /\ fence < MaxFence /\ fence + epoch < MaxMoves
    /\ fence' = fence + 1
    /\ lease' = [fence |-> fence + 1, epoch |-> epoch, live |-> TRUE]
    /\ UNCHANGED <<store, forge, epoch, author, recoverer>>

\* A trigger invalidates every active claim bound to another epoch.
MoveAuthority ==
    /\ epoch < MaxEpoch /\ fence + epoch < MaxMoves
    /\ epoch' = epoch + 1
    /\ claims' = [g \in DOMAIN claims |-> Invalidated(g)]
    /\ UNCHANGED <<intent, dispatch, receipts, moves, forge, lease, fence, author,
                   recoverer>>

AuthorStep ==
    \/ Propose \/ Authorize \/ OutboxEnqueue \/ Dispatch \/ MarkApplied
    \/ AuthorPush \/ AuthorAccepted \/ AuthorLooks \/ RecordReceipt
    \/ AuthorVerifies \/ AuthorCommits \/ AuthorQuarantines \/ ResponseLost
    \/ OutboxMark \/ Reconcile \/ ReconcileReads \/ ReconcileRetries

RecoveryStep(r) ==
    \/ ClaimAgain(r) \/ ClaimEffect(r) \/ ReadRef(r) \/ ApplyRecovery(r)
    \/ ApplyRefused(r) \/ RecheckClaim(r) \/ RecoveryPush(r)

Next ==
    \/ AuthorStep \/ AuthorCrashes
    \/ \E r \in Recoverers : RecoveryStep(r) \/ RecovererCrashes(r)
    \/ LatePushLands \/ ForeignWrite
    \/ Expire \/ LoseLease \/ AcquireLease \/ MoveAuthority

\* The writer with the newest fence takes its recovery steps.
NewestStep == fence \in Recoverers /\ RecoveryStep(fence)
Fairness == WF_vars(NewestStep)

Spec == Init /\ [][Next]_vars /\ Fairness

-----------------------------------------------------------------------------
(* validate_terminal_truth: what a later claim of a settled effect demands  *)
(* of everything recovery wrote before it answers that there is no work.    *)

CanonicalReceipt(v) == {x \in receipts : x.method = "local-bare" /\ x.verdict = v}
Reservations == {m \in moves : m.to = "RETRY_RESERVED"}

TransitionAdmitted(c, m) ==
    /\ m.receipt = c.receipt /\ m.reason = c.reason
    /\ \/ c.disposition = "ADOPTED" /\ m.reason = None /\ m.receipt = "MATCH"
       \/ c.disposition = "ORPHANED" /\ m.reason = None /\ m.receipt = "MISMATCH"
       \/ /\ c.disposition = "QUARANTINED" /\ m.from = "READBACK_UNKNOWN"
          /\ \/ /\ m.reason = "RETRY_SPENT_AFTER_ABSENCE"
                /\ c.intent.retries = 1 /\ m.receipt = "ABSENT"
             \/ m.reason = "READBACK_UNAVAILABLE" /\ m.receipt = None

OutboxCorrelated(c) ==
    /\ c.phase = IF c.disposition = "ADOPTED" THEN "verified" ELSE "unknown"
    /\ c.acked = c.updated

\* The one reservation there may be is backed by the absence receipt, written
\* when the claim that reserved was delivered.
ReservationCanonical(g) ==
    /\ \A a, b \in Reservations : a = b
    /\ \A m \in Reservations :
        /\ m.from \in {"CLAIMED", "READBACK_UNKNOWN"} /\ m.gen <= g
        /\ m.receipt = "ABSENT" /\ m.reason = None
        /\ \E x \in CanonicalReceipt("ABSENT") :
            ~x.adopted /\ claims[m.gen].delivered = x.at

\* A successor continues the phase its predecessor was invalidated in.
BirthCanonical(g) ==
    g > 1 => LET b == claims[g - 1] IN
             /\ b.disposition = "INVALIDATED"
             /\ b.receipt = IF b.from = "RETRY_RESERVED" THEN "ABSENT" ELSE None

RetryDelivery(g) ==
    IF \E m \in Reservations : m.gen = g
    THEN (CHOOSE x \in CanonicalReceipt("ABSENT") : TRUE).at
    ELSE IF g > 1 /\ claims[g - 1].from = "RETRY_RESERVED" THEN <<g, "birth">>
    ELSE None

RetryLineage(g) ==
    LET c == claims[g]
        absent == CanonicalReceipt("ABSENT")
    IN
    /\ ReservationCanonical(g) /\ BirthCanonical(g)
    /\ \/ /\ c.intent.retries = 0
          /\ c.delivered = None /\ Reservations = {} /\ absent = {}
       \/ /\ c.intent.retries = 1
          /\ g > 1 /\ claims[g - 1].from = "RETRY_RESERVED"
                => Reservations # {}
          /\ c.delivered = RetryDelivery(g)
          /\ \/ Reservations # {} \/ absent = {}
             \/ /\ c.reason = "RETRY_SPENT_AFTER_ABSENCE" /\ c.receipt = "ABSENT"
                /\ \A x \in absent : ~x.adopted /\ x.at = c.updated

ReceiptTruth(g) ==
    LET c == claims[g] IN
    c.receipt # None =>
        \E x \in CanonicalReceipt(c.receipt) :
            /\ x.adopted = (c.disposition = "ADOPTED")
            /\ c.disposition # "QUARANTINED" => x.at = c.updated

TerminalTruth(g) ==
    LET c == claims[g]
        settling == {m \in moves : m.gen = g /\ m.to = c.disposition}
    IN
    /\ c.intent = intent
    /\ \E m \in settling : settling = {m}
    /\ \A m \in settling : TransitionAdmitted(c, m)
    /\ OutboxCorrelated(c) /\ RetryLineage(g) /\ ReceiptTruth(g)

-----------------------------------------------------------------------------
(* Properties.                                                              *)

\* Once a claim has settled the effect, every later claim_effect_recovery
\* finds the records consistent and answers that there is no work: the long
\* validation of read/terminal.rs never rejects what the code itself wrote,
\* whatever authors, successors and crashes interleaved before.
SettledTruthIsReadable ==
    \A g \in DOMAIN claims : claims[g].disposition \in Terminal => TerminalTruth(g)

\* An effect is reported verified or committed only while the ref has the
\* desired value and a MATCH receipt proves that somebody read it back, and
\* as orphaned only if another value is at the ref.
CommittedIsPublished ==
    intent # None =>
        /\ intent.state \in {"VERIFIED", "COMMITTED"} =>
            remote = "desired" /\ \E x \in receipts : x.verdict = "MATCH"
        /\ intent.state = "ORPHANED_REMOTE" => remote = "foreign"

\* A settled outcome is true of the remote and readable for ever after.
SettledIsTrue == SettledTruthIsReadable /\ CommittedIsPublished

\* Recovery never reserves a second retry, however many successors take over
\* and whatever the author does beside them.
OneReservation == \A a, b \in Reservations : a = b

\* An active claim is bound to the lease row and the authority in force, and
\* only the last generation may be active or settled: the triggers on
\* active_leases and authority_revisions leave no stale owner behind.
ActiveClaimIsBound ==
    \A g \in DOMAIN claims :
        /\ claims[g].disposition \in Active =>
            /\ g = Latest /\ lease # None
            /\ claims[g].fence = lease.fence /\ claims[g].epoch = epoch
        /\ g < Latest => claims[g].disposition = "INVALIDATED"

\* "retry exactly once when non-execution is proven" (broker.rs:273) holds but
\* for one race, and there the count is two: an author that read a count of zero
\* before recovery reserved the retry (broker.rs:303) counts its own on top of
\* it.  Recovery has settled nothing by then and, the count being past what a
\* claim may carry, never will; nobody counts further.
RetryIsSharedOnce ==
    intent # None /\ intent.retries > 1 =>
        /\ intent.retries = 2 /\ Reservations # {}
        /\ \A g \in DOMAIN claims : claims[g].disposition \notin Terminal
        /\ author.pc \in {"reconcile", "retry"} => author.retries > 1

\* Recovery is exclusive: one owner under the lease and authority in force,
\* and one reserved retry, through every takeover; only an author that is still
\* at work beside it can spend a second one.
RecoveryIsExclusive == OneReservation /\ ActiveClaimIsBound /\ RetryIsSharedOnce

\* What recovery needs to end, and its end: from the first claim on the author
\* is gone, and from some time on one successor keeps a live lease under
\* unchanged authority and does not crash; the effect is then resolved.
Serving == lease # None /\ lease.live /\ lease.epoch = epoch /\ lease.fence > 1
NewestCrashes == fence \in Recoverers /\ RecovererCrashes(fence)
AuthorGone == claims # <<>> => author.pc = "idle"
Settled == intent = None \/ ~Unresolved(intent.state)
=============================================================================
