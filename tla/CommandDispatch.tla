--------------------------- MODULE CommandDispatch ---------------------------
(***************************************************************************)
(* The public command queue of the ledger: idempotent submission with the  *)
(* admission of coding runs (crates/adapters/src/sqlite/commands.rs and    *)
(* commands/admission.rs), exclusive dispatch claims of registered runner  *)
(* incarnations and their settlement (sqlite/command_dispatch.rs and       *)
(* command_dispatch/storage.rs, db/migrations/0021), and the offline       *)
(* reconciliation of a command no runner took.                             *)
(*                                                                         *)
(* Every operation is one BEGIN IMMEDIATE transaction, hence one action; a *)
(* refused operation rolls back and is a stuttering step.  A replayed      *)
(* operation answers from the stored rows and changes nothing; that it     *)
(* always finds them is part of the invariant ProjectionTruth.             *)
(***************************************************************************)
EXTENDS Integers, FiniteSets, Sequences

CONSTANTS
    Commands,       \* idempotency keys; the command id is derived from the key
    Demo,           \* the commands of kind run_demo
    Units,          \* coding runs: the quota units each one reserves
    Tasks,          \* the coding runs submitted as a task by an operator
    Reservation,    \* coding runs: the reservation id each one names
    Nonce,          \* coding runs: the launch nonce each one names
    Expected,       \* coding runs: the authority epoch each one expects
    Quota,          \* MAX_CODING_QUOTA_UNITS
    Offline,        \* the commands the offline reconciler is invoked on
    Owners,         \* runner incarnations <<runner id, runner epoch>>
    Receipts,       \* component receipts a runner may present
    MaxEpoch,       \* bound: authority moves
    None

Coding == DOMAIN Units
Supported == Demo \cup Coding
ReservationIds == {Reservation[c] : c \in Coding}
Nonces == {Nonce[c] : c \in Coding}

VARIABLES
    commands,     \* commands rows
    outbox,       \* the one command_dispatch outbox row of each command
    claims,       \* command_dispatch_claims rows; command_id is UNIQUE
    audit,        \* the events correlated with each command
    reservations, \* budget_reservations: id -> amount
    nonces,       \* authority_nonces: key -> the request it is bound to
    epoch         \* the authority epoch (and freeze generation) in force

tables == <<commands, outbox, claims, audit, reservations, nonces, epoch>>

Phases == {"pending", "applied", "failed", "unknown"}
Dispositions == {"CLAIMED", "UNKNOWN", "FAILED", "INVALIDATED"}
Responses == Receipts \cup {"refused", "offline"}

CommandRow == [phase : Phases, response : Responses \cup {None}]
OutboxRow == [seq : Nat \ {0}, phase : Phases,
              delivered : BOOLEAN, acked : BOOLEAN]
ClaimRow == [owner : Owners, epoch : 1..MaxEpoch, disposition : Dispositions,
             completion : Responses \cup {None}]
NonceRow == [request : Coding, consumed : BOOLEAN]

ASSUME CommandAssumptions ==
    /\ Coding \subseteq Commands /\ Demo \subseteq Commands
    /\ Coding \cap Demo = {}
    /\ Tasks \subseteq Coding /\ \A c \in Tasks : Units[c] = 1
    /\ Units \in [Coding -> Nat \ {0}]
    /\ DOMAIN Reservation = Coding /\ DOMAIN Nonce = Coding
    /\ Expected \in [Coding -> Nat]
    /\ Quota \in Nat /\ MaxEpoch \in Nat \ {0}
    /\ Offline \subseteq Commands
    /\ "refused" \notin Receipts /\ "offline" \notin Receipts

\* None stands for a row, an owner or an answer that is not there.
ASSUME NoneIsNoRow ==
    /\ None \notin Owners /\ None \notin Responses /\ None \notin Commands
    /\ None \notin CommandRow /\ None \notin OutboxRow
    /\ None \notin ClaimRow /\ None \notin NonceRow

TypeOK ==
    /\ commands \in [Commands -> CommandRow \cup {None}]
    /\ outbox \in [Commands -> OutboxRow \cup {None}]
    /\ claims \in [Commands -> ClaimRow \cup {None}]
    /\ audit \in [Commands -> [submitted : 0..1, claimed : 0..1,
                               reconciled : Seq(Responses)]]
    /\ reservations \in [ReservationIds -> Nat]
    /\ nonces \in [Nonces -> NonceRow \cup {None}]
    /\ epoch \in 1..MaxEpoch

Recorded == {c \in Commands : commands[c] # None}
-----------------------------------------------------------------------------
(* Submission and the admission of coding runs.                             *)

\* The units that S takes, amount[x] of them for each x of S; how many they are
\* is the sum of the amounts.
UnitsOf(amount, S) == UNION {{x} \X (1..amount[x]) : x \in S}
SumOf(amount, S) == Cardinality(UnitsOf(amount, S))

\* The sum of all reserved amounts.
UsedQuota == SumOf(reservations, ReservationIds)

\* coding_tasks::admit, of a run submitted as a task: the binding nonce and
\* the reservation id are derived from the request and must both be new.
TaskAdmissible(c) ==
    /\ reservations[Reservation[c]] = 0
    /\ nonces[Nonce[c]] = None

\* plan_run_coding_admission: the authority epoch is current, the reservation
\* id is new, quota remains, and the launch nonce is either not yet issued
\* (admission issues it) or issued to this very request.
DirectAdmissibleUncounted(c) ==
    /\ Expected[c] = epoch
    /\ reservations[Reservation[c]] = 0
    /\ Units[c] <= Quota
    /\ \/ nonces[Nonce[c]] = None
       \/ nonces[Nonce[c]] = [request |-> c, consumed |-> FALSE]

DirectAdmissible(c) ==
    /\ Expected[c] = epoch
    /\ reservations[Reservation[c]] = 0
    /\ Units[c] <= Quota - UsedQuota
    /\ \/ nonces[Nonce[c]] = None
       \/ nonces[Nonce[c]] = [request |-> c, consumed |-> FALSE]

CodingAdmissible(c) == IF c \in Tasks THEN TaskAdmissible(c) ELSE DirectAdmissible(c)

\* Consume the launch nonce and store the reservation.
AdmitRunCoding(c) ==
    /\ CodingAdmissible(c)
    /\ nonces' = [nonces EXCEPT ![Nonce[c]] = [request |-> c, consumed |-> TRUE]]
    /\ reservations' = [reservations EXCEPT ![Reservation[c]] = Units[c]]

FreshAlways(c) == c \in Commands

\* No row under this idempotency key; otherwise the submission is a replay.
Fresh(c) == commands[c] = None

\* First submission: the row, its dispatch, its audit event and its admission
\* commit together.
SubmitCommand(c) ==
    /\ Fresh(c)
    /\ commands' = [commands EXCEPT ![c] = [phase |-> "pending", response |-> None]]
    /\ outbox' = [outbox EXCEPT ![c] =
                    [seq |-> Cardinality(Recorded) + 1, phase |-> "pending",
                     delivered |-> FALSE, acked |-> FALSE]]
    /\ audit' = [audit EXCEPT ![c].submitted = @ + 1]
    /\ IF c \in Coding THEN AdmitRunCoding(c) ELSE UNCHANGED <<nonces, reservations>>
    /\ UNCHANGED <<claims, epoch>>

\* An authority operation issues a launch nonce ahead of the submission.
IssueNonce(c) ==
    /\ c \in Coding
    /\ nonces[Nonce[c]] = None
    /\ nonces' = [nonces EXCEPT ![Nonce[c]] = [request |-> c, consumed |-> FALSE]]
    /\ UNCHANGED <<commands, outbox, claims, audit, reservations, epoch>>
-----------------------------------------------------------------------------
(* Dispatch claims.                                                         *)

Queued == {c \in Recorded : outbox[c].phase = "pending"}

OldestPendingAny(c) == c \in Queued

OldestPending(c) ==
    /\ c \in Queued
    /\ \A d \in Queued : outbox[c].seq <= outbox[d].seq

\* The open claim of a runner incarnation: claim_for_runner.
OpenClaims(o) ==
    {c \in Commands : claims[c] # None
                        /\ claims[c].owner = o /\ claims[c].disposition = "CLAIMED"}

\* What claim_next checks of the head of the queue before it decides; the
\* UNIQUE constraint on the claimed command is the last conjunct.
Claimable(o, c) ==
    /\ OpenClaims(o) = {}
    /\ OldestPending(c)
    /\ commands[c].phase = "pending" /\ commands[c].response = None
    /\ claims[c] = None

\* claim_next on a supported command: the claim, the delivered outbox row and
\* the audit event.
ClaimCommand(o, c) ==
    /\ Claimable(o, c)
    /\ c \in Supported
    /\ claims' = [claims EXCEPT ![c] = [owner |-> o, epoch |-> epoch,
                    disposition |-> "CLAIMED", completion |-> None]]
    /\ outbox' = [outbox EXCEPT ![c] = [@ EXCEPT !.phase = "applied", !.delivered = TRUE]]
    /\ audit' = [audit EXCEPT ![c].claimed = @ + 1]
    /\ UNCHANGED <<commands, reservations, nonces, epoch>>

\* claim_next on a kind nobody can execute: the Kernel refuses it for good and
\* the caller is told there is nothing to do.
RefuseUnsupported(o, c) ==
    /\ Claimable(o, c)
    /\ c \notin Supported
    /\ claims' = [claims EXCEPT ![c] = [owner |-> o, epoch |-> epoch,
                    disposition |-> "FAILED", completion |-> "refused"]]
    /\ commands' = [commands EXCEPT ![c] = [phase |-> "failed", response |-> "refused"]]
    /\ outbox' = [outbox EXCEPT ![c] = [@ EXCEPT !.phase = "failed", !.acked = TRUE]]
    /\ audit' = [audit EXCEPT ![c].reconciled = Append(@, "refused")]
    /\ UNCHANGED <<reservations, nonces, epoch>>

\* A claim is current while the authority fingerprint it captured is in force.
Current(c) == claims[c].epoch = epoch

SettleableInvalidated(o, c) ==
    /\ claims[c] # None
    /\ claims[c].owner = o
    /\ claims[c].disposition \in {"CLAIMED", "INVALIDATED"}
    /\ commands[c].phase = "pending" /\ commands[c].response = None
    /\ outbox[c].phase = "applied" /\ outbox[c].delivered /\ ~outbox[c].acked

\* First settlement by the incarnation that owns the claim.
Settleable(o, c) ==
    /\ claims[c] # None
    /\ claims[c].owner = o
    /\ claims[c].disposition = "CLAIMED"
    /\ Current(c)
    /\ commands[c].phase = "pending" /\ commands[c].response = None
    /\ outbox[c].phase = "applied" /\ outbox[c].delivered /\ ~outbox[c].acked

SettleCommand(o, c, r) ==
    /\ Settleable(o, c)
    /\ commands' = [commands EXCEPT ![c] = [phase |-> "unknown", response |-> r]]
    /\ outbox' = [outbox EXCEPT ![c] = [@ EXCEPT !.phase = "unknown", !.acked = TRUE]]
    /\ claims' = [claims EXCEPT ![c] = [@ EXCEPT !.disposition = "UNKNOWN", !.completion = r]]
    /\ audit' = [audit EXCEPT ![c].reconciled = Append(@, r)]
    /\ UNCHANGED <<reservations, nonces, epoch>>

\* A repeated settlement is answered when it carries the recorded completion.
SettlementReplays(o, c, r) ==
    /\ claims[c] # None
    /\ claims[c].owner = o
    /\ claims[c].disposition = "UNKNOWN"
    /\ claims[c].completion = r
-----------------------------------------------------------------------------
(* Offline reconciliation and authority movement.                           *)

\* A command no runner took gets the fixed offline outcome.
Reconcilable(c) ==
    /\ commands[c] # None
    /\ commands[c].phase = "pending"
    /\ outbox[c].phase = "pending" /\ ~outbox[c].delivered /\ ~outbox[c].acked
    /\ audit[c].reconciled = <<>>

ReconcileOffline(c) ==
    /\ c \in Offline
    /\ Reconcilable(c)
    /\ LET phase == IF c \in Supported THEN "unknown" ELSE "failed" IN
         /\ commands' = [commands EXCEPT ![c] = [phase |-> phase, response |-> "offline"]]
         /\ outbox' = [outbox EXCEPT ![c] = [@ EXCEPT !.phase = phase, !.acked = TRUE]]
    /\ audit' = [audit EXCEPT ![c].reconciled = Append(@, "offline")]
    /\ UNCHANGED <<claims, reservations, nonces, epoch>>

\* The authority epoch advances; the trigger invalidates, in the same
\* transaction, every open claim taken under another epoch.
Invalidated(c) ==
    IF claims[c] # None /\ claims[c].disposition = "CLAIMED"
    THEN [claims[c] EXCEPT !.disposition = "INVALIDATED"]
    ELSE claims[c]

MoveAuthority ==
    /\ epoch < MaxEpoch
    /\ epoch' = epoch + 1
    /\ claims' = [c \in Commands |-> Invalidated(c)]
    /\ UNCHANGED <<commands, outbox, audit, reservations, nonces>>
-----------------------------------------------------------------------------
Init ==
    /\ commands = [c \in Commands |-> None]
    /\ outbox = [c \in Commands |-> None]
    /\ claims = [c \in Commands |-> None]
    /\ audit = [c \in Commands |-> [submitted |-> 0, claimed |-> 0, reconciled |-> <<>>]]
    /\ reservations = [r \in ReservationIds |-> 0]
    /\ nonces = [n \in Nonces |-> None]
    /\ epoch = 1

Next ==
    \/ \E c \in Commands :
          \/ SubmitCommand(c)
          \/ IssueNonce(c)
          \/ ReconcileOffline(c)
          \/ \E o \in Owners :
                \/ ClaimCommand(o, c)
                \/ RefuseUnsupported(o, c)
                \/ \E r \in Receipts : SettleCommand(o, c, r)
    \/ MoveAuthority

Spec == Init /\ [][Next]_tables
-----------------------------------------------------------------------------
(* Properties.                                                              *)

\* validate_projection: the shapes of the four tables an operator may read.
ProjectsPending(c) ==
    /\ audit[c].reconciled = <<>> /\ ~outbox[c].acked
    /\ \/ /\ claims[c] = None
          /\ outbox[c].phase = "pending" /\ ~outbox[c].delivered
          /\ audit[c].claimed = 0
       \/ /\ claims[c] # None /\ claims[c].disposition \in {"CLAIMED", "INVALIDATED"}
          /\ outbox[c].phase = "applied" /\ outbox[c].delivered
          /\ audit[c].claimed = 1

ProjectsSettled(c) ==
    /\ claims[c] # None /\ outbox[c].phase = commands[c].phase /\ outbox[c].acked
    /\ audit[c].reconciled = <<commands[c].response>>
    /\ \/ /\ commands[c].phase = "unknown" /\ claims[c].disposition = "UNKNOWN"
          /\ outbox[c].delivered /\ audit[c].claimed = 1
       \/ /\ commands[c].phase = "failed" /\ claims[c].disposition = "FAILED"
          /\ ~outbox[c].delivered /\ audit[c].claimed = 0

Projects(c) ==
    /\ outbox[c] # None /\ audit[c].submitted = 1
    /\ IF commands[c].phase = "pending" THEN ProjectsPending(c) ELSE ProjectsSettled(c)

\* submit_command of a recorded request: its dispatch row, its one submitted
\* event and, for a coding run, its reservation and its consumed nonce.
Replays(c) ==
    /\ outbox[c] # None /\ audit[c].submitted = 1
    /\ c \in Coding =>
         /\ reservations[Reservation[c]] = Units[c]
         /\ nonces[Nonce[c]] = [request |-> c, consumed |-> TRUE]

\* Every operator read of a command goes through validate_projection
\* (operator_commands/projection.rs), which turns a disagreement of the four
\* tables into a store error: it accepts every command in every reachable
\* state, but for those the offline reconciler resolved.  And resubmitting a
\* recorded request is always answered (submit_command_in and verify_replay
\* find the rows of the first submission), however many commands compete for
\* the nonce, the quota and the queue in between.
ProjectionTruth ==
    \A c \in Recorded :
        /\ commands[c].response # "offline" => Projects(c)
        /\ Replays(c)

\* What is reserved is exactly what the recorded runs asked for, so a refused
\* submission leaves no reservation behind, and the direct runs never exceed
\* MAX_CODING_QUOTA_UNITS between them.
QuotaHolds ==
    /\ UsedQuota = SumOf(Units, Coding \cap Recorded)
    /\ SumOf(Units, (Coding \ Tasks) \cap Recorded) <= Quota

\* The rows of a command agree with one another, and the reservations with the
\* commands that hold them.
TablesAgree == ProjectionTruth /\ QuotaHolds

\* A claim a runner may still settle was taken under the authority in force:
\* claim_next and readback never refuse the holder its own open claim.
OpenClaimIsCurrent ==
    \A c \in Commands :
      claims[c] # None /\ claims[c].disposition = "CLAIMED" => Current(c)

\* Commands are handed out in submission order: one that left the queue never
\* overtook one still in it, unless the offline reconciler resolved it.
DispatchedInOrder ==
    \A c, d \in Recorded :
      outbox[c].seq < outbox[d].seq /\ outbox[c].phase = "pending"
        => claims[d] = None

\* What claim_next handed out was handed out in submission order, and what is
\* still open of it belongs to the authority in force.
DispatchIsOrderly == OpenClaimIsCurrent /\ DispatchedInOrder

\* The dispatch tables implement the command lifecycle: one owner ever, one
\* outcome ever, and both final.
Stage(c) ==
    IF commands[c] = None THEN "absent"
    ELSE IF commands[c].phase # "pending" THEN "resolved"
    ELSE IF claims[c] = None THEN "queued"
    ELSE IF claims[c].disposition = "INVALIDATED" THEN "abandoned"
    ELSE "held"

HandedTo(c) ==
    IF claims[c] = None \/ claims[c].disposition = "FAILED"
    THEN None ELSE claims[c].owner

Lifecycle == INSTANCE CommandLifecycle WITH
    state <- [c \in Commands |-> Stage(c)],
    owner <- [c \in Commands |-> HandedTo(c)]

LifecycleStep ==
    Lifecycle!LifecycleNext \/ UNCHANGED Lifecycle!lifecycleVars

\* LifecycleSpec, written so that a step that leaves the tables alone is seen
\* to stutter without mapping them.
LifecycleHolds ==
    Lifecycle!LifecycleInit /\ [][tables' # tables => LifecycleStep]_tables
=============================================================================
