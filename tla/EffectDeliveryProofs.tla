------------------------ MODULE EffectDeliveryProofs ------------------------
(***************************************************************************)
(* Proofs about the delivery of an external effect and its recovery, for   *)
(* any number of successive leases and authority epochs: recovery has one  *)
(* owner and reserves one retry, and what it settles is true of the remote *)
(* and passes the validation of every later claim.                         *)
(***************************************************************************)
EXTENDS EffectDelivery, TLAPS

\* The phase a claim is in, or was invalidated in.
Phase(c) == IF c.disposition = "INVALIDATED" THEN c.from ELSE c.disposition

Reserved(g) == \E m \in Reservations : m.gen = g

\* When the retry of a claim was handed out.
Delivery(g) ==
  IF Reserved(g) THEN <<g, "RETRY_RESERVED">>
  ELSE IF g > 1 /\ claims[g - 1].from = "RETRY_RESERVED" THEN <<g, "birth">> ELSE None

\* One claim: what it is bound to, and what its phase says of its columns.
BoundInv(g) ==
  LET c == claims[g] IN
  /\ g < Latest => c.disposition = "INVALIDATED"
  /\ c.fence <= fence /\ c.epoch <= epoch
  /\ c.disposition \in Active => lease # None /\ c.fence = lease.fence /\ c.epoch = epoch

PhaseInv(g) ==
  LET c == claims[g] IN
  /\ c.disposition = "INVALIDATED" => c.from \in Active
  /\ Phase(c) \in Active =>
       /\ SnapshotFits(Phase(c), c.intent)
       /\ c.receipt = IF Phase(c) = "RETRY_RESERVED" THEN "ABSENT" ELSE None
  /\ Phase(c) = "RETRY_RESERVED" => Reservations # {}
  /\ c.delivered = Delivery(g)

\* A settled claim holds the intent, which moves no more.
SettledInv(g) ==
  LET c == claims[g] IN
  c.disposition \in Terminal =>
    /\ intent = c.intent /\ intent.retries <= 1
    /\ intent.state = CASE c.disposition = "ADOPTED" -> "COMMITTED"
                        [] c.disposition = "ORPHANED" -> "ORPHANED_REMOTE"
                        [] OTHER -> "QUARANTINED"
    /\ OutboxCorrelated(c) /\ ReceiptTruth(g)
    /\ \E m \in moves : m.gen = g /\ m.to = c.disposition

\* The transitions recovery recorded.
MoveInv ==
  \A m \in moves :
    /\ m.gen \in DOMAIN claims
    /\ m.to \in Terminal => claims[m.gen].disposition = m.to /\ TransitionAdmitted(claims[m.gen], m)

SettledOnce ==
  \A m, n \in moves : m.gen = n.gen /\ m.to \in Terminal /\ n.to \in Terminal => m = n

\* The one retry recovery reserved, with the absence it was reserved for.
ReservationInv ==
  /\ \A m, n \in Reservations : m = n
  /\ \A m \in Reservations :
       /\ m.from \in {"CLAIMED", "READBACK_UNKNOWN"}
       /\ m.receipt = "ABSENT" /\ m.reason = None
       /\ intent # None /\ intent.retries >= 1
       /\ [method |-> "local-bare", verdict |-> "ABSENT", adopted |-> FALSE,
           at |-> <<m.gen, "RETRY_RESERVED">>] \in receipts

\* The receipts recovery wrote.
ReceiptInv ==
  \A x \in receipts : x.method = "local-bare" =>
    IF x.verdict = "ABSENT"
    THEN /\ ~x.adopted
         /\ \/ \E m \in Reservations : x.at = <<m.gen, "RETRY_RESERVED">>
            \/ /\ Reservations = {} /\ Latest > 0
               /\ LET c == claims[Latest] IN
                  /\ c.disposition = "QUARANTINED" /\ c.receipt = "ABSENT"
                  /\ c.reason = "RETRY_SPENT_AFTER_ABSENCE" /\ x.at = c.updated
    ELSE Latest > 0 /\ claims[Latest].disposition \in Terminal

\* The lease, and how many claims there can be: an invalidated claim is not
\* claimed again under the same lease and epoch.
LeaseInv ==
  /\ lease # None => lease.fence = fence /\ lease.epoch <= epoch
  /\ Latest > 0 =>
       LET c == claims[Latest] IN
       /\ Latest + 2 <= c.fence + c.epoch
       /\ c.disposition = "INVALIDATED" =>
            ~(lease # None /\ lease.live /\ lease.epoch = epoch /\ c.fence = lease.fence
                /\ c.epoch = epoch)

\* What a recovering writer holds.
WorkInv(r) ==
  LET me == recoverer[r] IN
  /\ me.pc # "idle" => me.gen \in DOMAIN claims /\ me.disposition \in Active
  /\ me.pc = "apply" =>
       \/ me.to = "RETRY_RESERVED" /\ me.receipt = "ABSENT" /\ me.reason = None
       \/ me.to = "READBACK_UNKNOWN" /\ me.receipt = None /\ me.reason = None
       \/ me.to = "ADOPTED" /\ me.receipt = "MATCH" /\ me.reason = None /\ remote = "desired"
       \/ me.to = "ORPHANED" /\ me.receipt = "MISMATCH" /\ me.reason = None
            /\ remote = "foreign"
       \/ me.to = "QUARANTINED" /\ me.receipt = "ABSENT"
            /\ me.reason = "RETRY_SPENT_AFTER_ABSENCE"
       \/ me.to = "QUARANTINED" /\ me.receipt = None /\ me.reason = "READBACK_UNAVAILABLE"

\* What the author's call under way relies on.
AuthorInv ==
  /\ author.pc # "idle" => intent # None
  /\ author.pc \in {"reconcile", "retry"} /\ author.retries = 0 => intent.retries <= 1
  /\ author.pc = "retry" => author.retries = 0
  /\ author.pc \in {"record", "verify"} => author.verdict # None
  /\ author.pc \in {"record", "verify"} /\ author.verdict = "MATCH" => remote = "desired"
  /\ author.pc = "verify" => author.verdict = "MATCH" /\ \E x \in receipts : x.verdict = "MATCH"

IInv ==
  /\ TypeOK /\ CommittedIsPublished
  /\ LeaseInv /\ MoveInv /\ SettledOnce /\ ReservationInv /\ ReceiptInv
  /\ \A g \in DOMAIN claims : BoundInv(g) /\ PhaseInv(g) /\ SettledInv(g)
  /\ \A r \in Recoverers : WorkInv(r)
  /\ AuthorInv
  /\ claims # <<>> => intent # None
-----------------------------------------------------------------------------
(* Rows.                                                                    *)

\* Leaves name a prover only where the default does not find the proof.
USE SMTT(20), ZenonT(20)

LEMMA EmptySeq == \A S : <<>> \in Seq(S)
OBVIOUS

LEMMA IsASeq ==
  ASSUME NEW S, NEW n \in Nat, NEW f \in [1..n -> S]
  PROVE  f \in Seq(S)
OBVIOUS

LEMMA RestingRows == AtRest \in AuthorRow /\ Resting \in WorkRow
<1>1. 0 \in Nat /\ 0 \in 0..1
  OBVIOUS
<1> QED BY <1>1, Zenon DEF AtRest, Resting, Work, AuthorRow, WorkRow, AuthorSteps, RecovererSteps

LEMMA WorkRows ==
  ASSUME NEW pc \in RecovererSteps, NEW gen \in Generations \cup {None},
         NEW d \in Active \cup {None}, NEW n \in 0..1
  PROVE  Work(pc, gen, d, n) \in WorkRow
<1> QED BY Zenon DEF Work, WorkRow

\* There are no more claims than generations.
LEMMA ClaimCount ==
  ASSUME IInv, NEW g \in DOMAIN claims
  PROVE  /\ g \in Generations /\ g \in 1..Latest /\ Latest \in Nat \ {0}
         /\ claims[g] \in ClaimRow
         /\ Latest + 2 <= fence + epoch
<1>1. claims \in Seq(ClaimRow) /\ fence \in 1..MaxFence /\ epoch \in 1..MaxEpoch
  BY Zenon DEF IInv, TypeOK
<1>2. DOMAIN claims = 1..Latest /\ Latest \in Nat
  BY <1>1 DEF Latest
<1>3. Latest \in DOMAIN claims /\ Latest > 0
  BY <1>2
<1>4. claims[Latest] \in ClaimRow /\ claims[g] \in ClaimRow
  BY <1>1, <1>3
<1>5. claims[Latest].fence \in Nat /\ claims[Latest].epoch \in Nat
  BY <1>4, DeliveryAssumptions DEF ClaimRow, Recoverers
<1>6. /\ Latest + 2 <= claims[Latest].fence + claims[Latest].epoch
      /\ claims[Latest].fence <= fence /\ claims[Latest].epoch <= epoch
  BY <1>3, Zenon DEF IInv, LeaseInv, BoundInv
<1> QED BY <1>1, <1>2, <1>4, <1>5, <1>6, DeliveryAssumptions DEF Generations

LEMMA InvalidatedRow ==
  ASSUME NEW g \in Generations, claims[g] \in ClaimRow
  PROVE  /\ Invalidated(g) \in ClaimRow
         /\ Invalidated(g).fence = claims[g].fence /\ Invalidated(g).epoch = claims[g].epoch
         /\ Invalidated(g).intent = claims[g].intent
         /\ Invalidated(g).receipt = claims[g].receipt
         /\ Invalidated(g).reason = claims[g].reason
         /\ Invalidated(g).delivered = claims[g].delivered
         /\ claims[g].disposition \in Active =>
              /\ Invalidated(g).disposition = "INVALIDATED"
              /\ Invalidated(g).from = claims[g].disposition
         /\ claims[g].disposition \notin Active => Invalidated(g) = claims[g]
<1>1. CASE claims[g].disposition \notin Active
  BY <1>1, Zenon DEF Invalidated
<1>2. CASE claims[g].disposition \in Active
  <2>1. <<g, "INVALIDATED">> \in Times
    BY Zenon DEF Times
  <2> QED BY <1>2, <2>1, ZenonT(60) DEF Invalidated, ClaimRow, Phases, Active
<1> QED BY <1>1, <1>2, Zenon

LEMMA InitInv == Init => IInv
<1> SUFFICES ASSUME Init PROVE IInv
  BY Zenon
<1> USE DEF Init
<1>1. TypeOK
  <2>1. 1 \in 1..MaxFence /\ 1 \in 1..MaxEpoch
    BY DeliveryAssumptions
  <2>2. lease \in LeaseRow
    BY <2>1, Zenon DEF LeaseRow
  <2>3. author \in AuthorRow /\ recoverer \in [Recoverers -> WorkRow]
    BY RestingRows, Zenon
  <2>4. claims \in Seq(ClaimRow)
    BY EmptySeq, Zenon
  <2>6. late \in BOOLEAN
    BY Zenon
  <2>5. /\ intent \in IntentRow \cup {None} /\ dispatch \in Phases \cup {None}
        /\ lease \in LeaseRow \cup {None} /\ remote \in {"absent", "desired", "foreign"}
        /\ receipts \subseteq ReceiptRow /\ moves \subseteq MoveRow
        /\ fence \in 1..MaxFence /\ epoch \in 1..MaxEpoch
    BY <2>1, <2>2, Zenon
  <2> QED BY <2>3, <2>4, <2>5, <2>6, Zenon DEF TypeOK
<1>2. CommittedIsPublished
  BY Zenon DEF CommittedIsPublished
<1>3. LeaseInv /\ MoveInv /\ SettledOnce /\ ReservationInv /\ ReceiptInv
  BY DEF LeaseInv, MoveInv, SettledOnce, ReservationInv, ReceiptInv, Reservations, Latest
<1>4. \A r \in Recoverers : WorkInv(r)
  BY Zenon DEF WorkInv, Resting, Work
<1>5. AuthorInv
  BY Zenon DEF AuthorInv, AtRest
<1>6. DOMAIN claims = {}
  OBVIOUS
<1> QED BY <1>1, <1>2, <1>3, <1>4, <1>5, <1>6, Zenon DEF IInv

-----------------------------------------------------------------------------
(* Steps that leave the claims alone.                                       *)

Closed == {"COMMITTED", "ORPHANED_REMOTE", "QUARANTINED"}

\* The intent keeps its row, or is one that no claim has settled.
IntentMoves ==
  \/ intent' = intent
  \/ /\ intent' # None
     /\ intent # None => intent.state \notin Closed /\ intent.retries <= intent'.retries

StoreInv ==
  /\ LeaseInv /\ MoveInv /\ SettledOnce /\ ReservationInv /\ ReceiptInv
  /\ \A g \in DOMAIN claims : BoundInv(g) /\ PhaseInv(g) /\ SettledInv(g)
  /\ claims # <<>> => intent # None

LEMMA StoreKept ==
  ASSUME IInv, UNCHANGED <<claims, moves, authority>>, IntentMoves, receipts \subseteq receipts',
         intent' \in IntentRow \cup {None},
         \A x \in receipts' : x \in receipts \/ x.method = "read-back"
  PROVE  StoreInv'
<1>1. UNCHANGED <<claims, moves, lease, fence, epoch, Latest, Reservations>>
  BY Zenon DEF authority, Latest, Reservations
<1>2. LeaseInv' /\ MoveInv' /\ SettledOnce'
  BY <1>1 DEF IInv, LeaseInv, MoveInv, SettledOnce, TransitionAdmitted
<1>3. ReservationInv'
  <2>1. ASSUME NEW m \in Reservations PROVE intent' # None /\ intent'.retries >= 1
    <3>0. intent # None /\ intent.retries >= 1
      BY Zenon DEF IInv, ReservationInv
    <3>1. intent.retries \in Nat
      BY <3>0 DEF IInv, TypeOK, IntentRow
    <3>2. intent' # None => intent'.retries \in Nat
      BY DEF IntentRow
    <3> QED BY <3>0, <3>1, <3>2 DEF IntentMoves
  <2> QED BY <1>1, <2>1, Zenon DEF IInv, ReservationInv
<1>4. ReceiptInv'
  BY <1>1, Zenon DEF IInv, ReceiptInv
<1>5. ASSUME NEW g \in DOMAIN claims PROVE BoundInv(g)' /\ PhaseInv(g)' /\ SettledInv(g)'
  <2>1. BoundInv(g) /\ PhaseInv(g) /\ SettledInv(g)
    BY <1>5, Zenon DEF IInv
  <2>2. BoundInv(g)'
    BY <1>1, <2>1, Zenon DEF BoundInv
  <2>3. PhaseInv(g)'
    BY <1>1, <2>1, Zenon DEF PhaseInv, Delivery, Reserved, Phase
  <2>4. ASSUME claims[g].disposition \in Terminal PROVE intent' = intent
    <3>1. intent = claims[g].intent /\ intent.state \in Closed
      BY <2>1, <2>4, Zenon DEF SettledInv, Closed, Terminal
    <3>2. intent # None
      BY <1>5 DEF IInv
    <3> QED BY <3>1, <3>2, Zenon DEF IntentMoves
  <2>5. claims[g].disposition \in Terminal => ReceiptTruth(g)'
    BY <1>1, <2>1, Zenon DEF SettledInv, ReceiptTruth, CanonicalReceipt
  <2>6. SettledInv(g)'
    BY <1>1, <2>1, <2>4, <2>5, Zenon DEF SettledInv, OutboxCorrelated
  <2> QED BY <2>2, <2>3, <2>6, Zenon
<1>6. claims' # <<>> => intent' # None
  BY <1>1, Zenon DEF IInv, IntentMoves
<1> QED BY <1>1, <1>2, <1>3, <1>4, <1>5, <1>6, Zenon DEF StoreInv

\* A ref that is there stays as it is.
RefStays == remote # "absent" => remote' = remote

LEMMA WorkKept ==
  ASSUME IInv, DOMAIN claims \subseteq DOMAIN claims', RefStays, NEW r \in Recoverers,
         recoverer'[r] = recoverer[r]
  PROVE  WorkInv(r)'
<1> QED BY Zenon DEF IInv, WorkInv, RefStays

LEMMA AuthorMoves ==
  ASSUME IInv, UNCHANGED <<claims, moves, authority, recoverer>>, IntentMoves, RefStays,
         intent' \in IntentRow \cup {None}, dispatch' \in Phases \cup {None},
         receipts \subseteq receipts', receipts' \subseteq ReceiptRow,
         \A x \in receipts' : x \in receipts \/ x.method = "read-back",
         remote' \in {"absent", "desired", "foreign"}, late' \in BOOLEAN,
         author' \in AuthorRow, AuthorInv', CommittedIsPublished'
  PROVE  IInv'
<1>1. StoreInv'
  BY StoreKept, Zenon
<1>2. TypeOK'
  BY Zenon DEF IInv, TypeOK, authority
<1>3. \A r \in Recoverers : WorkInv(r)'
  BY WorkKept, Zenon
<1> QED BY <1>1, <1>2, <1>3, Zenon DEF IInv, StoreInv

\* Where the intent and the receipts keep, so does what was published.
LEMMA StillPublished ==
  ASSUME IInv, intent' = intent, receipts \subseteq receipts', RefStays
  PROVE  CommittedIsPublished'
<1> QED BY Zenon DEF IInv, CommittedIsPublished, RefStays

LEMMA TransitsInv ==
  ASSUME IInv, NEW pc \in {"commit", "mark", "push", "look"}, NEW to \in EffectStates,
         intent # None, Transits(to, pc), to # "ORPHANED_REMOTE",
         to = "VERIFIED" => remote = "desired" /\ \E x \in receipts : x.verdict = "MATCH",
         to = "DISPATCHING" => intent.retries <= 1,
         UNCHANGED <<dispatch, receipts, claims, moves, forge, authority, recoverer>>
  PROVE  IInv'
<1>1. intent \in IntentRow /\ author \in AuthorRow
  BY Zenon DEF IInv, TypeOK
<1>2. UNCHANGED <<dispatch, receipts, remote, late>> /\ RefStays
  BY Zenon DEF forge, RefStays
<1>3. CASE ~Edge(intent.state, to)
  <2>1. intent' = intent /\ author' = AtRest
    BY <1>3, Zenon DEF Transits
  <2>2. AuthorInv' /\ IntentMoves
    BY <2>1, Zenon DEF AuthorInv, AtRest, IntentMoves
  <2>3. CommittedIsPublished'
    BY <1>2, <2>1, StillPublished, Zenon
  <2> QED BY <1>1, <1>2, <2>1, <2>2, <2>3, RestingRows, AuthorMoves, Zenon DEF IInv, TypeOK
<1>4. CASE Edge(intent.state, to)
  <2>1. /\ author' = [author EXCEPT !.pc = pc]
        /\ intent' = [state |-> to,
                      retries |-> IF intent.state = "OUTCOME_UNKNOWN" /\ to = "DISPATCHING"
                                  THEN intent.retries + 1 ELSE intent.retries]
    BY <1>4, Zenon DEF Transits, TransitionEffect, AuthorGoes
  <2>2. intent' \in IntentRow /\ intent'.state = to /\ intent.retries <= intent'.retries
    BY <1>1, <2>1 DEF IntentRow
  <2>3. intent' # None
    BY <2>2, NoneIsApart, Zenon
  <2>4. intent.state \notin Closed /\ (to = "COMMITTED" => intent.state = "VERIFIED")
    BY <1>4, Zenon DEF Edge, Edges, Closed
  <2>5. author' \in AuthorRow /\ author'.pc = pc
    BY <1>1, <2>1, Zenon DEF AuthorRow, AuthorSteps
  <2>6. AuthorInv'
    BY <2>3, <2>5, Zenon DEF AuthorInv
  <2>7. CommittedIsPublished'
    BY <1>2, <2>2, <2>4, Zenon DEF IInv, CommittedIsPublished
  <2> QED BY <1>2, <2>2, <2>3, <2>4, <2>5, <2>6, <2>7, AuthorMoves, Zenon DEF IInv, TypeOK, IntentMoves
<1> QED BY <1>3, <1>4, Zenon

\* What a push, a late push and somebody else do to the ref.
LEMMA RefMoves ==
  ASSUME TypeOK, PushAccepted \/ PushRejected \/ PushUnanswered \/ UNCHANGED forge
  PROVE  RefStays /\ remote' \in {"absent", "desired", "foreign"} /\ late' \in BOOLEAN
<1> QED BY Zenon DEF TypeOK, PushAccepted, PushRejected, PushUnanswered, RefStays, forge

\* The author rests, at whatever step its call ended.
LEMMA RestInv ==
  ASSUME IInv, author' = AtRest, UNCHANGED <<intent, receipts, claims, moves, authority, recoverer>>,
         RefStays, remote' \in {"absent", "desired", "foreign"}, late' \in BOOLEAN,
         dispatch' \in Phases \cup {None}
  PROVE  IInv'
<1>1. AuthorInv'
  BY Zenon DEF AuthorInv, AtRest
<1>2. CommittedIsPublished' /\ IntentMoves
  BY StillPublished, Zenon DEF IntentMoves
<1> QED BY <1>1, <1>2, RestingRows, AuthorMoves, Zenon DEF IInv, TypeOK

\* The author goes on, with the intent and the receipts as they are.
LEMMA GoInv ==
  ASSUME IInv, author' \in AuthorRow, AuthorInv',
         UNCHANGED <<intent, receipts, claims, moves, authority, recoverer>>,
         RefStays, remote' \in {"absent", "desired", "foreign"}, late' \in BOOLEAN,
         dispatch' \in Phases \cup {None}
  PROVE  IInv'
<1>1. CommittedIsPublished' /\ IntentMoves
  BY StillPublished, Zenon DEF IntentMoves
<1> QED BY <1>1, AuthorMoves, Zenon DEF IInv, TypeOK

LEMMA ProposeInv == ASSUME IInv, Propose PROVE IInv'
<1>1. /\ intent = None /\ intent' = [state |-> "PROPOSED", retries |-> 0]
      /\ UNCHANGED <<dispatch, receipts, claims, moves, forge, authority, author, recoverer>>
      /\ author.pc = "idle"
  BY Zenon DEF Propose
<1>2. intent' \in IntentRow
  <2>1. 0 \in Nat
    OBVIOUS
  <2> QED BY <1>1, <2>1, Zenon DEF IntentRow, EffectStates
<1>3. intent' # None /\ IntentMoves
  BY <1>1, <1>2, NoneIsApart, Zenon DEF IntentMoves
<1>4. AuthorInv'
  BY <1>1, <1>3, Zenon DEF AuthorInv
<1>5. CommittedIsPublished' /\ RefStays /\ UNCHANGED <<remote, late>>
  BY <1>1, Zenon DEF CommittedIsPublished, RefStays, forge
<1> QED BY <1>1, <1>2, <1>3, <1>4, <1>5, AuthorMoves, Zenon DEF IInv, TypeOK

\* authorize and dispatch: the edge is there, and the call goes on.
LEMMA BeginInv == ASSUME IInv, Authorize \/ Dispatch PROVE IInv'
<1>1. PICK to \in {"AUTHORIZED", "DISPATCHING"}, pc \in {"enqueue", "applied"} :
        /\ intent # None /\ intent.state \in {"PROPOSED", "AUTHORIZED"}
        /\ TransitionEffect(to) /\ AuthorGoes(pc)
        /\ UNCHANGED <<dispatch, receipts, claims, moves, forge, authority, recoverer>>
  BY Zenon DEF Authorize, Dispatch
<1>2. intent \in IntentRow /\ author \in AuthorRow
  BY <1>1, Zenon DEF IInv, TypeOK
<1>3. intent' = [state |-> to, retries |-> intent.retries]
  BY <1>1, Zenon DEF TransitionEffect
<1>4. intent' \in IntentRow /\ intent'.state = to /\ intent'.retries = intent.retries
  BY <1>2, <1>3, Zenon DEF IntentRow, EffectStates
<1>5. intent' # None
  BY <1>4, NoneIsApart, Zenon
<1>6. IntentMoves
  BY <1>1, <1>2, <1>4, <1>5 DEF IntentMoves, Closed, IntentRow
<1>7. author' \in AuthorRow /\ author'.pc = pc
  BY <1>1, <1>2, Zenon DEF AuthorGoes, AuthorRow, AuthorSteps
<1>8. AuthorInv'
  BY <1>5, <1>7, Zenon DEF AuthorInv
<1>9. CommittedIsPublished' /\ RefStays /\ UNCHANGED <<remote, late>>
  BY <1>1, <1>4, Zenon DEF CommittedIsPublished, RefStays, forge
<1> QED BY <1>1, <1>4, <1>6, <1>7, <1>8, <1>9, AuthorMoves, Zenon DEF IInv, TypeOK

LEMMA OutboxInv == ASSUME IInv, OutboxEnqueue \/ OutboxMark \/ MarkApplied PROVE IInv'
<1>1. /\ UNCHANGED <<intent, receipts, claims, moves, authority, recoverer, remote, late>>
      /\ dispatch' \in Phases /\ RefStays
  BY Zenon DEF OutboxEnqueue, OutboxMark, MarkApplied, Phases, forge, RefStays
<1>2. remote' \in {"absent", "desired", "foreign"} /\ late' \in BOOLEAN
  BY <1>1, Zenon DEF IInv, TypeOK
<1>3. CASE OutboxEnqueue \/ OutboxMark
  BY <1>1, <1>2, <1>3, RestInv, Zenon DEF OutboxEnqueue, OutboxMark
<1>4. CASE MarkApplied
  <2>1. author' \in AuthorRow /\ author'.pc = "push"
    BY <1>4, Zenon DEF MarkApplied, AuthorGoes, IInv, TypeOK, AuthorRow, AuthorSteps
  <2>2. AuthorInv'
    BY <1>1, <1>4, <2>1, Zenon DEF MarkApplied, AuthorInv, IInv
  <2> QED BY <1>1, <1>2, <2>1, <2>2, GoInv, Zenon
<1> QED BY <1>3, <1>4, Zenon

LEMMA AuthorPushInv == ASSUME IInv, AuthorPush PROVE IInv'
<1>1. /\ UNCHANGED <<intent, dispatch, receipts, claims, moves, authority, recoverer>>
      /\ intent # None /\ author \in AuthorRow /\ dispatch \in Phases \cup {None}
  BY Zenon DEF AuthorPush, store, IInv, AuthorInv, TypeOK
<1>2. RefStays /\ remote' \in {"absent", "desired", "foreign"} /\ late' \in BOOLEAN
  BY RefMoves, Zenon DEF AuthorPush, IInv
<1>3. CASE author' = AtRest
  BY <1>1, <1>2, <1>3, RestInv, Zenon
<1>4. CASE \E pc \in {"accepted", "lost"} : AuthorGoes(pc)
  <2>1. author' \in AuthorRow /\ author'.pc \in {"accepted", "lost"}
    BY <1>1, <1>4, Zenon DEF AuthorGoes, AuthorRow, AuthorSteps
  <2>2. AuthorInv'
    BY <1>1, <2>1, Zenon DEF AuthorInv
  <2> QED BY <1>1, <1>2, <2>1, <2>2, GoInv, Zenon
<1>5. CASE author' = [author EXCEPT !.pc = "record", !.verdict = "MISMATCH"]
  <2>1. author' \in AuthorRow /\ author'.pc = "record" /\ author'.verdict = "MISMATCH"
    BY <1>1, <1>5, Zenon DEF AuthorRow, AuthorSteps, Verdicts
  <2>2. AuthorInv'
    <3>1. "MISMATCH" # None
      BY NoneIsApart, Zenon DEF Verdicts
    <3> QED BY <1>1, <2>1, <3>1, Zenon DEF AuthorInv
  <2> QED BY <1>1, <1>2, <2>1, <2>2, GoInv, Zenon
<1> QED BY <1>3, <1>4, <1>5, Zenon DEF AuthorPush

LEMMA VerdictFacts ==
  ASSUME TypeOK
  PROVE  Verdict \in Verdicts /\ Verdict # None /\ (Verdict = "MATCH" => remote = "desired")
<1>1. Verdict \in Verdicts /\ (Verdict = "MATCH" => remote = "desired")
  BY Zenon DEF TypeOK, Verdict, Verdicts
<1> QED BY <1>1, NoneIsApart, Zenon

LEMMA AuthorReadsInv ==
  ASSUME IInv, AuthorLooks \/ Reconcile \/ ReconcileReads
  PROVE  IInv'
<1>1. /\ UNCHANGED <<intent, dispatch, receipts, claims, moves, authority, recoverer, remote, late>>
      /\ author \in AuthorRow /\ RefStays
  BY Zenon DEF AuthorLooks, Reconcile, ReconcileReads, store, forge, IInv, TypeOK, RefStays
<1>2. /\ remote' \in {"absent", "desired", "foreign"} /\ late' \in BOOLEAN
      /\ dispatch' \in Phases \cup {None} /\ intent # None
  BY <1>1, Zenon DEF IInv, TypeOK, AuthorInv, AuthorLooks, Reconcile, ReconcileReads
<1>3. CASE author' = AtRest
  BY <1>1, <1>2, <1>3, RestInv, Zenon
<1>4. CASE author' = [author EXCEPT !.pc = "record", !.verdict = Verdict]
  <2>1. author' \in AuthorRow /\ author'.pc = "record" /\ author'.verdict = Verdict
    BY <1>1, <1>4, VerdictFacts, Zenon DEF AuthorRow, AuthorSteps, IInv
  <2>2. AuthorInv'
    BY <1>1, <1>2, <2>1, VerdictFacts, Zenon DEF AuthorInv, IInv
  <2> QED BY <1>1, <1>2, <2>1, <2>2, GoInv, Zenon
<1>5. CASE Reconcile
  <2>1. author' = [pc |-> "reconcile", verdict |-> None, adopted |-> FALSE,
                   retries |-> intent.retries]
    BY <1>5, Zenon DEF Reconcile, AtRest
  <2>2. intent.retries \in Nat
    BY <1>2, Zenon DEF IInv, TypeOK, IntentRow
  <2>3. author' \in AuthorRow
    BY <2>1, <2>2, Zenon DEF AuthorRow, AuthorSteps
  <2>4. AuthorInv'
    BY <1>1, <1>2, <2>1, <2>2 DEF AuthorInv
  <2> QED BY <1>1, <1>2, <2>3, <2>4, GoInv, Zenon
<1>6. CASE /\ author.pc = "reconcile" /\ author.retries = 0 /\ AuthorGoes("retry")
  <2>1. author' \in AuthorRow /\ author'.pc = "retry" /\ author'.retries = 0
    BY <1>1, <1>6, Zenon DEF AuthorRow, AuthorSteps, AuthorGoes
  <2>2. AuthorInv'
    BY <1>1, <1>2, <1>6, <2>1, Zenon DEF AuthorInv, IInv
  <2> QED BY <1>1, <1>2, <2>1, <2>2, GoInv, Zenon
<1>7. CASE author' = [AtRest EXCEPT !.pc = "record", !.verdict = Verdict,
                                    !.adopted = (remote = "desired")]
  <2>0. author' = [pc |-> "record", verdict |-> Verdict, adopted |-> (remote = "desired"),
                   retries |-> 0]
    BY <1>7, Zenon DEF AtRest
  <2>1. author' \in AuthorRow /\ author'.pc = "record" /\ author'.verdict = Verdict
    <3>1. 0 \in Nat /\ (remote = "desired") \in BOOLEAN
      OBVIOUS
    <3> QED BY <2>0, <3>1, VerdictFacts, Zenon DEF AuthorRow, AuthorSteps, IInv
  <2>2. AuthorInv'
    BY <1>1, <1>2, <2>1, VerdictFacts, Zenon DEF AuthorInv, IInv
  <2> QED BY <1>1, <1>2, <2>1, <2>2, GoInv, Zenon
<1> QED BY <1>3, <1>4, <1>5, <1>6, <1>7, Zenon DEF AuthorLooks, ReconcileReads

LEMMA RecordReceiptInv == ASSUME IInv, RecordReceipt PROVE IInv'
<1> DEFINE x == [method |-> "read-back", verdict |-> author.verdict, adopted |-> author.adopted,
                 at |-> None]
<1>1. /\ UNCHANGED <<intent, dispatch, claims, moves, authority, recoverer, remote, late>>
      /\ receipts' = receipts \cup {x} /\ author.pc = "record" /\ RefStays
      /\ author' = [author EXCEPT !.pc = IF author.verdict = "MATCH" THEN "verify"
                                         ELSE "quarantine"]
  BY Zenon DEF RecordReceipt, forge, RefStays, AuthorGoes
<1>2. /\ author \in AuthorRow /\ author.verdict # None /\ intent # None
      /\ author.verdict = "MATCH" => remote = "desired"
  BY <1>1, Zenon DEF IInv, TypeOK, AuthorInv
<1>3. x \in ReceiptRow /\ x.method = "read-back" /\ x.verdict = author.verdict
  BY <1>2, Zenon DEF AuthorRow, ReceiptRow
<1> HIDE DEF x
<1>4. author' \in AuthorRow /\ author'.verdict = author.verdict
      /\ author'.pc = IF author.verdict = "MATCH" THEN "verify" ELSE "quarantine"
  BY <1>1, <1>2, Zenon DEF AuthorRow, AuthorSteps
<1>5. AuthorInv'
  BY <1>1, <1>2, <1>3, <1>4 DEF AuthorInv
<1>6. CommittedIsPublished' /\ IntentMoves
  BY <1>1, StillPublished, Zenon DEF IntentMoves
<1> QED BY <1>1, <1>3, <1>4, <1>5, <1>6, AuthorMoves, Zenon DEF IInv, TypeOK

LEMMA AuthorStepInv == ASSUME IInv, AuthorStep PROVE IInv'
<1>1. ASSUME author.pc # "idle" PROVE intent # None
  BY <1>1, Zenon DEF IInv, AuthorInv
<1> USE DEF EffectStates
<1>2. CASE AuthorAccepted
  BY <1>1, <1>2, TransitsInv, Zenon DEF AuthorAccepted
<1>3. CASE AuthorVerifies
  BY <1>1, <1>3, TransitsInv, Zenon DEF AuthorVerifies, IInv, AuthorInv
<1>4. CASE AuthorCommits
  BY <1>1, <1>4, TransitsInv, Zenon DEF AuthorCommits
<1>5. CASE AuthorQuarantines
  BY <1>1, <1>5, TransitsInv, Zenon DEF AuthorQuarantines
<1>6. CASE ResponseLost
  BY <1>1, <1>6, TransitsInv, Zenon DEF ResponseLost
<1>7. CASE ReconcileRetries
  BY <1>1, <1>7, TransitsInv, Zenon DEF ReconcileRetries, IInv, AuthorInv
<1> QED BY <1>2, <1>3, <1>4, <1>5, <1>6, <1>7, ProposeInv, BeginInv, OutboxInv, AuthorPushInv,
           AuthorReadsInv, RecordReceiptInv, Zenon DEF AuthorStep

LEMMA AuthorCrashInv == ASSUME IInv, AuthorCrashes PROVE IInv'
<1>1. UNCHANGED <<intent, dispatch, receipts, claims, moves, authority, recoverer>>
  BY Zenon DEF AuthorCrashes, store
<1>2. RefStays /\ remote' \in {"absent", "desired", "foreign"} /\ late' \in BOOLEAN
  BY RefMoves, Zenon DEF AuthorCrashes, IInv
<1> QED BY <1>1, <1>2, RestInv, Zenon DEF AuthorCrashes, IInv, TypeOK

LEMMA ForgeInv == ASSUME IInv, LatePushLands \/ ForeignWrite PROVE IInv'
<1>1. /\ UNCHANGED <<intent, dispatch, receipts, claims, moves, authority, author, recoverer>>
      /\ RefStays /\ remote' \in {"absent", "desired", "foreign"} /\ late' \in BOOLEAN
  BY Zenon DEF LatePushLands, ForeignWrite, store, IInv, TypeOK, RefStays
<1>2. AuthorInv'
  BY <1>1, Zenon DEF IInv, AuthorInv, RefStays
<1> QED BY <1>1, <1>2, GoInv, Zenon DEF IInv, TypeOK
-----------------------------------------------------------------------------
(* A recovering writer, between its transactions.                           *)

LEMMA RecovererMoves ==
  ASSUME IInv, UNCHANGED <<store, authority, author>>, RefStays,
         remote' \in {"absent", "desired", "foreign"}, late' \in BOOLEAN,
         NEW r \in Recoverers, NEW row \in WorkRow, recoverer' = [recoverer EXCEPT ![r] = row],
         WorkInv(r)'
  PROVE  IInv'
<1>1. UNCHANGED <<intent, dispatch, receipts, claims, moves, lease, fence, epoch, author>>
  BY Zenon DEF store, authority
<1>2. recoverer' \in [Recoverers -> WorkRow] /\ \A q \in Recoverers \ {r} : recoverer'[q] = recoverer[q]
  BY Zenon DEF IInv, TypeOK
<1>3. TypeOK'
  BY <1>1, <1>2, Zenon DEF IInv, TypeOK
<1>4. StoreInv' /\ CommittedIsPublished'
  BY <1>1, StoreKept, StillPublished, Zenon DEF IInv, TypeOK, IntentMoves
<1>5. \A q \in Recoverers : WorkInv(q)'
  BY <1>1, <1>2, WorkKept, Zenon
<1>6. AuthorInv'
  BY <1>1, Zenon DEF IInv, AuthorInv, RefStays
<1> QED BY <1>3, <1>4, <1>5, <1>6, Zenon DEF IInv, StoreInv

LEMMA WorkFacts ==
  ASSUME IInv, NEW r \in Recoverers, recoverer[r].pc # "idle"
  PROVE  /\ recoverer[r] \in WorkRow /\ recoverer[r].gen \in DOMAIN claims
         /\ recoverer[r].gen \in Generations /\ recoverer[r].disposition \in Active
<1>1. recoverer[r] \in WorkRow /\ WorkInv(r)
  BY Zenon DEF IInv, TypeOK
<1>2. recoverer[r].gen \in DOMAIN claims /\ recoverer[r].disposition \in Active
  BY <1>1, Zenon DEF WorkInv
<1> QED BY <1>1, <1>2, ClaimCount, Zenon

LEMMA RestsInv ==
  ASSUME IInv, UNCHANGED <<store, authority, author>>, RefStays,
         remote' \in {"absent", "desired", "foreign"}, late' \in BOOLEAN,
         NEW r \in Recoverers, recoverer' = [recoverer EXCEPT ![r] = Resting]
  PROVE  IInv'
<1>1. recoverer'[r] = Resting
  BY Zenon DEF IInv, TypeOK
<1>2. WorkInv(r)'
  BY <1>1 DEF WorkInv, Resting, Work
<1> QED BY <1>2, RestingRows, RecovererMoves, Zenon

\* The decisions WorkInv admits.
Decision(to, receipt, reason) ==
  \/ to = "RETRY_RESERVED" /\ receipt = "ABSENT" /\ reason = None
  \/ to = "READBACK_UNKNOWN" /\ receipt = None /\ reason = None
  \/ to = "ADOPTED" /\ receipt = "MATCH" /\ reason = None /\ remote = "desired"
  \/ to = "ORPHANED" /\ receipt = "MISMATCH" /\ reason = None /\ remote = "foreign"
  \/ to = "QUARANTINED" /\ receipt = "ABSENT" /\ reason = "RETRY_SPENT_AFTER_ABSENCE"
  \/ to = "QUARANTINED" /\ receipt = None /\ reason = "READBACK_UNAVAILABLE"

LEMMA DecideInv ==
  ASSUME IInv, UNCHANGED <<store, authority, author>>, RefStays,
         remote' \in {"absent", "desired", "foreign"}, late' \in BOOLEAN,
         NEW r \in Recoverers, recoverer[r].pc # "idle",
         NEW to, NEW receipt, NEW reason, NEW again \in BOOLEAN, Decision(to, receipt, reason),
         Decide(r, to, receipt, reason, again)
  PROVE  IInv'
<1> DEFINE me == recoverer[r]
           row == [me EXCEPT !.pc = "apply", !.to = to, !.receipt = receipt,
                             !.reason = reason, !.again = again]
<1>1. /\ me \in WorkRow /\ me.gen \in DOMAIN claims /\ me.disposition \in Active
      /\ recoverer' = [recoverer EXCEPT ![r] = row]
  BY WorkFacts, Zenon DEF Decide
<1>2. /\ to \in Active \cup Terminal \cup {None} /\ receipt \in Verdicts \cup {None}
      /\ reason \in Reasons \cup {None}
  BY Zenon DEF Decision, Active, Terminal, Verdicts, Reasons
<1>3. row \in WorkRow
  BY <1>1, <1>2, ZenonT(40) DEF WorkRow, RecovererSteps
<1>4. /\ row.pc = "apply" /\ row.gen = me.gen /\ row.disposition = me.disposition
      /\ row.to = to /\ row.receipt = receipt /\ row.reason = reason
  BY <1>1, Zenon DEF WorkRow
<1>5. recoverer'[r] = row
  BY <1>1, Zenon DEF IInv, TypeOK
<1> HIDE DEF row
<1>6. claims' = claims
  BY Zenon DEF store
<1>7. WorkInv(r)'
  BY <1>1, <1>4, <1>5, <1>6, Zenon DEF WorkInv, Decision, RefStays
<1> QED BY <1>1, <1>3, <1>7, RecovererMoves, Zenon

LEMMA ReadRefInv == ASSUME IInv, NEW r \in Recoverers, ReadRef(r) PROVE IInv'
<1>1. /\ UNCHANGED <<store, authority, author, remote, late>> /\ recoverer[r].pc = "read"
      /\ RefStays
  BY Zenon DEF ReadRef, forge, RefStays
<1>2. remote' \in {"absent", "desired", "foreign"} /\ late' \in BOOLEAN
  BY <1>1, Zenon DEF IInv, TypeOK
<1>3. recoverer[r].pc # "idle"
  BY <1>1, Zenon
<1>4. CASE SettleObserved(r)
  <2>1. PICK to \in {"ADOPTED", "ORPHANED"}, v \in {"MATCH", "MISMATCH"} :
          Decision(to, v, None) /\ Decide(r, to, v, None, FALSE)
    BY <1>4, Zenon DEF SettleObserved, Decision, IInv, TypeOK, Verdict
  <2> QED BY <1>1, <1>2, <1>3, <2>1, DecideInv, Zenon
<1>5. CASE ResolveAbsence(r) /\ recoverer' # [recoverer EXCEPT ![r] = [@ EXCEPT !.pc = "recheck"]]
  <2>1. \/ Decide(r, "RETRY_RESERVED", "ABSENT", None, FALSE)
        \/ Decide(r, "QUARANTINED", "ABSENT", "RETRY_SPENT_AFTER_ABSENCE", FALSE)
    BY <1>5, Zenon DEF ResolveAbsence
  <2>2. /\ Decision("RETRY_RESERVED", "ABSENT", None)
        /\ Decision("QUARANTINED", "ABSENT", "RETRY_SPENT_AFTER_ABSENCE")
    BY Zenon DEF Decision
  <2> QED BY <1>1, <1>2, <1>3, <2>1, <2>2, DecideInv, Zenon
<1>6. CASE recoverer' = [recoverer EXCEPT ![r] = [@ EXCEPT !.pc = "recheck"]]
  <2> DEFINE row == [recoverer[r] EXCEPT !.pc = "recheck"]
  <2>1. /\ recoverer[r] \in WorkRow /\ recoverer[r].gen \in DOMAIN claims
        /\ recoverer[r].disposition \in Active
    BY <1>3, WorkFacts, Zenon
  <2>2. /\ row \in WorkRow /\ row.pc = "recheck" /\ row.gen = recoverer[r].gen
        /\ row.disposition = recoverer[r].disposition
    BY <2>1, Zenon DEF WorkRow, RecovererSteps
  <2>3. recoverer' = [recoverer EXCEPT ![r] = row] /\ recoverer'[r] = row
    BY <1>6, Zenon DEF IInv, TypeOK
  <2>4. WorkInv(r)'
    <3> HIDE DEF row
    <3> QED BY <1>1, <2>1, <2>2, <2>3, Zenon DEF WorkInv, store
  <2> QED BY <1>1, <1>2, <2>2, <2>3, <2>4, RecovererMoves, Zenon
<1>7. CASE ReadbackUnavailable(r)
  <2>1. \/ Decide(r, "READBACK_UNKNOWN", None, None, FALSE)
        \/ Decide(r, "QUARANTINED", None, "READBACK_UNAVAILABLE", FALSE)
    BY <1>7, Zenon DEF ReadbackUnavailable
  <2>2. /\ Decision("READBACK_UNKNOWN", None, None)
        /\ Decision("QUARANTINED", None, "READBACK_UNAVAILABLE")
    BY Zenon DEF Decision
  <2> QED BY <1>1, <1>2, <1>3, <2>1, <2>2, DecideInv, Zenon
<1> QED BY <1>4, <1>5, <1>6, <1>7, Zenon DEF ReadRef

LEMMA RecheckInv == ASSUME IInv, NEW r \in Recoverers, RecheckClaim(r) PROVE IInv'
<1>1. /\ UNCHANGED <<store, authority, author, remote, late>> /\ recoverer[r].pc = "recheck"
      /\ RefStays /\ UNCHANGED claims
  BY Zenon DEF RecheckClaim, forge, RefStays, store
<1>2. remote' \in {"absent", "desired", "foreign"} /\ late' \in BOOLEAN
  BY <1>1, Zenon DEF IInv, TypeOK
<1> DEFINE row == [recoverer[r] EXCEPT !.pc = "push"]
<1>3. /\ recoverer[r] \in WorkRow /\ recoverer[r].gen \in DOMAIN claims
      /\ recoverer[r].disposition \in Active
  BY <1>1, WorkFacts, Zenon
<1>4. /\ row \in WorkRow /\ row.pc = "push" /\ row.gen = recoverer[r].gen
      /\ row.disposition = recoverer[r].disposition
  BY <1>3, Zenon DEF WorkRow, RecovererSteps
<1>5. CASE recoverer' = [recoverer EXCEPT ![r] = row]
  <2>1. recoverer'[r] = row
    BY <1>5, Zenon DEF IInv, TypeOK
  <2>2. WorkInv(r)'
    <3> HIDE DEF row
    <3> QED BY <1>1, <1>3, <1>4, <2>1, Zenon DEF WorkInv
  <2> QED BY <1>1, <1>2, <1>4, <1>5, <2>2, RecovererMoves, Zenon
<1>6. CASE recoverer' = [recoverer EXCEPT ![r] = Resting]
  BY <1>1, <1>2, <1>6, RestsInv, Zenon
<1> QED BY <1>5, <1>6, Zenon DEF RecheckClaim

LEMMA RecoveryPushInv == ASSUME IInv, NEW r \in Recoverers, RecoveryPush(r) PROVE IInv'
<1>1. /\ UNCHANGED <<store, authority, author>> /\ recoverer[r].pc # "idle"
      /\ RefStays /\ remote' \in {"absent", "desired", "foreign"} /\ late' \in BOOLEAN
  BY RefMoves, Zenon DEF RecoveryPush, IInv
<1>2. PICK again \in BOOLEAN : Decide(r, "READBACK_UNKNOWN", None, None, again)
  BY Zenon DEF RecoveryPush
<1>3. Decision("READBACK_UNKNOWN", None, None)
  BY Zenon DEF Decision
<1> QED BY <1>1, <1>2, <1>3, DecideInv, Zenon

LEMMA RecovererCrashInv == ASSUME IInv, NEW r \in Recoverers, RecovererCrashes(r) PROVE IInv'
<1>1. RefStays /\ remote' \in {"absent", "desired", "foreign"} /\ late' \in BOOLEAN
  BY RefMoves, Zenon DEF RecovererCrashes, IInv
<1> QED BY <1>1, RestsInv, Zenon DEF RecovererCrashes

\* An active claim carries a retry count its phase admits.
\* What a claim carries fits the intent's row.
LEMMA SnapshotIsIntent == SnapshotRow \subseteq IntentRow
<1> QED BY DEF SnapshotRow, IntentRow

LEMMA ActiveFacts ==
  ASSUME IInv, NEW g \in DOMAIN claims, claims[g].disposition \in Active
  PROVE  /\ g = Latest /\ SnapshotFits(claims[g].disposition, claims[g].intent)
         /\ claims[g].intent \in SnapshotRow /\ claims[g].intent.retries \in 0..1
<1>1. BoundInv(g) /\ PhaseInv(g) /\ claims[g] \in ClaimRow /\ g \in 1..Latest /\ Latest \in Nat
  BY ClaimCount, Zenon DEF IInv
<1>2. Phase(claims[g]) = claims[g].disposition /\ claims[g].disposition # "INVALIDATED"
  BY Zenon DEF Phase, Active
<1>3. SnapshotFits(claims[g].disposition, claims[g].intent)
  BY <1>1, <1>2, Zenon DEF PhaseInv
<1>4. claims[g].intent \in SnapshotRow /\ claims[g].intent.retries \in 0..1
  BY <1>1, Zenon DEF ClaimRow, SnapshotRow
<1> QED BY <1>1, <1>2, <1>3, <1>4 DEF BoundInv

LEMMA ClaimAgainInv == ASSUME IInv, NEW r \in Recoverers, ClaimAgain(r) PROVE IInv'
<1>1. /\ UNCHANGED <<store, authority, author, remote, late>> /\ RefStays /\ UNCHANGED claims
      /\ Latest > 0 /\ claims[Latest].disposition \in Active /\ Hold(r, Latest, claims[Latest])
  BY Zenon DEF ClaimAgain, forge, RefStays, store
<1>2. remote' \in {"absent", "desired", "foreign"} /\ late' \in BOOLEAN
  BY <1>1, Zenon DEF IInv, TypeOK
<1>3. Latest \in DOMAIN claims
  BY <1>1 DEF IInv, TypeOK, Latest
<1>4. Latest \in Generations /\ claims[Latest].intent.retries \in 0..1
  BY <1>1, <1>3, ClaimCount, ActiveFacts, Zenon
<1> DEFINE row == Work("read", Latest, claims[Latest].disposition, claims[Latest].intent.retries)
<1>5. row \in WorkRow
  BY <1>1, <1>4, WorkRows, Zenon DEF RecovererSteps
<1>6. recoverer' = [recoverer EXCEPT ![r] = row] /\ recoverer'[r] = row
  BY <1>1, Zenon DEF Hold, IInv, TypeOK
<1>7. WorkInv(r)'
  BY <1>1, <1>3, <1>6 DEF WorkInv, Work
<1> QED BY <1>1, <1>2, <1>5, <1>6, <1>7, RecovererMoves, Zenon
-----------------------------------------------------------------------------
(* A new claim.                                                             *)

\* What claim_effect_recovery finds: the last claim, if any, is invalidated, and
\* the lease or the epoch is a later one than that claim's.
LEMMA ClaimFacts ==
  ASSUME IInv, NEW r \in Recoverers, Claimable(r)
  PROVE  /\ Latest \in Nat /\ DOMAIN claims = 1..Latest /\ Latest + 1 \in Generations
         /\ intent \in IntentRow /\ intent # None /\ fence = r
         /\ epoch \in 1..MaxEpoch /\ Latest + 3 <= r + epoch /\ r \in Nat /\ epoch \in Nat
         /\ \A g \in DOMAIN claims : claims[g].disposition = "INVALIDATED"
         /\ Latest > 0 => claims[Latest].from \in Active
<1>1. /\ claims \in Seq(ClaimRow) /\ fence \in 1..MaxFence /\ epoch \in 1..MaxEpoch
      /\ intent \in IntentRow /\ intent # None /\ lease # None /\ lease.live
      /\ lease.epoch = epoch /\ lease.fence = r /\ fence = r
      /\ Latest > 0 => claims[Latest].disposition = "INVALIDATED"
  BY Zenon DEF IInv, TypeOK, Claimable, LeaseInv
<1>2. Latest \in Nat /\ DOMAIN claims = 1..Latest /\ r \in 2..MaxFence
  BY <1>1 DEF Latest, Recoverers
<1>3. ASSUME Latest > 0
      PROVE  /\ Latest + 3 <= fence + epoch /\ claims[Latest].from \in Active
             /\ \A g \in DOMAIN claims : claims[g].disposition = "INVALIDATED"
  <2>1. Latest \in DOMAIN claims /\ claims[Latest].disposition = "INVALIDATED"
    BY <1>1, <1>2, <1>3
  <2>2. claims[Latest] \in ClaimRow /\ BoundInv(Latest) /\ PhaseInv(Latest)
    BY <2>1, ClaimCount, Zenon DEF IInv
  <2>3. claims[Latest].fence \in Nat /\ claims[Latest].epoch \in Nat
    BY <2>2, DeliveryAssumptions DEF ClaimRow, Recoverers
  <2>4. /\ claims[Latest].fence <= fence /\ claims[Latest].epoch <= epoch
        /\ ~(claims[Latest].fence = fence /\ claims[Latest].epoch = epoch)
        /\ Latest + 2 <= claims[Latest].fence + claims[Latest].epoch
    BY <1>1, <1>3, <2>1, <2>2, Zenon DEF BoundInv, IInv, LeaseInv
  <2>5. Latest + 3 <= fence + epoch
    <3>1. fence \in Nat /\ epoch \in Nat
      BY <1>1, DeliveryAssumptions
    <3>2. claims[Latest].fence < fence \/ claims[Latest].epoch < epoch
      BY <2>3, <2>4, <3>1
    <3> QED BY <1>2, <2>3, <2>4, <3>1, <3>2
  <2>6. \A g \in DOMAIN claims : claims[g].disposition = "INVALIDATED"
    <3> SUFFICES ASSUME NEW g \in DOMAIN claims PROVE claims[g].disposition = "INVALIDATED"
      BY Zenon
    <3>1. BoundInv(g) /\ (g = Latest \/ g < Latest)
      BY <1>2 DEF IInv
    <3> QED BY <2>1, <3>1, Zenon DEF BoundInv
  <2> QED BY <2>1, <2>2, <2>5, <2>6, Zenon DEF PhaseInv
<1>4. CASE Latest > 0
  BY <1>1, <1>2, <1>3, <1>4, DeliveryAssumptions DEF Generations
<1>5. CASE Latest = 0
  BY <1>1, <1>2, <1>5, DeliveryAssumptions DEF Generations
<1> QED BY ONLY <1>2, <1>4, <1>5

LEMMA NewClaimRow ==
  ASSUME IInv, NEW r \in Recoverers, Claimable(r), NEW d, d = NextDisposition,
         NEW c, c = NewClaim(r, d), SnapshotFits(d, c.intent)
  PROVE  /\ c \in ClaimRow /\ d \in Active
         /\ c.fence = r /\ c.epoch = epoch /\ c.disposition = d
         /\ c.intent = [state |-> "OUTCOME_UNKNOWN", retries |-> intent.retries]
         /\ c.receipt = IF d = "RETRY_RESERVED" THEN "ABSENT" ELSE None
         /\ c.delivered = IF d = "RETRY_RESERVED" THEN <<Latest + 1, "birth">> ELSE None
         /\ d = "RETRY_RESERVED" => Reservations # {} /\ Latest > 0
         /\ Latest > 0 => d = claims[Latest].from
<1>1. /\ Latest \in Nat /\ DOMAIN claims = 1..Latest /\ Latest + 1 \in Generations
      /\ intent \in IntentRow /\ intent # None /\ epoch \in 1..MaxEpoch
      /\ \A g \in DOMAIN claims : claims[g].disposition = "INVALIDATED"
      /\ Latest > 0 => claims[Latest].from \in Active
  BY ClaimFacts, Zenon
<1>2. d \in Active /\ (Latest > 0 => d = claims[Latest].from)
      /\ (d = "RETRY_RESERVED" => Latest > 0)
  BY <1>1, Zenon DEF NextDisposition, Active
<1>3. d = "RETRY_RESERVED" => claims[Latest].receipt = "ABSENT" /\ Reservations # {}
  <2> SUFFICES ASSUME d = "RETRY_RESERVED"
               PROVE  claims[Latest].receipt = "ABSENT" /\ Reservations # {}
    BY Zenon
  <2>1. Latest \in DOMAIN claims
    BY <1>1, <1>2
  <2>2. PhaseInv(Latest) /\ Phase(claims[Latest]) = "RETRY_RESERVED"
    BY <1>1, <1>2, <2>1, Zenon DEF IInv, Phase
  <2> QED BY <2>2, Zenon DEF PhaseInv, Active
<1>4. [intent EXCEPT !.state = "OUTCOME_UNKNOWN"]
        = [state |-> "OUTCOME_UNKNOWN", retries |-> intent.retries]
  BY <1>1 DEF IntentRow
<1>5. /\ c.fence = r /\ c.epoch = epoch /\ c.disposition = d
      /\ c.intent = [state |-> "OUTCOME_UNKNOWN", retries |-> intent.retries]
      /\ c.receipt = IF d = "RETRY_RESERVED" THEN "ABSENT" ELSE None
      /\ c.delivered = IF d = "RETRY_RESERVED" THEN <<Latest + 1, "birth">> ELSE None
  BY <1>3, <1>4, Zenon DEF NewClaim
<1>6. c \in ClaimRow
  <2>1. <<Latest + 1, "birth">> \in Times
    BY <1>1, Zenon DEF Times
  <2>2. [state |-> "OUTCOME_UNKNOWN", retries |-> intent.retries] \in SnapshotRow
    <3>1. intent.retries \in 0..1
      BY <1>1 DEF Claimable, IntentRow
    <3> QED BY <3>1, Zenon DEF SnapshotRow, EffectStates
  <2>3. CASE d = "RETRY_RESERVED"
    <3>1. c = [fence |-> r, epoch |-> epoch, disposition |-> d, from |-> None,
               receipt |-> "ABSENT", reason |-> None,
               intent |-> [state |-> "OUTCOME_UNKNOWN", retries |-> intent.retries],
               phase |-> "applied", delivered |-> <<Latest + 1, "birth">>,
               acked |-> None, updated |-> <<Latest + 1, "birth">>]
      BY <1>3, <1>4, <2>3, Zenon DEF NewClaim
    <3> QED BY <1>1, <1>2, <2>1, <2>2, <3>1 DEF ClaimRow, Verdicts, Phases
  <2>4. CASE d # "RETRY_RESERVED"
    <3>1. c = [fence |-> r, epoch |-> epoch, disposition |-> d, from |-> None,
               receipt |-> None, reason |-> None,
               intent |-> [state |-> "OUTCOME_UNKNOWN", retries |-> intent.retries],
               phase |-> "pending", delivered |-> None,
               acked |-> None, updated |-> <<Latest + 1, "birth">>]
      BY <1>4, <2>4, Zenon DEF NewClaim
    <3> QED BY <1>1, <1>2, <2>1, <2>2, <3>1 DEF ClaimRow, Phases
  <2> QED BY <2>3, <2>4, Zenon
<1> QED BY <1>2, <1>3, <1>5, <1>6, Zenon

LEMMA ClaimEffectInv == ASSUME IInv, NEW r \in Recoverers, ClaimEffect(r) PROVE IInv'
<1>1. PICK d, c : /\ d = NextDisposition /\ c = NewClaim(r, d) /\ SnapshotFits(d, c.intent)
                  /\ intent' = c.intent /\ claims' = Append(claims, c) /\ Hold(r, Latest + 1, c)
  BY Zenon DEF ClaimEffect
<1>2. /\ Claimable(r)
      /\ UNCHANGED <<dispatch, receipts, moves, remote, late, lease, fence, epoch, author, Reservations>>
  BY Zenon DEF ClaimEffect, forge, authority, Reservations
<1>3. /\ Latest \in Nat /\ DOMAIN claims = 1..Latest /\ Latest + 1 \in Generations
      /\ intent \in IntentRow /\ intent # None /\ fence = r
      /\ epoch \in 1..MaxEpoch /\ Latest + 3 <= r + epoch /\ r \in Nat /\ epoch \in Nat
      /\ \A g \in DOMAIN claims : claims[g].disposition = "INVALIDATED"
  BY <1>2, ClaimFacts, Zenon
<1>4. /\ c \in ClaimRow /\ d \in Active
      /\ c.fence = r /\ c.epoch = epoch /\ c.disposition = d
      /\ c.intent = [state |-> "OUTCOME_UNKNOWN", retries |-> intent.retries]
      /\ c.receipt = IF d = "RETRY_RESERVED" THEN "ABSENT" ELSE None
      /\ c.delivered = IF d = "RETRY_RESERVED" THEN <<Latest + 1, "birth">> ELSE None
      /\ d = "RETRY_RESERVED" => Reservations # {} /\ Latest > 0
      /\ Latest > 0 => d = claims[Latest].from
  BY ONLY IInv, r \in Recoverers, <1>1, <1>2, NewClaimRow
<1>5. /\ claims' \in Seq(ClaimRow) /\ Latest' = Latest + 1 /\ DOMAIN claims' = 1..(Latest + 1)
      /\ claims'[Latest + 1] = c /\ \A g \in DOMAIN claims : claims'[g] = claims[g]
  BY <1>1, <1>3, <1>4 DEF Latest, IInv, TypeOK
<1>6. /\ intent' \in IntentRow /\ intent'.state = "OUTCOME_UNKNOWN"
      /\ intent'.retries = intent.retries /\ intent.retries \in Nat
  BY <1>1, <1>3, <1>4 DEF IntentRow, EffectStates
<1>7. intent' # None /\ RefStays
  BY <1>2, <1>6, NoneIsApart, Zenon DEF RefStays
<1>8. d # "INVALIDATED" /\ d \notin Terminal
  BY <1>4, Zenon DEF Active, Terminal
<1>9. intent.retries \in 0..1
  BY <1>2, <1>6 DEF Claimable
<1> DEFINE row == Work("read", Latest + 1, d, intent.retries)
<1>10. /\ row \in WorkRow /\ recoverer' = [recoverer EXCEPT ![r] = row]
  <2>1. c.disposition = d /\ c.intent.retries = intent.retries
    BY <1>1, <1>4, <1>6, Zenon
  <2>2. recoverer' = [recoverer EXCEPT ![r] = row]
    BY <1>1, <2>1, Zenon DEF Hold
  <2> QED BY <1>3, <1>4, <1>9, <2>2, WorkRows, Zenon DEF RecovererSteps
<1>11. /\ recoverer' \in [Recoverers -> WorkRow] /\ recoverer'[r] = row
       /\ \A q \in Recoverers \ {r} : recoverer'[q] = recoverer[q]
  BY <1>10, Zenon DEF IInv, TypeOK
<1>12. TypeOK'
  <2> HIDE DEF row
  <2> QED BY <1>2, <1>5, <1>6, <1>11, Zenon DEF IInv, TypeOK
<1>13. CommittedIsPublished'
  BY <1>6, Zenon DEF CommittedIsPublished
<1>14. LeaseInv'
  BY <1>2, <1>3, <1>4, <1>5, <1>8 DEF IInv, LeaseInv
<1>15. MoveInv' /\ SettledOnce'
  <2>1. \A m \in moves : m.gen \in DOMAIN claims' /\ m.to \notin Terminal
    BY <1>3, <1>5 DEF IInv, MoveInv, Terminal
  <2> QED BY <1>2, <2>1, Zenon DEF MoveInv, SettledOnce
<1>16. ReservationInv'
  BY <1>2, <1>6, <1>7, Zenon DEF IInv, ReservationInv
<1>17. ReceiptInv'
  <2>1. Latest > 0 => claims[Latest].disposition = "INVALIDATED"
    BY <1>3
  <2>2. \A x \in receipts : x.method = "local-bare" =>
          /\ x.verdict = "ABSENT" /\ ~x.adopted
          /\ \E m \in Reservations : x.at = <<m.gen, "RETRY_RESERVED">>
    BY <2>1, Zenon DEF IInv, ReceiptInv, Terminal
  <2> QED BY <1>2, <2>2, Zenon DEF ReceiptInv
<1>18. ASSUME NEW g \in DOMAIN claims PROVE BoundInv(g)' /\ PhaseInv(g)' /\ SettledInv(g)'
  <2>1. /\ BoundInv(g) /\ PhaseInv(g) /\ claims'[g] = claims[g]
        /\ claims[g].disposition = "INVALIDATED" /\ g \in 1..Latest
    BY <1>3, <1>5, Zenon DEF IInv
  <2>2. BoundInv(g)'
    BY <1>2, <2>1, Zenon DEF BoundInv, Active
  <2>3. Delivery(g)' = Delivery(g)
    <3>1. g > 1 => claims'[g - 1] = claims[g - 1]
      BY <1>3, <1>5, <2>1
    <3>2. Reserved(g)' <=> Reserved(g)
      BY <1>2, Zenon DEF Reserved
    <3> QED BY <3>1, <3>2, Zenon DEF Delivery
  <2>4. PhaseInv(g)'
    BY <1>2, <2>1, <2>3, Zenon DEF PhaseInv, Phase
  <2>5. SettledInv(g)'
    BY <2>1, Zenon DEF SettledInv, Terminal
  <2> QED BY <2>2, <2>4, <2>5, Zenon
<1>19. ASSUME NEW n, n = Latest + 1 PROVE BoundInv(n)' /\ PhaseInv(n)' /\ SettledInv(n)'
  <2>1. BoundInv(n)'
    BY <1>2, <1>3, <1>4, <1>5, <1>19 DEF BoundInv, Claimable
  <2>2. c.delivered = Delivery(n)'
    <3>1. ~Reserved(n)'
      <4>1. \A m \in Reservations : m.gen \in 1..Latest
        BY <1>3, Zenon DEF IInv, MoveInv, Reservations
      <4> QED BY <1>2, <1>3, <1>19, <4>1 DEF Reserved
    <3>2. CASE Latest > 0
      <4>1. claims'[n - 1] = claims[Latest] /\ n > 1
        BY <1>3, <1>5, <1>19, <3>2
      <4> QED BY <1>4, <1>19, <3>1, <3>2, <4>1, Zenon DEF Delivery
    <3>3. CASE Latest = 0
      <4>1. ~(n > 1) /\ c.delivered = None
        BY ONLY <1>3, <1>4, <1>19, <3>3
      <4> QED BY <3>1, <4>1, Zenon DEF Delivery
    <3> QED BY <1>3, <3>2, <3>3
  <2>3. PhaseInv(n)'
    BY <1>1, <1>2, <1>4, <1>5, <1>8, <1>19, <2>2, Zenon DEF PhaseInv, Phase
  <2>4. SettledInv(n)'
    BY <1>4, <1>5, <1>8, <1>19, Zenon DEF SettledInv
  <2> QED BY <2>1, <2>3, <2>4, Zenon
<1>20. \A g \in DOMAIN claims' : BoundInv(g)' /\ PhaseInv(g)' /\ SettledInv(g)'
  <2>1. \A g \in DOMAIN claims' : g \in DOMAIN claims \/ g = Latest + 1
    BY <1>3, <1>5
  <2> QED BY <1>18, <1>19, <2>1, Zenon
<1>21. \A q \in Recoverers : WorkInv(q)'
  <2>1. WorkInv(r)'
    BY ONLY <1>3, <1>4, <1>5, <1>11, SMTT(30) DEF WorkInv, Work
  <2>2. DOMAIN claims \subseteq DOMAIN claims'
    BY <1>3, <1>5
  <2> QED BY <1>7, <1>11, <2>1, <2>2, WorkKept, Zenon
<1>22. AuthorInv'
  BY <1>2, <1>6, <1>7, Zenon DEF IInv, AuthorInv
<1> QED BY <1>7, <1>12, <1>13, <1>14, <1>15, <1>16, <1>17, <1>20, <1>21, <1>22, Zenon DEF IInv
-----------------------------------------------------------------------------
(* Claims that are invalidated, by a trigger or by a refused apply.         *)

Invalidating ==
  /\ claims' \in Seq(ClaimRow) /\ Latest' = Latest /\ DOMAIN claims' = DOMAIN claims
  /\ \A g \in DOMAIN claims : claims'[g] \in {claims[g], Invalidated(g)}

LEMMA Mapped ==
  ASSUME IInv, NEW t, t = [g \in DOMAIN claims |-> t[g]],
         \A g \in DOMAIN claims : t[g] \in {claims[g], Invalidated(g)}, claims' = t
  PROVE  Invalidating
<1>1. Latest \in Nat /\ DOMAIN claims = 1..Latest
  BY DEF IInv, TypeOK, Latest
<1>2. \A g \in 1..Latest : t[g] \in ClaimRow
  BY <1>1, ClaimCount, InvalidatedRow, Zenon
<1>3. t \in [1..Latest -> ClaimRow]
  BY <1>1, <1>2, Zenon
<1>4. t \in Seq(ClaimRow)
  BY <1>1, <1>3, IsASeq, Zenon
<1>5. DOMAIN t = 1..Latest
  BY <1>3, Zenon
<1>6. Len(t) = Latest
  BY <1>1, <1>4, <1>5
<1> QED BY <1>1, <1>4, <1>5, <1>6, Zenon DEF Invalidating, Latest

LEMMA InvalidatingKeeps ==
  ASSUME IInv, Invalidating, UNCHANGED <<intent, dispatch, receipts, moves, forge, author>>
  PROVE  /\ MoveInv' /\ SettledOnce' /\ ReservationInv' /\ ReceiptInv' /\ AuthorInv'
         /\ CommittedIsPublished' /\ (claims' # <<>> => intent' # None)
         /\ \A g \in DOMAIN claims : PhaseInv(g)' /\ SettledInv(g)'
         /\ \A r \in Recoverers : recoverer'[r] = recoverer[r] => WorkInv(r)'
<1>1. UNCHANGED <<intent, receipts, moves, remote, author, Reservations, Latest>>
  BY Zenon DEF forge, Reservations, Invalidating
<1>2. ASSUME NEW g \in DOMAIN claims
      PROVE  /\ claims[g].disposition \notin Active => claims'[g] = claims[g]
             /\ claims[g].disposition \in Active /\ claims'[g] # claims[g] =>
                  claims'[g].disposition = "INVALIDATED" /\ claims'[g].from = claims[g].disposition
             /\ claims'[g].intent = claims[g].intent /\ claims'[g].receipt = claims[g].receipt
             /\ claims'[g].delivered = claims[g].delivered
  BY <1>2, ClaimCount, InvalidatedRow DEF Invalidating
<1>3. \A g \in DOMAIN claims : claims[g].disposition \in Terminal => claims'[g] = claims[g]
  BY <1>2, Zenon DEF Active, Terminal
<1>4. MoveInv' /\ SettledOnce'
  <2>1. \A m \in moves : m.gen \in DOMAIN claims'
    BY Zenon DEF IInv, MoveInv, Invalidating
  <2>2. \A m \in moves : m.to \in Terminal =>
          claims'[m.gen].disposition = m.to /\ TransitionAdmitted(claims'[m.gen], m)
    BY <1>3 DEF IInv, MoveInv, TransitionAdmitted
  <2> QED BY <1>1, <2>1, <2>2, Zenon DEF MoveInv, SettledOnce, IInv
<1>5. ReservationInv' /\ AuthorInv' /\ CommittedIsPublished'
  BY <1>1, Zenon DEF IInv, ReservationInv, AuthorInv, CommittedIsPublished
<1>6. ReceiptInv'
  <2>1. Latest > 0 => Latest \in DOMAIN claims
    BY DEF IInv, TypeOK, Latest
  <2>2. Latest > 0 /\ claims[Latest].disposition \in Terminal => claims'[Latest] = claims[Latest]
    BY <1>3, <2>1, Zenon
  <2> QED BY <1>1, <2>2, Zenon DEF IInv, ReceiptInv, Terminal
<1>7. ASSUME NEW g \in DOMAIN claims PROVE PhaseInv(g)' /\ SettledInv(g)'
  <2>1. PhaseInv(g) /\ SettledInv(g) /\ claims[g] \in ClaimRow
    BY <1>7, ClaimCount, Zenon DEF IInv
  <2>2. Phase(claims'[g]) = Phase(claims[g])
    BY <1>2, Zenon DEF Phase, Active
  <2>3. Delivery(g)' = Delivery(g)
    <3>1. g > 1 => claims'[g - 1] = claims[g - 1]
      <4> SUFFICES ASSUME g > 1 PROVE claims'[g - 1] = claims[g - 1]
        BY Zenon
      <4>1. g - 1 \in DOMAIN claims /\ g - 1 < Latest
        BY <1>7 DEF IInv, TypeOK, Latest
      <4>2. claims[g - 1].disposition = "INVALIDATED"
        BY <4>1, Zenon DEF IInv, BoundInv
      <4> QED BY <1>2, <4>1, <4>2, Zenon DEF Active
    <3>2. Reserved(g)' <=> Reserved(g)
      BY <1>1, Zenon DEF Reserved
    <3> QED BY <3>1, <3>2, Zenon DEF Delivery
  <2>4. claims'[g].disposition = "INVALIDATED" => claims'[g].from \in Active
    BY <1>2, <2>1, Zenon DEF PhaseInv
  <2>5. PhaseInv(g)'
    BY <1>1, <1>2, <2>1, <2>2, <2>3, <2>4, Zenon DEF PhaseInv
  <2>6. SettledInv(g)'
    <3>1. CASE claims[g].disposition \in Terminal
      BY <1>1, <1>3, <2>1, <3>1, Zenon DEF SettledInv, OutboxCorrelated, ReceiptTruth, CanonicalReceipt
    <3>2. CASE claims[g].disposition \notin Terminal
      <4>1. claims'[g].disposition \notin Terminal
        BY <1>2, <3>2, Zenon DEF Terminal
      <4> QED BY <4>1, Zenon DEF SettledInv
    <3> QED BY <3>1, <3>2, Zenon
  <2> QED BY <2>5, <2>6, Zenon
<1>8. \A r \in Recoverers : recoverer'[r] = recoverer[r] => WorkInv(r)'
  BY <1>1, WorkKept, Zenon DEF Invalidating, RefStays
<1>9. claims' # <<>> => intent' # None
  <2>1. claims # <<>> => intent # None
    BY Zenon DEF IInv
  <2>2. claims = <<>> => claims' = <<>>
    BY DEF Invalidating, Latest, IInv, TypeOK
  <2> QED BY <1>1, <2>1, <2>2, Zenon
<1> QED BY <1>4, <1>5, <1>6, <1>7, <1>8, <1>9, Zenon

LEMMA ApplyRefusedInv == ASSUME IInv, NEW r \in Recoverers, ApplyRefused(r) PROVE IInv'
<1> DEFINE g == recoverer[r].gen
<1>1. /\ UNCHANGED <<intent, dispatch, receipts, moves, forge, author, lease, fence, epoch>>
      /\ recoverer[r].pc = "apply" /\ recoverer' = [recoverer EXCEPT ![r] = Resting]
      /\ RefStays
  BY Zenon DEF ApplyRefused, authority, forge, RefStays
<1>2. g \in DOMAIN claims /\ g \in Generations /\ claims[g] \in ClaimRow
  BY <1>1, WorkFacts, ClaimCount, Zenon
<1>3. remote' \in {"absent", "desired", "foreign"} /\ late' \in BOOLEAN
  BY <1>1, Zenon DEF IInv, TypeOK, forge
<1>4. CASE claims' = claims
  <2>1. UNCHANGED <<store, authority, author>>
    BY <1>1, <1>4, Zenon DEF store, authority
  <2>2. RefStays /\ recoverer' = [recoverer EXCEPT ![r] = Resting]
    BY <1>1, Zenon
  <2> QED BY ONLY IInv, r \in Recoverers, <1>3, <2>1, <2>2, RestsInv, Zenon
<1>5. CASE /\ claims' = [claims EXCEPT ![g] = Invalidated(g)]
           /\ claims[g].disposition \in Active /\ ~Current(claims[g])
  <2>1. Invalidating
    <3> DEFINE t == [claims EXCEPT ![g] = Invalidated(g)]
    <3>1. t = [h \in DOMAIN claims |-> t[h]]
      BY Zenon
    <3>2. \A h \in DOMAIN claims : t[h] \in {claims[h], Invalidated(h)}
      BY Zenon
    <3> HIDE DEF t
    <3> QED BY <1>5, <3>1, <3>2, Mapped, Zenon DEF t
  <2>2. g = Latest
    BY <1>2, <1>5, ActiveFacts, Zenon
  <2>3. /\ recoverer' \in [Recoverers -> WorkRow] /\ recoverer'[r] = Resting
        /\ \A q \in Recoverers \ {r} : recoverer'[q] = recoverer[q]
    BY <1>1, RestingRows, Zenon DEF IInv, TypeOK
  <2>4. WorkInv(r)'
    BY <2>3 DEF WorkInv, Resting, Work
  <2>5. TypeOK'
    BY <1>1, <1>3, <2>1, <2>3, Zenon DEF IInv, TypeOK, Invalidating, forge
  <2>6. /\ claims'[g].disposition = "INVALIDATED" /\ claims'[g].fence = claims[g].fence
        /\ claims'[g].epoch = claims[g].epoch
        /\ \A h \in DOMAIN claims : h # g => claims'[h] = claims[h]
    BY <1>2, <1>5, InvalidatedRow, Zenon
  <2>7. \A h \in DOMAIN claims : BoundInv(h)'
    <3> SUFFICES ASSUME NEW h \in DOMAIN claims PROVE BoundInv(h)'
      BY Zenon
    <3>1. BoundInv(h)
      BY Zenon DEF IInv
    <3> QED BY <1>1, <2>1, <2>6, <3>1, Zenon DEF BoundInv, Active, Invalidating
  <2>8. LeaseInv'
    <3>1. BoundInv(g)
      BY <1>2, Zenon DEF IInv
    <3>2. ~(lease # None /\ lease.live /\ lease.epoch = epoch /\ claims[g].fence = lease.fence
             /\ claims[g].epoch = epoch)
      BY <1>5, Zenon DEF Current
    <3> QED BY <1>1, <2>1, <2>2, <2>6, <3>2, Zenon DEF IInv, LeaseInv, Invalidating
  <2> QED BY <1>1, <2>1, <2>3, <2>4, <2>5, <2>7, <2>8, InvalidatingKeeps, Zenon
          DEF IInv, Invalidating
<1>6. \/ claims' = claims
      \/ /\ claims' = [claims EXCEPT ![g] = Invalidated(g)]
         /\ Admitted(claims[g], recoverer[r]) /\ ~Current(claims[g])
  BY Zenon DEF ApplyRefused
<1>7. Admitted(claims[g], recoverer[r]) => claims[g].disposition \in Active
  BY Zenon DEF Admitted
<1> QED BY <1>4, <1>5, <1>6, <1>7, Zenon

-----------------------------------------------------------------------------
(* The lease and the authority.                                             *)

LEMMA LoseLeaseInv == ASSUME IInv, LoseLease PROVE IInv'
<1>1. /\ UNCHANGED <<intent, dispatch, receipts, moves, forge, author, fence, epoch, recoverer>>
      /\ lease # None /\ lease' = None
      /\ claims' = [g \in DOMAIN claims |->
                      IF claims[g].fence = lease.fence THEN Invalidated(g) ELSE claims[g]]
  BY Zenon DEF LoseLease
<1>2. Invalidating
  <2> DEFINE t == [g \in DOMAIN claims |->
                    IF claims[g].fence = lease.fence THEN Invalidated(g) ELSE claims[g]]
  <2>1. t = [h \in DOMAIN claims |-> t[h]] /\ \A h \in DOMAIN claims : t[h] \in {claims[h], Invalidated(h)}
    BY Zenon
  <2> HIDE DEF t
  <2> QED BY <1>1, <2>1, Mapped, Zenon DEF t
<1>3. ASSUME NEW g \in DOMAIN claims
      PROVE  /\ claims'[g].disposition \notin Active /\ claims'[g].fence = claims[g].fence
             /\ claims'[g].epoch = claims[g].epoch
             /\ claims[g].disposition = "INVALIDATED" => claims'[g].disposition = "INVALIDATED"
  <2>1. BoundInv(g)
    BY <1>3, Zenon DEF IInv
  <2>2. CASE claims[g].disposition \in Active
    <3>1. claims'[g] = Invalidated(g)
      BY <1>1, <2>1, <2>2, Zenon DEF BoundInv
    <3> QED BY <2>2, <3>1, ClaimCount, InvalidatedRow, Zenon DEF Active
  <2>3. CASE claims[g].disposition \notin Active
    <3>1. Invalidated(g) = claims[g]
      BY <2>3, Zenon DEF Invalidated
    <3>2. claims'[g] = claims[g]
      BY <1>1, <3>1, Zenon
    <3> QED BY <2>3, <3>2, Zenon
  <2> QED BY <2>2, <2>3, Zenon
<1>4. TypeOK'
  BY <1>1, <1>2, Zenon DEF IInv, TypeOK, Invalidating, forge
<1>5. \A g \in DOMAIN claims : BoundInv(g)'
  BY <1>1, <1>2, <1>3, Zenon DEF IInv, BoundInv, Invalidating
<1>6. LeaseInv'
  <2>1. Latest > 0 => Latest \in DOMAIN claims
    BY DEF IInv, TypeOK, Latest
  <2> QED BY <1>1, <1>2, <1>3, <2>1, Zenon DEF IInv, LeaseInv, Invalidating
<1> QED BY <1>1, <1>2, <1>4, <1>5, <1>6, InvalidatingKeeps, Zenon DEF IInv, Invalidating

LEMMA MoveAuthorityInv == ASSUME IInv, MoveAuthority PROVE IInv'
<1>1. /\ UNCHANGED <<intent, dispatch, receipts, moves, forge, author, fence, lease, recoverer>>
      /\ epoch < MaxEpoch /\ epoch' = epoch + 1
      /\ claims' = [g \in DOMAIN claims |-> Invalidated(g)]
  BY Zenon DEF MoveAuthority
<1>2. Invalidating
  <2> DEFINE t == [g \in DOMAIN claims |-> Invalidated(g)]
  <2>1. t = [h \in DOMAIN claims |-> t[h]] /\ \A h \in DOMAIN claims : t[h] \in {claims[h], Invalidated(h)}
    BY Zenon
  <2> HIDE DEF t
  <2> QED BY <1>1, <2>1, Mapped, Zenon DEF t
<1>3. ASSUME NEW g \in DOMAIN claims
      PROVE  /\ claims'[g].disposition \notin Active /\ claims'[g].fence = claims[g].fence
             /\ claims'[g].epoch = claims[g].epoch
             /\ claims[g].disposition = "INVALIDATED" => claims'[g].disposition = "INVALIDATED"
             /\ claims[g].epoch \in Nat /\ claims[g].epoch <= epoch
  <2>1. BoundInv(g) /\ claims[g] \in ClaimRow /\ claims'[g] = Invalidated(g)
    BY <1>1, <1>3, ClaimCount, Zenon DEF IInv
  <2>2. claims[g].epoch \in Nat /\ claims[g].epoch <= epoch
    BY <2>1 DEF ClaimRow, BoundInv
  <2> QED BY <2>1, <2>2, ClaimCount, InvalidatedRow, Zenon DEF Active
<1>4. epoch \in 1..MaxEpoch /\ epoch' \in 1..MaxEpoch /\ epoch \in Nat
  BY <1>1, DeliveryAssumptions DEF IInv, TypeOK
<1>5. TypeOK'
  BY <1>1, <1>2, <1>4, Zenon DEF IInv, TypeOK, Invalidating, forge
<1>6. \A g \in DOMAIN claims : BoundInv(g)'
  BY <1>1, <1>2, <1>3, <1>4 DEF IInv, BoundInv, Invalidating
<1>7. LeaseInv'
  <2>1. Latest > 0 => Latest \in DOMAIN claims
    BY DEF IInv, TypeOK, Latest
  <2>2. lease # None => lease.epoch \in Nat /\ lease.epoch <= epoch /\ lease.fence = fence
    BY DEF IInv, TypeOK, LeaseInv, LeaseRow
  <2> QED BY <1>1, <1>2, <1>3, <1>4, <2>1, <2>2 DEF IInv, LeaseInv, Invalidating
<1> QED BY <1>1, <1>2, <1>5, <1>6, <1>7, InvalidatingKeeps, Zenon DEF IInv, Invalidating

LEMMA LeaseMovesInv == ASSUME IInv, Expire \/ AcquireLease PROVE IInv'
<1>1. UNCHANGED <<intent, dispatch, receipts, claims, moves, forge, author, epoch, recoverer>>
  BY Zenon DEF Expire, AcquireLease, store
<1>2. Invalidating
  BY <1>1, Zenon DEF Invalidating, IInv, TypeOK, Latest
<1>3. fence \in 1..MaxFence /\ fence \in Nat /\ epoch \in 1..MaxEpoch
  BY DeliveryAssumptions DEF IInv, TypeOK
<1>4. ASSUME NEW g \in DOMAIN claims
      PROVE  BoundInv(g) /\ claims[g].fence \in Nat /\ claims[g].fence <= fence
  <2>1. BoundInv(g) /\ claims[g] \in ClaimRow
    BY <1>4, ClaimCount, Zenon DEF IInv
  <2> QED BY <2>1, DeliveryAssumptions DEF ClaimRow, BoundInv, Recoverers
<1>5. Latest > 0 => Latest \in DOMAIN claims
  BY DEF IInv, TypeOK, Latest
<1>6. CASE Expire
  <2>1. /\ UNCHANGED fence /\ lease # None /\ lease \in LeaseRow
        /\ lease' = [lease EXCEPT !.live = FALSE]
    BY <1>6, Zenon DEF Expire, IInv, TypeOK
  <2>2. lease' \in LeaseRow /\ lease'.fence = lease.fence /\ lease'.epoch = lease.epoch
        /\ ~lease'.live
    <3>1. lease' \in LeaseRow
      BY <2>1, Zenon DEF LeaseRow
    <3>2. lease'.fence = lease.fence /\ lease'.epoch = lease.epoch
      BY <2>1, Zenon DEF LeaseRow
    <3>3. ~lease'.live
      BY <2>1, Zenon DEF LeaseRow
    <3> QED BY <3>1, <3>2, <3>3, Zenon
  <2>3. lease' # None
    BY <2>2, NoneIsApart, Zenon
  <2>4. TypeOK'
    BY <1>1, <2>1, <2>2, Zenon DEF IInv, TypeOK, forge
  <2>5. \A g \in DOMAIN claims : BoundInv(g)'
    BY <1>1, <1>2, <1>4, <2>1, <2>2, <2>3, Zenon DEF BoundInv, Invalidating
  <2>6. LeaseInv'
    BY <1>1, <1>2, <2>1, <2>2, Zenon DEF IInv, LeaseInv, Invalidating
  <2> QED BY <1>1, <1>2, <2>4, <2>5, <2>6, InvalidatingKeeps, Zenon DEF IInv, Invalidating
<1>7. CASE AcquireLease
  <2>1. /\ lease = None /\ fence < MaxFence /\ fence' = fence + 1
        /\ lease' = [fence |-> fence + 1, epoch |-> epoch, live |-> TRUE]
    BY <1>7, Zenon DEF AcquireLease
  <2>2. fence' \in 1..MaxFence
    BY <1>3, <2>1, DeliveryAssumptions
  <2>3. lease' \in LeaseRow /\ lease'.fence = fence' /\ lease'.epoch = epoch
    BY <1>3, <2>1, <2>2, Zenon DEF LeaseRow
  <2>4. TypeOK'
    BY <1>1, <2>2, <2>3, Zenon DEF IInv, TypeOK, forge
  <2>5. \A g \in DOMAIN claims : BoundInv(g)'
    BY <1>1, <1>2, <1>3, <1>4, <2>1 DEF BoundInv, Invalidating
  <2>6. LeaseInv'
    BY <1>1, <1>2, <1>3, <1>4, <1>5, <2>1, <2>3 DEF IInv, LeaseInv, Invalidating
  <2> QED BY <1>1, <1>2, <2>4, <2>5, <2>6, InvalidatingKeeps, Zenon DEF IInv, Invalidating
<1> QED BY <1>6, <1>7, Zenon
-----------------------------------------------------------------------------
(* apply_effect_recovery.                                                   *)

LEMMA TargetRow ==
  ASSUME NEW i \in SnapshotRow, NEW to \in {"RETRY_RESERVED", "READBACK_UNKNOWN"} \cup Terminal
  PROVE  /\ TargetPhase(to, i) \in SnapshotRow
         /\ TargetPhase(to, i).retries = IF to = "RETRY_RESERVED" THEN 1 ELSE i.retries
         /\ to = "RETRY_RESERVED" => TargetPhase(to, i).state = "DISPATCHING"
         /\ to = "READBACK_UNKNOWN" => TargetPhase(to, i).state = "OUTCOME_UNKNOWN"
         /\ to = "ADOPTED" => TargetPhase(to, i).state = "COMMITTED"
         /\ to = "ORPHANED" => TargetPhase(to, i).state = "ORPHANED_REMOTE"
         /\ to = "QUARANTINED" => TargetPhase(to, i).state = "QUARANTINED"
<1>1. CASE to = "RETRY_RESERVED"
  <2>1. TargetPhase(to, i) = [state |-> "DISPATCHING", retries |-> 1] /\ 1 \in 0..1
    BY <1>1 DEF TargetPhase
  <2> QED BY <1>1, <2>1 DEF SnapshotRow, EffectStates
<1>2. CASE to = "READBACK_UNKNOWN"
  <2>1. TargetPhase(to, i) = [i EXCEPT !.state = "OUTCOME_UNKNOWN"]
    BY <1>2, Zenon DEF TargetPhase
  <2> QED BY <1>2, <2>1, Zenon DEF SnapshotRow, EffectStates
<1>3. CASE to = "ADOPTED"
  <2>1. TargetPhase(to, i) = [i EXCEPT !.state = "COMMITTED"]
    BY <1>3, Zenon DEF TargetPhase
  <2> QED BY <1>3, <2>1, Zenon DEF SnapshotRow, EffectStates
<1>4. CASE to = "ORPHANED"
  <2>1. TargetPhase(to, i) = [i EXCEPT !.state = "ORPHANED_REMOTE"]
    BY <1>4, Zenon DEF TargetPhase
  <2> QED BY <1>4, <2>1, Zenon DEF SnapshotRow, EffectStates
<1>5. CASE to = "QUARANTINED"
  <2>1. TargetPhase(to, i) = [i EXCEPT !.state = "QUARANTINED"]
    BY <1>5, Zenon DEF TargetPhase
  <2> QED BY <1>5, <2>1, Zenon DEF SnapshotRow, EffectStates
<1> QED BY <1>1, <1>2, <1>3, <1>4, <1>5, Zenon DEF Terminal

LEMMA UpdatedRow ==
  ASSUME NEW g \in Generations, claims[g] \in ClaimRow, NEW me \in WorkRow,
         me.to \in {"RETRY_RESERVED", "READBACK_UNKNOWN"} \cup Terminal,
         NEW u, u = UpdatedClaim(g, me)
  PROVE  /\ u \in ClaimRow
         /\ u.fence = claims[g].fence /\ u.epoch = claims[g].epoch
         /\ u.disposition = me.to /\ u.receipt = me.receipt /\ u.reason = me.reason
         /\ u.intent = TargetPhase(me.to, claims[g].intent) /\ u.updated = <<g, me.to>>
         /\ u.delivered = IF me.to = "RETRY_RESERVED" THEN <<g, "RETRY_RESERVED">>
                          ELSE claims[g].delivered
         /\ me.to \in Terminal => OutboxCorrelated(u)
<1> DEFINE c == claims[g]
           i == TargetPhase(me.to, c.intent)
           phase == CASE me.to = "RETRY_RESERVED" -> "applied"
                      [] me.to = "ADOPTED" -> "verified"
                      [] me.to = "READBACK_UNKNOWN" -> c.phase
                      [] OTHER -> "unknown"
           delivered == IF me.to = "RETRY_RESERVED" THEN <<g, me.to>> ELSE c.delivered
           acked == IF me.to \in Terminal THEN <<g, me.to>> ELSE c.acked
<1>1. u = [c EXCEPT !.disposition = me.to, !.receipt = me.receipt, !.reason = me.reason,
                    !.intent = i, !.updated = <<g, me.to>>, !.phase = phase,
                    !.delivered = delivered, !.acked = acked]
  BY Zenon DEF UpdatedClaim
<1>2. i \in SnapshotRow
  <2>1. c.intent \in SnapshotRow
    BY Zenon DEF ClaimRow
  <2> QED BY <2>1, TargetRow, Zenon
<1>3. <<g, me.to>> \in Times
  BY Zenon DEF Times, Active, Terminal
<1>4. phase \in Phases /\ (me.to \in Terminal =>
                           phase = IF me.to = "ADOPTED" THEN "verified" ELSE "unknown")
  BY Zenon DEF Phases, ClaimRow, Terminal
<1>5. /\ delivered \in Times \cup {None} /\ acked \in Times \cup {None}
      /\ me.to \in Terminal => acked = <<g, me.to>>
      /\ delivered = IF me.to = "RETRY_RESERVED" THEN <<g, "RETRY_RESERVED">> ELSE c.delivered
  BY <1>3, Zenon DEF ClaimRow
<1>6. /\ me.to \in Active \cup Terminal \cup {"INVALIDATED"} /\ me.receipt \in Verdicts \cup {None}
      /\ me.reason \in Reasons \cup {None}
  BY Zenon DEF WorkRow, Active
<1> HIDE DEF i, phase, delivered, acked
<1>7. u \in ClaimRow
  BY <1>1, <1>2, <1>3, <1>4, <1>5, <1>6, ZenonT(60) DEF ClaimRow
<1>8. /\ u.fence = c.fence /\ u.epoch = c.epoch /\ u.disposition = me.to
      /\ u.receipt = me.receipt /\ u.reason = me.reason /\ u.intent = i
      /\ u.updated = <<g, me.to>> /\ u.phase = phase /\ u.delivered = delivered /\ u.acked = acked
  BY <1>1, ZenonT(40) DEF ClaimRow
<1> QED BY <1>4, <1>5, <1>7, <1>8, Zenon DEF OutboxCorrelated, i

\* The facts about an admitted transition.
LEMMA ApplyFacts ==
  ASSUME IInv, NEW r \in Recoverers, ApplyRecovery(r)
  PROVE  LET me == recoverer[r]
             g == me.gen
             c == claims[g]
         IN /\ me \in WorkRow /\ g \in DOMAIN claims /\ g \in Generations /\ c \in ClaimRow
            /\ g = Latest /\ Latest \in Nat /\ Latest > 0 /\ DOMAIN claims = 1..Latest
            /\ c.disposition = me.disposition /\ c.disposition \in Active
            /\ c.intent = intent /\ intent \in SnapshotRow /\ intent.retries \in 0..1
            /\ me.to \in {"RETRY_RESERVED", "READBACK_UNKNOWN"} \cup Terminal
            /\ Decision(me.to, me.receipt, me.reason) /\ Admitted(c, me)
            /\ (me.to = "RETRY_RESERVED" => c.disposition # "RETRY_RESERVED" /\ intent.retries = 0)
            /\ (me.to = "QUARANTINED" => c.disposition = "READBACK_UNKNOWN")
            /\ (me.to = "QUARANTINED" /\ me.receipt = "ABSENT" => intent.retries = 1)
<1> DEFINE me == recoverer[r]
           g == me.gen
           c == claims[g]
<1>1. me.pc = "apply" /\ c.intent = intent /\ Admitted(c, me)
  BY Zenon DEF ApplyRecovery, Applies
<1>2. me \in WorkRow /\ g \in DOMAIN claims /\ g \in Generations /\ WorkInv(r)
  BY <1>1, WorkFacts, Zenon DEF IInv
<1>3. c \in ClaimRow /\ c.disposition \in Active /\ c.disposition = me.disposition
  BY <1>1, <1>2, ClaimCount, Zenon DEF Admitted
<1>4. g = Latest /\ c.intent \in SnapshotRow /\ c.intent.retries \in 0..1
  BY <1>2, <1>3, ActiveFacts, Zenon
<1>5. Latest \in Nat /\ Latest > 0 /\ DOMAIN claims = 1..Latest
  <2>1. Latest \in Nat /\ DOMAIN claims = 1..Latest
    BY DEF IInv, TypeOK, Latest
  <2> QED BY <1>2, <2>1
<1>6. Decision(me.to, me.receipt, me.reason)
  BY <1>1, <1>2, Zenon DEF WorkInv, Decision
<1>7. me.to \in {"RETRY_RESERVED", "READBACK_UNKNOWN"} \cup Terminal
  BY <1>6, Zenon DEF Decision, Terminal
<1>8. /\ me.to = "RETRY_RESERVED" => c.disposition # "RETRY_RESERVED" /\ c.intent.retries = 0
      /\ me.to = "QUARANTINED" => c.disposition = "READBACK_UNKNOWN"
      /\ me.to = "QUARANTINED" /\ me.receipt = "ABSENT" => c.intent.retries = 1
  <2>1. "ABSENT" # None
    BY NoneIsApart, Zenon DEF Verdicts
  <2> QED BY <1>1, <2>1, Zenon DEF Admitted
<1> QED BY <1>1, <1>2, <1>3, <1>4, <1>5, <1>6, <1>7, <1>8, Zenon

\* No receipt of recovery is there before a transition that writes one, but the
\* absence a reservation was made for.
LEMMA ReceiptsBefore ==
  ASSUME IInv, Latest > 0, claims[Latest].disposition \in Active
  PROVE  \A x \in receipts : x.method = "local-bare" =>
           /\ x.verdict = "ABSENT" /\ ~x.adopted
           /\ \E m \in Reservations : x.at = <<m.gen, "RETRY_RESERVED">>
<1>1. claims[Latest].disposition \notin Terminal /\ claims[Latest].disposition # "QUARANTINED"
  BY Zenon DEF Active, Terminal
<1> QED BY <1>1, Zenon DEF IInv, ReceiptInv

\* The receipt of a transition, as a row, and what its insertion changes.
LEMMA Inserted ==
  ASSUME receipts \subseteq ReceiptRow, NEW v \in Verdicts, NEW adopted \in BOOLEAN,
         NEW at \in Times, receipts' = InsertReceipt(v, adopted, at),
         NEW x, x = [method |-> "local-bare", verdict |-> v, adopted |-> adopted, at |-> at]
  PROVE  /\ receipts \subseteq receipts' /\ receipts' \subseteq ReceiptRow
         /\ x.method = "local-bare" /\ x.verdict = v /\ x.adopted = adopted /\ x.at = at
         /\ \A y \in receipts' : y \in receipts \/ y = x
         /\ x \in receipts' \/ \E y \in receipts : y.method = "local-bare" /\ y.verdict = v
         /\ (\E y \in receipts : y.method = "local-bare" /\ y.verdict = v) => receipts' = receipts
<1>1. x \in ReceiptRow
  BY Zenon DEF ReceiptRow
<1>2. x.method = "local-bare" /\ x.verdict = v /\ x.adopted = adopted /\ x.at = at
  BY Zenon
<1>3. receipts' = receipts \cup
        (IF \E y \in receipts : y.method = "local-bare" /\ y.verdict = v THEN {} ELSE {x})
  BY Zenon DEF InsertReceipt
<1> QED BY <1>1, <1>2, <1>3, Zenon

LEMMA ApplyRecoveryInv == ASSUME IInv, NEW r \in Recoverers, ApplyRecovery(r) PROVE IInv'
<1>1. PICK me, g, u, m :
        /\ me = recoverer[r] /\ g = me.gen /\ u = UpdatedClaim(g, me)
        /\ m = [gen |-> g, from |-> me.disposition, to |-> me.to, receipt |-> me.receipt,
                reason |-> me.reason]
  BY Zenon
<1>2. /\ claims' = [claims EXCEPT ![g] = u] /\ intent' = u.intent /\ moves' = moves \cup {m}
      /\ receipts' = IF me.receipt = None THEN receipts
                     ELSE InsertReceipt(me.receipt, me.to = "ADOPTED", u.updated)
      /\ recoverer' = [recoverer EXCEPT ![r] = AfterApply(me)]
      /\ UNCHANGED <<dispatch, remote, late, lease, fence, epoch, author>>
  BY <1>1, Zenon DEF ApplyRecovery, forge, authority
<1>3. /\ me \in WorkRow /\ g \in DOMAIN claims /\ g \in Generations /\ claims[g] \in ClaimRow
      /\ g = Latest /\ Latest \in Nat /\ Latest > 0 /\ DOMAIN claims = 1..Latest
      /\ claims[g].disposition = me.disposition /\ claims[g].disposition \in Active
      /\ claims[g].intent = intent /\ intent \in SnapshotRow /\ intent.retries \in 0..1
      /\ me.to \in {"RETRY_RESERVED", "READBACK_UNKNOWN"} \cup Terminal
      /\ Decision(me.to, me.receipt, me.reason)
      /\ me.to = "RETRY_RESERVED" => me.disposition # "RETRY_RESERVED" /\ intent.retries = 0
      /\ me.to = "QUARANTINED" => me.disposition = "READBACK_UNKNOWN"
      /\ me.to = "QUARANTINED" /\ me.receipt = "ABSENT" => intent.retries = 1
  BY <1>1, ApplyFacts, ZenonT(40)
<1>4. /\ u \in ClaimRow /\ u.fence = claims[g].fence /\ u.epoch = claims[g].epoch
      /\ u.disposition = me.to /\ u.receipt = me.receipt /\ u.reason = me.reason
      /\ u.intent = TargetPhase(me.to, intent) /\ u.updated = <<g, me.to>>
      /\ u.delivered = IF me.to = "RETRY_RESERVED" THEN <<g, "RETRY_RESERVED">>
                       ELSE claims[g].delivered
      /\ me.to \in Terminal => OutboxCorrelated(u)
  BY <1>1, <1>3, UpdatedRow
<1>5. /\ claims' \in Seq(ClaimRow) /\ Latest' = Latest /\ DOMAIN claims' = DOMAIN claims
      /\ claims'[g] = u /\ \A h \in DOMAIN claims : h # g => claims'[h] = claims[h]
  <2>1. claims \in Seq(ClaimRow) /\ g \in 1..Len(claims)
    BY <1>3, Zenon DEF IInv, TypeOK, Latest
  <2> QED BY <1>2, <1>3, <1>4, <2>1 DEF Latest
<1>6. /\ m.gen = g /\ m.from = me.disposition /\ m.to = me.to /\ m.receipt = me.receipt
      /\ m.reason = me.reason /\ m \in MoveRow
  <2>1. /\ me.disposition \in Active /\ me.to \in Active \cup Terminal
        /\ me.receipt \in Verdicts \cup {None} /\ me.reason \in Reasons \cup {None}
    BY <1>3, Zenon DEF WorkRow, Active
  <2> QED BY <1>1, <1>3, <2>1, Zenon DEF MoveRow
<1>7. /\ intent' \in SnapshotRow /\ intent' \in IntentRow
      /\ intent'.retries = IF me.to = "RETRY_RESERVED" THEN 1 ELSE intent.retries
      /\ me.to = "RETRY_RESERVED" => intent'.state = "DISPATCHING"
      /\ me.to = "READBACK_UNKNOWN" => intent'.state = "OUTCOME_UNKNOWN"
      /\ me.to = "ADOPTED" => intent'.state = "COMMITTED"
      /\ me.to = "ORPHANED" => intent'.state = "ORPHANED_REMOTE"
      /\ me.to = "QUARANTINED" => intent'.state = "QUARANTINED"
  BY <1>2, <1>3, <1>4, TargetRow, SnapshotIsIntent
<1>8. intent' # None /\ RefStays
  BY <1>2, <1>7, NoneIsApart, Zenon DEF RefStays
<1>9. /\ \A n \in Reservations' : n \in Reservations \/ (n = m /\ me.to = "RETRY_RESERVED")
      /\ Reservations \subseteq Reservations' /\ (me.to = "RETRY_RESERVED" => m \in Reservations')
      /\ me.to # "RETRY_RESERVED" => Reservations' = Reservations
  BY <1>2, <1>6, Zenon DEF Reservations
<1>10. me.to = "RETRY_RESERVED" => Reservations = {}
  <2> SUFFICES ASSUME me.to = "RETRY_RESERVED", NEW n \in Reservations PROVE FALSE
    BY Zenon
  <2>1. intent.retries >= 1
    BY Zenon DEF IInv, ReservationInv
  <2> QED BY <1>3, <2>1
<1>11. \A x \in receipts : x.method = "local-bare" =>
         /\ x.verdict = "ABSENT" /\ ~x.adopted
         /\ \E n \in Reservations : x.at = <<n.gen, "RETRY_RESERVED">>
  BY <1>3, ReceiptsBefore, Zenon
\* The receipts: none is written without a verdict, and one of recovery is there with one.
<1>12. PICK x : x = [method |-> "local-bare", verdict |-> me.receipt,
                     adopted |-> (me.to = "ADOPTED"), at |-> u.updated]
  BY Zenon
<1>13. me.receipt # None =>
         /\ receipts \subseteq receipts' /\ receipts' \subseteq ReceiptRow
         /\ x.method = "local-bare" /\ x.verdict = me.receipt
         /\ x.adopted = (me.to = "ADOPTED") /\ x.at = <<g, me.to>>
         /\ \A y \in receipts' : y \in receipts \/ y = x
         /\ x \in receipts' \/ \E y \in receipts : y.method = "local-bare" /\ y.verdict = me.receipt
         /\ (\E y \in receipts : y.method = "local-bare" /\ y.verdict = me.receipt)
              => receipts' = receipts
  <2> SUFFICES ASSUME me.receipt # None PROVE <1>13!2
    BY Zenon
  <2>1. me.receipt \in Verdicts /\ u.updated \in Times /\ (me.to = "ADOPTED") \in BOOLEAN
    BY <1>3, <1>4, Zenon DEF WorkRow, ClaimRow
  <2>2. receipts \subseteq ReceiptRow
    BY Zenon DEF IInv, TypeOK
  <2>3. receipts' = InsertReceipt(me.receipt, me.to = "ADOPTED", u.updated)
    BY <1>2, Zenon
  <2>4. PICK a \in BOOLEAN, t \in Times : a = (me.to = "ADOPTED") /\ t = u.updated
    BY <2>1, Zenon
  <2>5. receipts' = InsertReceipt(me.receipt, a, t)
    BY <2>3, <2>4, Zenon
  <2>6. x = [method |-> "local-bare", verdict |-> me.receipt, adopted |-> a, at |-> t]
    BY <1>12, <2>4, Zenon
  <2>7. /\ receipts \subseteq receipts' /\ receipts' \subseteq ReceiptRow
        /\ x.method = "local-bare" /\ x.verdict = me.receipt /\ x.adopted = a /\ x.at = t
        /\ \A y \in receipts' : y \in receipts \/ y = x
        /\ x \in receipts' \/ \E y \in receipts : y.method = "local-bare" /\ y.verdict = me.receipt
        /\ (\E y \in receipts : y.method = "local-bare" /\ y.verdict = me.receipt)
              => receipts' = receipts
    BY ONLY <2>1, <2>2, <2>5, <2>6, Inserted
  <2> QED BY <1>4, <2>4, <2>7, Zenon
<1>14. receipts \subseteq receipts' /\ receipts' \subseteq ReceiptRow
  BY <1>2, <1>13, Zenon DEF IInv, TypeOK
<1>15. TypeOK'
  <2>1. AfterApply(me) \in WorkRow
    <3>1. CASE me.to = "RETRY_RESERVED"
      <4>1. AfterApply(me) = Work("recheck", g, me.to, 1) /\ 1 \in 0..1
        BY <1>1, <3>1 DEF AfterApply
      <4> QED BY <1>3, <3>1, <4>1, WorkRows, Zenon DEF RecovererSteps, Active
    <3>2. CASE me.to = "READBACK_UNKNOWN" /\ me.again
      <4>1. AfterApply(me) = Work("read", g, me.to, me.retries) /\ me.retries \in 0..1
        BY <1>1, <1>3, <3>2, Zenon DEF AfterApply, WorkRow
      <4> QED BY <1>3, <3>2, <4>1, WorkRows, Zenon DEF RecovererSteps, Active
    <3>3. CASE me.to # "RETRY_RESERVED" /\ ~(me.to = "READBACK_UNKNOWN" /\ me.again)
      BY <3>3, RestingRows, Zenon DEF AfterApply
    <3> QED BY <3>1, <3>2, <3>3, Zenon
  <2>2. recoverer' \in [Recoverers -> WorkRow]
    BY <1>2, <2>1, Zenon DEF IInv, TypeOK
  <2>3. moves' \subseteq MoveRow
    BY <1>2, <1>6, Zenon DEF IInv, TypeOK
  <2> QED BY <1>2, <1>5, <1>7, <1>14, <2>2, <2>3, Zenon DEF IInv, TypeOK
<1>16. WorkInv(r)' /\ \A q \in Recoverers : q # r => WorkInv(q)'
  <2>1. recoverer'[r] = AfterApply(me) /\ \A q \in Recoverers : q # r => recoverer'[q] = recoverer[q]
    BY <1>2, Zenon DEF IInv, TypeOK
  <2>2. \A q \in Recoverers : q # r => WorkInv(q)'
    BY <1>5, <1>8, <2>1, WorkKept, Zenon
  <2>3. WorkInv(r)'
    <3>1. CASE me.to = "RETRY_RESERVED"
      <4>1. recoverer'[r] = Work("recheck", g, me.to, 1)
        BY <1>1, <2>1, <3>1, Zenon DEF AfterApply
      <4> QED BY <1>3, <1>5, <3>1, <4>1 DEF WorkInv, Work, Active
    <3>2. CASE me.to = "READBACK_UNKNOWN" /\ me.again
      <4>1. recoverer'[r] = Work("read", g, me.to, me.retries)
        BY <1>1, <2>1, <3>2, Zenon DEF AfterApply
      <4> QED BY <1>3, <1>5, <3>2, <4>1 DEF WorkInv, Work, Active
    <3>3. CASE me.to # "RETRY_RESERVED" /\ ~(me.to = "READBACK_UNKNOWN" /\ me.again)
      <4>1. recoverer'[r] = Resting
        BY <2>1, <3>3, Zenon DEF AfterApply
      <4> QED BY <4>1 DEF WorkInv, Resting, Work
    <3> QED BY <3>1, <3>2, <3>3, Zenon
  <2> QED BY <2>2, <2>3, Zenon
<1>17. AuthorInv'
  <2>1. intent'.retries <= 1
    BY <1>3, <1>7
  <2>2. \A y : y \in receipts => y \in receipts'
    BY <1>14, Zenon
  <2> QED BY <1>2, <1>8, <2>1, <2>2, ZenonT(40) DEF IInv, AuthorInv
<1>18. CommittedIsPublished'
  <2>1. CASE me.to = "ADOPTED"
    <3>1. me.receipt = "MATCH" /\ remote = "desired" /\ me.receipt # None
      BY <1>3, <2>1, NoneIsApart, Zenon DEF Decision, Verdicts
    <3>2. \E y \in receipts' : y.verdict = "MATCH"
      BY <1>13, <1>14, <3>1, Zenon
    <3> QED BY <1>2, <1>7, <2>1, <3>1, <3>2, Zenon DEF CommittedIsPublished
  <2>2. CASE me.to = "ORPHANED"
    BY <1>2, <1>3, <1>7, <2>2, Zenon DEF Decision, CommittedIsPublished
  <2>3. CASE me.to \in {"RETRY_RESERVED", "READBACK_UNKNOWN", "QUARANTINED"}
    BY <1>7, <2>3, Zenon DEF CommittedIsPublished
  <2> QED BY <1>3, <2>1, <2>2, <2>3, Zenon DEF Terminal
<1>19. LeaseInv'
  <2>1. me.to # "INVALIDATED"
    BY <1>3, Zenon DEF Terminal
  <2> QED BY <1>2, <1>3, <1>4, <1>5, <2>1, Zenon DEF IInv, LeaseInv
<1>20. MoveInv' /\ SettledOnce'
  <2>1. \A n \in moves : n.to \in Terminal => n.gen # g
    BY <1>3, Zenon DEF IInv, MoveInv, Active, Terminal
  <2>2. \A n \in moves : n.gen \in DOMAIN claims
    BY Zenon DEF IInv, MoveInv
  <2>3. SettledOnce'
    BY <1>2, <1>6, <2>1, Zenon DEF IInv, SettledOnce
  <2>4. me.to \in Terminal => TransitionAdmitted(u, m)
    BY <1>2, <1>3, <1>4, <1>6, <1>7, Zenon DEF TransitionAdmitted, Decision, Terminal
  <2>5. \A n \in moves : n.to \in Terminal =>
          claims'[n.gen].disposition = n.to /\ TransitionAdmitted(claims'[n.gen], n)
    BY <1>5, <2>1, <2>2, Zenon DEF IInv, MoveInv
  <2> QED BY <1>2, <1>3, <1>4, <1>5, <1>6, <2>2, <2>3, <2>4, <2>5 DEF MoveInv
<1>21. ReservationInv'
  <2>1. CASE me.to = "RETRY_RESERVED"
    <3>1. Reservations' = {m} /\ me.receipt = "ABSENT" /\ me.reason = None /\ me.receipt # None
      BY <1>3, <1>9, <1>10, <2>1, NoneIsApart, Zenon DEF Decision, Verdicts
    <3>2. x \in receipts'
      BY <1>10, <1>11, <1>13, <2>1, <3>1, Zenon
    <3>3. x = [method |-> "local-bare", verdict |-> "ABSENT", adopted |-> FALSE,
               at |-> <<g, "RETRY_RESERVED">>]
      <4>1. (me.to = "ADOPTED") = FALSE
        BY <2>1, Zenon
      <4> QED BY <1>4, <1>12, <2>1, <3>1, <4>1, Zenon
    <3>4. me.disposition \in {"CLAIMED", "READBACK_UNKNOWN"}
      BY <1>3, <2>1, Zenon DEF Active
    <3>5. [method |-> "local-bare", verdict |-> "ABSENT", adopted |-> FALSE,
           at |-> <<m.gen, "RETRY_RESERVED">>] \in receipts'
      BY <1>6, <3>2, <3>3, Zenon
    <3>6. intent'.retries >= 1
      BY <1>7, <2>1
    <3> QED BY <1>6, <1>8, <3>1, <3>4, <3>5, <3>6, Zenon DEF ReservationInv
  <2>2. CASE me.to # "RETRY_RESERVED"
    BY <1>7, <1>8, <1>9, <1>14, <2>2, Zenon DEF IInv, ReservationInv
  <2> QED BY <2>1, <2>2, Zenon
<1>22. ReceiptInv'
  <2> SUFFICES ASSUME NEW y \in receipts', y.method = "local-bare"
               PROVE  IF y.verdict = "ABSENT"
                      THEN /\ ~y.adopted
                           /\ \/ \E n \in Reservations' : y.at = <<n.gen, "RETRY_RESERVED">>
                              \/ /\ Reservations' = {} /\ Latest' > 0
                                 /\ u.disposition = "QUARANTINED" /\ u.receipt = "ABSENT"
                                 /\ u.reason = "RETRY_SPENT_AFTER_ABSENCE" /\ y.at = u.updated
                      ELSE Latest' > 0 /\ u.disposition \in Terminal
    BY <1>3, <1>5, Zenon DEF ReceiptInv
  <2>1. CASE y \in receipts
    BY <1>9, <1>11, <2>1, Zenon
  <2>2. CASE y \notin receipts
    <3>1. /\ me.receipt # None /\ y = x /\ y.verdict = me.receipt /\ y.at = <<g, me.to>>
          /\ y.adopted = (me.to = "ADOPTED")
      BY <1>2, <1>13, <2>2, Zenon
    <3>2. CASE me.to \in {"ADOPTED", "ORPHANED"}
      BY <1>3, <1>4, <1>5, <3>1, <3>2, Zenon DEF Decision, Terminal
    <3>3. CASE me.to = "RETRY_RESERVED"
      BY <1>3, <1>6, <1>9, <3>1, <3>3, Zenon DEF Decision
    <3>4. CASE me.to = "QUARANTINED"
      <4>1. me.receipt = "ABSENT" /\ me.reason = "RETRY_SPENT_AFTER_ABSENCE"
        BY <1>3, <3>1, <3>4, Zenon DEF Decision
      <4>2. Reservations' = {}
        <5> SUFFICES ASSUME NEW n \in Reservations PROVE FALSE
          BY <1>9, <3>4, Zenon
        <5>1. [method |-> "local-bare", verdict |-> "ABSENT", adopted |-> FALSE,
               at |-> <<n.gen, "RETRY_RESERVED">>] \in receipts
          BY Zenon DEF IInv, ReservationInv
        <5>2. \E z \in receipts : z.method = "local-bare" /\ z.verdict = me.receipt
          BY <4>1, <5>1, Zenon
        <5> QED BY <1>13, <2>2, <3>1, <5>2, Zenon
      <4> QED BY <1>3, <1>4, <1>5, <3>1, <3>4, <4>1, <4>2, ZenonT(40)
    <3>5. CASE me.to = "READBACK_UNKNOWN"
      BY <1>3, <3>1, <3>5, Zenon DEF Decision
    <3> QED BY <1>3, <3>2, <3>3, <3>4, <3>5, Zenon DEF Terminal
  <2> QED BY <2>1, <2>2, Zenon
<1>23. ASSUME NEW h \in DOMAIN claims, h # g PROVE BoundInv(h)' /\ PhaseInv(h)' /\ SettledInv(h)'
  <2>1. BoundInv(h) /\ PhaseInv(h) /\ claims'[h] = claims[h] /\ h \in 1..Latest /\ h < Latest
    BY <1>3, <1>5, <1>23 DEF IInv
  <2>2. claims[h].disposition = "INVALIDATED"
    BY <2>1, Zenon DEF BoundInv
  <2>3. BoundInv(h)'
    BY <1>2, <1>5, <2>1, Zenon DEF BoundInv
  <2>4. Delivery(h)' = Delivery(h)
    <3>1. h > 1 => claims'[h - 1] = claims[h - 1]
      BY <1>3, <1>5, <2>1
    <3>2. Reserved(h)' <=> Reserved(h)
      BY <1>6, <1>9, <1>23, Zenon DEF Reserved
    <3> QED BY <3>1, <3>2, Zenon DEF Delivery
  <2>5. PhaseInv(h)'
    BY <1>9, <2>1, <2>4, Zenon DEF PhaseInv
  <2>6. SettledInv(h)'
    BY <2>1, <2>2, Zenon DEF SettledInv, Terminal
  <2> QED BY <2>3, <2>5, <2>6, ZenonT(40)
<1>24. BoundInv(g)'
  BY <1>2, <1>3, <1>4, <1>5, Zenon DEF IInv, BoundInv, Active
<1>25. PhaseInv(g)'
  <2>1. PhaseInv(g) /\ me.to # "INVALIDATED" /\ Phase(u) = me.to
    BY <1>3, <1>4, Zenon DEF IInv, Phase, Terminal
  <2>2. u.delivered = Delivery(g)'
    <3>1. g > 1 => claims'[g - 1] = claims[g - 1]
      BY <1>3, <1>5
    <3>2. Reserved(g)' <=> (Reserved(g) \/ me.to = "RETRY_RESERVED")
      BY <1>6, <1>9, Zenon DEF Reserved
    <3>3. claims[g].delivered = Delivery(g)
      BY <2>1, Zenon DEF PhaseInv
    <3> QED BY <1>4, <3>1, <3>2, <3>3, Zenon DEF Delivery
  <2>3. me.to \in Active =>
          /\ SnapshotFits(me.to, u.intent)
          /\ u.receipt = IF me.to = "RETRY_RESERVED" THEN "ABSENT" ELSE None
    BY <1>2, <1>3, <1>4, <1>7 DEF SnapshotFits, Decision, Active, Terminal
  <2>4. me.to = "RETRY_RESERVED" => Reservations' # {}
    BY <1>9, Zenon
  <2> QED BY <1>4, <1>5, <2>1, <2>2, <2>3, <2>4, Zenon DEF PhaseInv
<1>26. SettledInv(g)'
  <2> SUFFICES ASSUME me.to \in Terminal PROVE SettledInv(g)'
    BY <1>4, <1>5, Zenon DEF SettledInv
  <2>1. \E n \in moves' : n.gen = g /\ n.to = me.to
    BY <1>2, <1>6, Zenon
  <2>2. ReceiptTruth(g)'
    <3> SUFFICES ASSUME me.receipt # None
                 PROVE  \E y \in receipts' :
                          /\ y.method = "local-bare" /\ y.verdict = me.receipt
                          /\ y.adopted = (me.to = "ADOPTED")
                          /\ me.to # "QUARANTINED" => y.at = <<g, me.to>>
      BY <1>4, <1>5, ZenonT(40) DEF ReceiptTruth, CanonicalReceipt
    <3>1. CASE x \in receipts'
      BY <1>13, <3>1, Zenon
    <3>2. CASE \E y \in receipts : y.method = "local-bare" /\ y.verdict = me.receipt
      <4>1. PICK y \in receipts : y.method = "local-bare" /\ y.verdict = me.receipt
        BY <3>2, Zenon
      <4>2. me.receipt = "ABSENT" /\ ~y.adopted
        BY <1>11, <4>1, Zenon
      <4>3. me.to = "QUARANTINED"
        BY <1>3, <4>2, Zenon DEF Decision, Terminal
      <4>4. y \in ReceiptRow /\ y \in receipts'
        BY <1>14, Zenon
      <4>5. y.adopted = (me.to = "ADOPTED")
        BY <4>2, <4>3, <4>4, Zenon DEF ReceiptRow
      <4> QED BY <4>1, <4>3, <4>4, <4>5, Zenon
    <3> QED BY <1>13, <3>1, <3>2, Zenon
  <2>3. /\ intent' = u.intent /\ intent'.retries <= 1
        /\ intent'.state = CASE u.disposition = "ADOPTED" -> "COMMITTED"
                            [] u.disposition = "ORPHANED" -> "ORPHANED_REMOTE"
                            [] OTHER -> "QUARANTINED"
    BY <1>2, <1>3, <1>4, <1>7 DEF Terminal
  <2> QED BY <1>4, <1>5, <2>1, <2>2, <2>3, Zenon DEF SettledInv
<1>27. \A h \in DOMAIN claims' : BoundInv(h)' /\ PhaseInv(h)' /\ SettledInv(h)'
  BY <1>5, <1>23, <1>24, <1>25, <1>26, Zenon
<1> QED BY <1>8, <1>15, <1>16, <1>17, <1>18, <1>19, <1>20, <1>21, <1>22, <1>27, Zenon DEF IInv
-----------------------------------------------------------------------------
(* The theorems.                                                            *)

LEMMA NextInv == IInv /\ [Next]_vars => IInv'
<1> SUFFICES ASSUME IInv, [Next]_vars PROVE IInv'
  BY Zenon
<1>1. CASE UNCHANGED vars
  <2>1. /\ UNCHANGED <<intent, dispatch, receipts, claims, moves, authority, recoverer, remote, late>>
        /\ UNCHANGED author /\ RefStays
    BY <1>1, Zenon DEF vars, store, forge, RefStays
  <2>2. AuthorInv'
    BY <2>1, Zenon DEF IInv, AuthorInv
  <2> QED BY <2>1, <2>2, GoInv, Zenon DEF IInv, TypeOK
<1>2. ASSUME NEW r \in Recoverers, RecoveryStep(r) PROVE IInv'
  BY <1>2, ClaimAgainInv, ClaimEffectInv, ReadRefInv, ApplyRecoveryInv, ApplyRefusedInv, RecheckInv,
     RecoveryPushInv, Zenon DEF RecoveryStep
<1> QED BY <1>1, <1>2, AuthorStepInv, AuthorCrashInv, RecovererCrashInv, ForgeInv, LeaseMovesInv,
           LoseLeaseInv, MoveAuthorityInv, Zenon DEF Next

LEMMA Inductive == Spec => []IInv
<1> QED BY InitInv, NextInv, PTL DEF Spec

-----------------------------------------------------------------------------
(* Who spends the retry.                                                    *)

Reading == {"reconcile", "retry"}

\* The author and recovery may spend the retry one each: recovery's is then a
\* reservation the author's reading of the count missed.
RetryInv ==
  /\ intent # None /\ intent.retries > 1 => intent.retries = 2 /\ Reservations # {}
  /\ author.pc \in Reading =>
       /\ intent.retries > 1 => author.retries > 1
       /\ author.retries = 0 /\ intent.retries # 0 => Reservations # {}

\* The count stays, and so does what the author read of it.
CountStays ==
  /\ intent' # None => \/ intent # None /\ intent'.retries = intent.retries
                       \/ intent'.retries = 0
  /\ author'.pc \in Reading => \/ author.pc \in Reading /\ author'.retries = author.retries
                               \/ intent' = intent /\ author'.retries = intent.retries

LEMMA AtRestIsIdle == AtRest.pc = "idle"
BY DEF AtRest

LEMMA CountStaysInv ==
  ASSUME IInv, RetryInv, IInv', CountStays, Reservations # {} => Reservations' # {}
  PROVE  RetryInv'
<1>1. intent # None => intent.retries \in Nat
  BY DEF IInv, TypeOK, IntentRow
<1>2. author.pc \in Reading => intent # None
  BY Zenon DEF IInv, AuthorInv, Reading
<1>3. author'.pc \in Reading => intent' # None
  BY Zenon DEF IInv, AuthorInv, Reading
<1>4. intent' # None /\ intent'.retries > 1 => intent'.retries = 2 /\ Reservations' # {}
  BY <1>1 DEF RetryInv, CountStays
<1>5. ASSUME author'.pc \in Reading
      PROVE  /\ intent'.retries > 1 => author'.retries > 1
             /\ author'.retries = 0 /\ intent'.retries # 0 => Reservations' # {}
  BY <1>1, <1>2, <1>3, <1>5 DEF RetryInv, CountStays
<1> QED BY <1>4, <1>5, Zenon DEF RetryInv

LEMMA TransitsCount ==
  ASSUME NEW to, NEW pc, Transits(to, pc), intent # None, to # "DISPATCHING", pc \notin Reading,
         author \in AuthorRow
  PROVE  CountStays
<1>1. \/ intent' = [state |-> to, retries |-> intent.retries] /\ author' = [author EXCEPT !.pc = pc]
      \/ intent' = intent /\ author' = AtRest
  BY Zenon DEF Transits, TransitionEffect, AuthorGoes
<1>2. intent'.retries = intent.retries
  BY <1>1
<1>3. author'.pc \notin Reading
  <2>1. author'.pc \in {pc, "idle"}
    BY <1>1 DEF AtRest, AuthorRow
  <2> QED BY <2>1, Zenon DEF Reading
<1> QED BY <1>2, <1>3, Zenon DEF CountStays

\* reconcile spends the retry it read as unspent.
LEMMA ReconcileRetriesRetry ==
  ASSUME IInv, RetryInv, IInv', ReconcileRetries
  PROVE  RetryInv'
<1>1. /\ intent # None /\ author.retries = 0 /\ author.pc = "retry"
      /\ intent.retries <= 1 /\ Transits("DISPATCHING", "push") /\ Reservations' = Reservations
  BY Zenon DEF ReconcileRetries, IInv, AuthorInv, Reservations
<1>2. intent.retries \in Nat /\ (intent.retries # 0 => Reservations # {})
  BY <1>1 DEF IInv, TypeOK, IntentRow, RetryInv, Reading
<1>3. intent'.retries \in {intent.retries, intent.retries + 1} /\ author'.pc \notin Reading
  <2>1. CASE Edge(intent.state, "DISPATCHING")
    <3>1. /\ author' = [author EXCEPT !.pc = "push"]
          /\ intent' = [state |-> "DISPATCHING",
                        retries |-> IF intent.state = "OUTCOME_UNKNOWN"
                                    THEN intent.retries + 1 ELSE intent.retries]
      BY <1>1, <2>1, Zenon DEF Transits, TransitionEffect, AuthorGoes
    <3>2. author'.pc = "push"
      BY <3>1, Zenon DEF IInv, TypeOK, AuthorRow
    <3> QED BY <3>1, <3>2 DEF Reading
  <2>2. CASE ~Edge(intent.state, "DISPATCHING")
    <3>1. intent' = intent /\ author'.pc = "idle"
      BY <1>1, <2>2, AtRestIsIdle, Zenon DEF Transits
    <3> QED BY <3>1 DEF Reading
  <2> QED BY <2>1, <2>2, Zenon
<1> QED BY <1>1, <1>2, <1>3 DEF RetryInv

LEMMA AuthorStepRetry ==
  ASSUME IInv, RetryInv, IInv', AuthorStep
  PROVE  RetryInv'
<1>0. author.pc # "idle" => intent # None
  BY Zenon DEF IInv, AuthorInv
<1>1. CASE ReconcileRetries
  BY <1>1, ReconcileRetriesRetry
<1>2. ASSUME CountStays, UNCHANGED moves PROVE RetryInv'
  <2>1. Reservations' = Reservations
    BY <1>2, Zenon DEF Reservations
  <2> QED BY <1>2, <2>1, CountStaysInv, Zenon
<1>3. CASE AuthorAccepted \/ AuthorVerifies \/ AuthorCommits \/ AuthorQuarantines \/ ResponseLost
  <2>1. PICK to \in EffectStates \ {"DISPATCHING"}, pc \in {"look", "commit", "mark"} :
          Transits(to, pc) /\ intent # None /\ UNCHANGED moves
    BY <1>0, <1>3, Zenon DEF AuthorAccepted, AuthorVerifies, AuthorCommits, AuthorQuarantines,
                             ResponseLost, EffectStates
  <2> QED BY <1>2, <2>1, TransitsCount, Zenon DEF Reading, IInv, TypeOK
<1>4. CASE Propose
  <2>1. intent'.retries = 0 /\ author' = author /\ author.pc = "idle" /\ UNCHANGED moves
    BY <1>4, Zenon DEF Propose
  <2> QED BY <1>2, <2>1, Zenon DEF CountStays, Reading
<1>5. CASE Authorize \/ Dispatch
  <2>1. /\ intent # None /\ intent'.retries = intent.retries /\ UNCHANGED moves
        /\ author'.pc \in {"enqueue", "applied"}
    <3>1. intent # None /\ intent.state # "OUTCOME_UNKNOWN" /\ UNCHANGED moves
      BY <1>5, Zenon DEF Authorize, Dispatch
    <3>2. intent'.retries = intent.retries
      BY <1>5, <3>1 DEF Authorize, Dispatch, TransitionEffect
    <3> QED BY <1>5, <3>1, <3>2, Zenon DEF Authorize, Dispatch, AuthorGoes, IInv, TypeOK, AuthorRow
  <2> QED BY <1>2, <2>1, Zenon DEF CountStays, Reading
<1>6. CASE OutboxEnqueue \/ MarkApplied \/ AuthorPush \/ AuthorLooks \/ RecordReceipt \/ OutboxMark
  <2>1. intent' = intent /\ UNCHANGED moves
    BY <1>6, Zenon DEF OutboxEnqueue, MarkApplied, AuthorPush, AuthorLooks, RecordReceipt, OutboxMark,
                       store
  <2>2. author'.pc \notin Reading
    <3>1. \/ author' = AtRest
          \/ \E pc \in AuthorSteps \ Reading : author' = [author EXCEPT !.pc = pc]
          \/ \E v : author' = [author EXCEPT !.pc = "record", !.verdict = v]
      BY <1>6, Zenon DEF OutboxEnqueue, MarkApplied, AuthorPush, AuthorLooks, RecordReceipt, OutboxMark,
                         AuthorGoes, AuthorSteps, Reading
    <3>2. author \in AuthorRow
      BY Zenon DEF IInv, TypeOK
    <3>3. \A v : [author EXCEPT !.pc = "record", !.verdict = v].pc = "record"
      BY <3>2, Zenon DEF AuthorRow
    <3>4. \A pc \in AuthorSteps \ Reading : [author EXCEPT !.pc = pc].pc = pc
      BY <3>2, Zenon DEF AuthorRow
    <3>5. author'.pc \in {"idle", "record"} \cup (AuthorSteps \ Reading)
      BY <3>1, <3>3, <3>4, AtRestIsIdle, Zenon
    <3> QED BY <3>5, Zenon DEF Reading
  <2> QED BY <1>2, <2>1, <2>2, Zenon DEF CountStays
<1>7. CASE Reconcile
  <2>1. intent' = intent /\ author'.retries = intent.retries /\ UNCHANGED moves /\ intent # None
    BY <1>7, Zenon DEF Reconcile, AtRest, store
  <2> QED BY <1>2, <2>1, Zenon DEF CountStays
<1>8. CASE ReconcileReads
  <2>1. intent' = intent /\ UNCHANGED moves /\ author.pc = "reconcile"
    BY <1>8, Zenon DEF ReconcileReads, store
  <2>2. author'.pc \in Reading => author'.retries = author.retries
    <3>1. \/ author' = [author EXCEPT !.pc = "retry"]
          \/ author'.pc = "idle" \/ author'.pc = "record"
      <4>1. \/ author' = AtRest \/ author' = [author EXCEPT !.pc = "retry"]
            \/ author' = [AtRest EXCEPT !.pc = "record", !.verdict = Verdict,
                                        !.adopted = (remote = "desired")]
        BY <1>8, Zenon DEF ReconcileReads, AuthorGoes
      <4>2. [AtRest EXCEPT !.pc = "record", !.verdict = Verdict,
                           !.adopted = (remote = "desired")].pc = "record"
        BY Zenon DEF AtRest
      <4> QED BY <4>1, <4>2, AtRestIsIdle, Zenon
    <3>2. author \in AuthorRow
      BY Zenon DEF IInv, TypeOK
    <3> QED BY <3>1, <3>2 DEF AuthorRow, Reading
  <2> QED BY <1>2, <2>1, <2>2, Zenon DEF CountStays, Reading
<1> QED BY <1>1, <1>3, <1>4, <1>5, <1>6, <1>7, <1>8, Zenon DEF AuthorStep

\* What an admitted transition makes of the intent.
LEMMA UpdatedIntent ==
  ASSUME NEW g, NEW me, claims[g] \in ClaimRow
  PROVE  UpdatedClaim(g, me).intent = TargetPhase(me.to, claims[g].intent)
<1> DEFINE c == claims[g]
           i == TargetPhase(me.to, c.intent)
           phase == CASE me.to = "RETRY_RESERVED" -> "applied"
                      [] me.to = "ADOPTED" -> "verified"
                      [] me.to = "READBACK_UNKNOWN" -> c.phase
                      [] OTHER -> "unknown"
           delivered == IF me.to = "RETRY_RESERVED" THEN <<g, me.to>> ELSE c.delivered
           acked == IF me.to \in Terminal THEN <<g, me.to>> ELSE c.acked
<1>1. UpdatedClaim(g, me) =
        [c EXCEPT !.disposition = me.to, !.receipt = me.receipt, !.reason = me.reason,
                  !.intent = i, !.updated = <<g, me.to>>, !.phase = phase,
                  !.delivered = delivered, !.acked = acked]
  BY Zenon DEF UpdatedClaim
<1> HIDE DEF i, phase, delivered, acked
<1>2. UpdatedClaim(g, me).intent = i
  BY <1>1, Zenon DEF ClaimRow
<1> QED BY <1>2, Zenon DEF i

LEMMA ApplyRecoveryRetry ==
  ASSUME IInv, RetryInv, IInv', NEW r \in Recoverers, ApplyRecovery(r)
  PROVE  RetryInv'
<1> DEFINE me == recoverer[r]
           m == [gen |-> me.gen, from |-> me.disposition, to |-> me.to,
                 receipt |-> me.receipt, reason |-> me.reason]
<1>1. /\ author' = author /\ moves' = moves \cup {m}
      /\ intent' = UpdatedClaim(me.gen, me).intent
  BY Zenon DEF ApplyRecovery
<1>2. /\ me \in WorkRow /\ me.gen \in Generations /\ claims[me.gen] \in ClaimRow
      /\ claims[me.gen].intent = intent /\ intent \in SnapshotRow /\ intent.retries \in 0..1
      /\ me.to \in {"RETRY_RESERVED", "READBACK_UNKNOWN"} \cup Terminal
  BY ApplyFacts, Zenon
<1>3. intent' = TargetPhase(me.to, intent)
  <2>1. UpdatedClaim(me.gen, me).intent = TargetPhase(me.to, claims[me.gen].intent)
    BY <1>2, UpdatedIntent, Zenon
  <2> QED BY <1>1, <1>2, <2>1, Zenon
<1>4. intent'.retries = IF me.to = "RETRY_RESERVED" THEN 1 ELSE intent.retries
  BY <1>2, <1>3, TargetRow
<1>5. Reservations \subseteq Reservations' /\ (me.to = "RETRY_RESERVED" => Reservations' # {})
  <2>1. me.to = "RETRY_RESERVED" => m \in Reservations'
    BY <1>1, Zenon DEF Reservations
  <2> QED BY <1>1, <2>1, Zenon DEF Reservations
<1> HIDE DEF m, me
<1>6. intent # None
  BY <1>2, SnapshotIsIntent, NoneIsApart, Zenon
<1> QED BY <1>1, <1>2, <1>4, <1>5, <1>6 DEF RetryInv

LEMMA RetryStep == IInv /\ RetryInv /\ IInv' /\ [Next]_vars => RetryInv'
<1> SUFFICES ASSUME IInv, RetryInv, IInv', [Next]_vars PROVE RetryInv'
  BY Zenon
<1>1. ASSUME UNCHANGED <<intent, moves>>, author' \in {author, AtRest} PROVE RetryInv'
  <2>1. CountStays /\ Reservations' = Reservations
    <3>1. author' = author \/ author'.pc = "idle"
      BY <1>1, AtRestIsIdle, Zenon
    <3> QED BY <1>1, <3>1 DEF CountStays, Reservations, Reading
  <2> QED BY <2>1, CountStaysInv, Zenon
<1>2. ASSUME NEW r \in Recoverers, RecoveryStep(r) PROVE RetryInv'
  <2>1. CASE ApplyRecovery(r)
    BY <2>1, ApplyRecoveryRetry
  <2>2. CASE ClaimEffect(r)
    <3>1. /\ intent' = [intent EXCEPT !.state = "OUTCOME_UNKNOWN"] /\ UNCHANGED <<moves, author>>
          /\ intent # None
      BY <2>2, Zenon DEF ClaimEffect, NewClaim, Claimable
    <3>2. intent'.retries = intent.retries
      BY <3>1, Zenon DEF IInv, TypeOK, IntentRow
    <3>3. CountStays /\ Reservations' = Reservations
      BY <3>1, <3>2, Zenon DEF CountStays, Reservations
    <3> QED BY <3>3, CountStaysInv, Zenon
  <2>3. CASE ClaimAgain(r) \/ ReadRef(r) \/ ApplyRefused(r) \/ RecheckClaim(r) \/ RecoveryPush(r)
    <3>1. UNCHANGED <<intent, moves, author>>
      BY <2>3, Zenon DEF ClaimAgain, ReadRef, ApplyRefused, RecheckClaim, RecoveryPush, store
    <3> QED BY <1>1, <3>1, Zenon
  <2> QED BY <1>2, <2>1, <2>2, <2>3, Zenon DEF RecoveryStep
<1>3. ASSUME NEW r \in Recoverers, RecovererCrashes(r) PROVE RetryInv'
  BY <1>1, <1>3, Zenon DEF RecovererCrashes, store
<1>4. CASE AuthorCrashes
  BY <1>1, <1>4, Zenon DEF AuthorCrashes, store
<1>5. CASE UNCHANGED vars \/ LatePushLands \/ ForeignWrite \/ Expire \/ LoseLease \/ AcquireLease
           \/ MoveAuthority
  <2>1. UNCHANGED <<intent, moves, author>>
    BY <1>5, Zenon DEF vars, LatePushLands, ForeignWrite, Expire, LoseLease, AcquireLease,
                       MoveAuthority, store
  <2> QED BY <1>1, <2>1, Zenon
<1> QED BY <1>2, <1>3, <1>4, <1>5, AuthorStepRetry, Zenon DEF Next

LEMMA RetryInductive == Spec => [](IInv /\ RetryInv)
<1>1. Init => RetryInv
  <2> SUFFICES ASSUME Init PROVE RetryInv
    BY Zenon
  <2>1. intent = None /\ author.pc = "idle"
    BY Zenon DEF Init, AtRest
  <2> QED BY <2>1 DEF RetryInv, Reading
<1>2. IInv /\ RetryInv /\ [Next]_vars => (IInv /\ RetryInv)'
  BY NextInv, RetryStep, Zenon
<1> QED BY <1>1, <1>2, InitInv, PTL DEF Spec
-----------------------------------------------------------------------------

\* The rows the broker and recovery write have the types of their tables: no
\* claim, at birth (claim_effect_recovery) or after a transition
\* (apply_effect_recovery), carries a retry count its CHECK of 0..1 rejects.
\* The intent's own count has no CHECK, and two interleaved readers may both
\* spend it (RecoveryStaysExclusive).
THEOREM DeliveryTypes == Spec => []TypeOK
<1>1. IInv => TypeOK
  BY Zenon DEF IInv
<1> QED BY <1>1, Inductive, PTL

\* However often a lease changes hands and the authority moves: recovery
\* (effect_recovery: claim, apply, and the triggers of 0023) has one owner,
\* bound to the lease and the authority in force, and reserves one retry.  The
\* intent counts two only where the author's reconcile read the count before
\* that reservation; no claim has settled by then.
THEOREM RecoveryStaysExclusive == Spec => []RecoveryIsExclusive
<1>1. IInv => OneReservation
  BY Zenon DEF IInv, ReservationInv, OneReservation
<1>2. IInv => ActiveClaimIsBound
  <2> SUFFICES ASSUME IInv, NEW g \in DOMAIN claims
               PROVE  /\ claims[g].disposition \in Active =>
                           /\ g = Latest /\ lease # None
                           /\ claims[g].fence = lease.fence /\ claims[g].epoch = epoch
                      /\ g < Latest => claims[g].disposition = "INVALIDATED"
    BY Zenon DEF ActiveClaimIsBound
  <2> QED BY ActiveFacts, Zenon DEF IInv, BoundInv
<1>3. IInv /\ RetryInv => RetryIsSharedOnce
  <2> SUFFICES ASSUME IInv, RetryInv, intent # None, intent.retries > 1
               PROVE  /\ intent.retries = 2 /\ Reservations # {}
                      /\ \A g \in DOMAIN claims : claims[g].disposition \notin Terminal
                      /\ author.pc \in {"reconcile", "retry"} => author.retries > 1
    BY Zenon DEF RetryIsSharedOnce
  <2>1. intent.retries = 2 /\ Reservations # {}
    BY Zenon DEF RetryInv
  <2>2. author.pc \in {"reconcile", "retry"} => author.retries > 1
    BY Zenon DEF RetryInv, Reading
  <2>3. ASSUME NEW g \in DOMAIN claims, claims[g].disposition \in Terminal PROVE FALSE
    <3>1. intent.retries <= 1
      BY <2>3, Zenon DEF IInv, SettledInv
    <3> QED BY <2>1, <3>1
  <2> QED BY <2>1, <2>2, <2>3, Zenon
<1> QED BY <1>1, <1>2, <1>3, RetryInductive, PTL DEF RecoveryIsExclusive

\* A settled claim and the reservation before it.
LEMMA Lineage ==
  ASSUME IInv, NEW g \in DOMAIN claims, claims[g].disposition \in Terminal
  PROVE  RetryLineage(g)
<1> DEFINE c == claims[g]
<1>1. /\ g \in 1..Latest /\ Latest \in Nat \ {0} /\ c \in ClaimRow /\ BoundInv(g) /\ PhaseInv(g)
      /\ SettledInv(g) /\ DOMAIN claims = 1..Latest
  <2>1. DOMAIN claims = 1..Latest
    BY DEF IInv, TypeOK, Latest
  <2> QED BY <2>1, ClaimCount, Zenon DEF IInv
<1>2. g = Latest
  BY <1>1 DEF BoundInv, Terminal
<1>3. /\ c.intent = intent /\ intent.retries <= 1 /\ intent.retries \in 0..1
      /\ c.delivered = Delivery(g)
  BY <1>1, Zenon DEF SettledInv, PhaseInv, ClaimRow, SnapshotRow
<1>4. ASSUME NEW m \in Reservations
      PROVE  /\ m.from \in {"CLAIMED", "READBACK_UNKNOWN"} /\ m.gen <= g /\ m.gen \in DOMAIN claims
             /\ m.receipt = "ABSENT" /\ m.reason = None /\ intent.retries >= 1
             /\ claims[m.gen].delivered = <<m.gen, "RETRY_RESERVED">>
             /\ [method |-> "local-bare", verdict |-> "ABSENT", adopted |-> FALSE,
                 at |-> <<m.gen, "RETRY_RESERVED">>] \in receipts
  <2>1. m.gen \in DOMAIN claims
    BY Zenon DEF IInv, MoveInv, Reservations
  <2>2. PhaseInv(m.gen) /\ Reserved(m.gen)
    BY <2>1, Zenon DEF IInv, Reserved
  <2>3. claims[m.gen].delivered = <<m.gen, "RETRY_RESERVED">>
    BY <2>2, Zenon DEF PhaseInv, Delivery
  <2>4. m.gen <= g
    BY <1>1, <1>2, <2>1
  <2> QED BY <2>1, <2>3, <2>4, Zenon DEF IInv, ReservationInv
<1>5. \A x \in CanonicalReceipt("ABSENT") :
        /\ ~x.adopted
        /\ \/ \E m \in Reservations : x.at = <<m.gen, "RETRY_RESERVED">>
           \/ /\ Reservations = {} /\ c.disposition = "QUARANTINED" /\ c.receipt = "ABSENT"
              /\ c.reason = "RETRY_SPENT_AFTER_ABSENCE" /\ x.at = c.updated
  BY <1>2, Zenon DEF IInv, ReceiptInv, CanonicalReceipt
<1>6. ReservationCanonical(g)
  <2>1. \A a, b \in Reservations : a = b
    BY Zenon DEF IInv, ReservationInv
  <2>2. ASSUME NEW m \in Reservations
        PROVE  \E x \in CanonicalReceipt("ABSENT") : ~x.adopted /\ claims[m.gen].delivered = x.at
    <3>1. PICK x : x = [method |-> "local-bare", verdict |-> "ABSENT", adopted |-> FALSE,
                        at |-> <<m.gen, "RETRY_RESERVED">>]
      BY Zenon
    <3>2. x.method = "local-bare" /\ x.verdict = "ABSENT" /\ ~x.adopted
          /\ x.at = <<m.gen, "RETRY_RESERVED">>
      BY <3>1, Zenon
    <3>3. x \in CanonicalReceipt("ABSENT")
      BY <1>4, <3>1, <3>2, Zenon DEF CanonicalReceipt
    <3> QED BY <1>4, <3>2, <3>3, Zenon
  <2> QED BY <1>4, <2>1, <2>2, Zenon DEF ReservationCanonical
<1>7. BirthCanonical(g)
  <2> SUFFICES ASSUME g > 1
               PROVE  /\ claims[g - 1].disposition = "INVALIDATED"
                      /\ claims[g - 1].receipt =
                           IF claims[g - 1].from = "RETRY_RESERVED" THEN "ABSENT" ELSE None
    BY Zenon DEF BirthCanonical
  <2>1. g - 1 \in DOMAIN claims /\ g - 1 < Latest
    BY <1>1, <1>2
  <2>2. BoundInv(g - 1) /\ PhaseInv(g - 1)
    BY <2>1, Zenon DEF IInv
  <2> QED BY <2>1, <2>2, Zenon DEF BoundInv, PhaseInv, Phase
<1>8. g > 1 /\ claims[g - 1].from = "RETRY_RESERVED" => Reservations # {}
  <2> SUFFICES ASSUME g > 1, claims[g - 1].from = "RETRY_RESERVED" PROVE Reservations # {}
    BY Zenon
  <2>1. g - 1 \in DOMAIN claims /\ g - 1 < Latest
    BY <1>1, <1>2
  <2>2. BoundInv(g - 1) /\ PhaseInv(g - 1)
    BY <2>1, Zenon DEF IInv
  <2> QED BY <2>1, <2>2, Zenon DEF BoundInv, PhaseInv, Phase
<1>9. CASE intent.retries = 0
  <2>1. Reservations = {}
    BY <1>4, <1>9
  <2>2. c.delivered = None
    BY <1>3, <1>8, <2>1, Zenon DEF Delivery, Reserved
  <2>3. CanonicalReceipt("ABSENT") = {}
    <3> SUFFICES ASSUME NEW x \in CanonicalReceipt("ABSENT") PROVE FALSE
      BY Zenon
    <3>1. c.disposition = "QUARANTINED" /\ c.reason = "RETRY_SPENT_AFTER_ABSENCE"
      BY <1>5, <2>1, Zenon
    <3>2. PICK m \in moves : m.gen = g /\ m.to = c.disposition
      BY <1>1, Zenon DEF SettledInv
    <3>3. TransitionAdmitted(c, m)
      BY <3>2, Zenon DEF IInv, MoveInv
    <3> QED BY <1>3, <1>9, <3>1, <3>3, NoneIsApart DEF TransitionAdmitted, Reasons
  <2> QED BY <1>3, <1>6, <1>7, <1>9, <2>1, <2>2, <2>3, Zenon DEF RetryLineage
<1>10. CASE intent.retries = 1
  <2>1. c.delivered = RetryDelivery(g)
    <3>1. CASE Reserved(g)
      <4>1. PICK m \in Reservations : m.gen = g
        BY <3>1, Zenon DEF Reserved
      <4>2. \A x \in CanonicalReceipt("ABSENT") : x.at = <<g, "RETRY_RESERVED">>
        BY <1>5, <4>1, Zenon DEF IInv, ReservationInv
      <4>3. CanonicalReceipt("ABSENT") # {}
        BY <1>6, <4>1, Zenon DEF ReservationCanonical
      <4>4. (CHOOSE x \in CanonicalReceipt("ABSENT") : TRUE) \in CanonicalReceipt("ABSENT")
        BY <4>3, Zenon
      <4> QED BY <1>3, <3>1, <4>2, <4>4, Zenon DEF Delivery, RetryDelivery, Reserved
    <3>2. CASE ~Reserved(g)
      BY <1>3, <3>2, Zenon DEF Delivery, RetryDelivery, Reserved
    <3> QED BY <3>1, <3>2, Zenon
  <2>2. \/ Reservations # {} \/ CanonicalReceipt("ABSENT") = {}
        \/ /\ c.reason = "RETRY_SPENT_AFTER_ABSENCE" /\ c.receipt = "ABSENT"
           /\ \A x \in CanonicalReceipt("ABSENT") : ~x.adopted /\ x.at = c.updated
    BY <1>5, Zenon
  <2> QED BY <1>3, <1>6, <1>7, <1>8, <1>10, <2>1, <2>2, Zenon DEF RetryLineage
<1> QED BY <1>3, <1>9, <1>10

\* What recovery settles passes validate_terminal_truth (read/terminal.rs) in every
\* later state, and a settled outcome is true of the ref: whatever the author,
\* successors, crashes, late pushes and foreign writers interleave.
THEOREM SettledStaysTrue == Spec => []SettledIsTrue
<1>1. IInv => SettledTruthIsReadable
  <2> SUFFICES ASSUME IInv, NEW g \in DOMAIN claims, claims[g].disposition \in Terminal
               PROVE  TerminalTruth(g)
    BY Zenon DEF SettledTruthIsReadable
  <2> DEFINE S == {m \in moves : m.gen = g /\ m.to = claims[g].disposition}
  <2>1. SettledInv(g) /\ RetryLineage(g)
    BY Lineage, Zenon DEF IInv
  <2>2. PICK m \in moves : m.gen = g /\ m.to = claims[g].disposition
    BY <2>1, Zenon DEF SettledInv
  <2>3. m \in S /\ S = {m}
    BY <2>2, Zenon DEF IInv, SettledOnce
  <2>4. \A n \in S : TransitionAdmitted(claims[g], n)
    BY Zenon DEF IInv, MoveInv
  <2> QED BY <2>1, <2>3, <2>4, Zenon DEF TerminalTruth, SettledInv
<1>2. IInv => CommittedIsPublished
  BY Zenon DEF IInv
<1> QED BY <1>1, <1>2, Inductive, PTL DEF SettledIsTrue
=============================================================================
