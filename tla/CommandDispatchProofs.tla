------------------------ MODULE CommandDispatchProofs ------------------------
(***************************************************************************)
(* Proofs about the command queue, for any number of commands, runner      *)
(* incarnations, receipts and authority moves: the four tables a command   *)
(* is spread over always agree, the quota is never overdrawn, commands are *)
(* handed out in submission order, and the tables implement the lifecycle  *)
(* of CommandLifecycle.                                                    *)
(***************************************************************************)
EXTENDS CommandDispatch, FiniteSetTheorems, TLAPS

Blank == [submitted |-> 0, claimed |-> 0, reconciled |-> <<>>]

\* What one row of the queue keeps to while others come and go.
RowInv(c) ==
    /\ commands[c] = None => /\ outbox[c] = None /\ claims[c] = None
                             /\ audit[c] = Blank
    /\ commands[c] # None =>
         /\ outbox[c] # None
         /\ outbox[c].seq <= Cardinality(Recorded)
         /\ commands[c].phase = "pending" => commands[c].response = None
         /\ commands[c].response = "offline" =>
              /\ commands[c].phase # "pending" /\ outbox[c].phase # "pending"
              /\ claims[c] = None

\* The reserved units, and those of the recorded runs, are finite sets.
UnitsFinite ==
    /\ IsFiniteSet(UnitsOf(reservations, ReservationIds))
    /\ IsFiniteSet(UnitsOf(Units, Coding \cap Recorded))

IInv ==
    /\ TypeOK
    /\ IsFiniteSet(Recorded)
    /\ \A c \in Commands : RowInv(c)
    /\ ProjectionTruth
    /\ UnitsFinite /\ QuotaHolds
    /\ DispatchIsOrderly
-----------------------------------------------------------------------------
(* Sums as numbers of units.                                                *)

\* The units of one x are as many as its amount.
LEMMA UnitsOfOne ==
  ASSUME NEW x, NEW n \in Nat
  PROVE  IsFiniteSet({x} \X (1..n)) /\ Cardinality({x} \X (1..n)) = n
<1>1. IsFiniteSet({x}) /\ Cardinality({x}) = 1
  BY FS_Singleton, Zenon
<1>2. IsFiniteSet(1..n) /\ Cardinality(1..n) = n
  BY FS_Interval
<1> DEFINE A == {x}
           B == 1..n
<1> HIDE DEF A, B
<1>3. IsFiniteSet(A) /\ IsFiniteSet(B) /\ Cardinality(A) = 1 /\ Cardinality(B) = n
  BY <1>1, <1>2, Zenon DEF A, B
<1>4. IsFiniteSet(A \X B) /\ Cardinality(A \X B) = Cardinality(A) * Cardinality(B)
  BY <1>3, FS_Product, Zenon
<1>5. IsFiniteSet(A \X B) /\ Cardinality(A \X B) = n
  BY <1>3, <1>4
<1> QED BY <1>5, Zenon DEF A, B

\* Adding to a finite set of units those of a fresh x adds its amount.
LEMMA AddUnits ==
  ASSUME NEW U, IsFiniteSet(U), NEW x, NEW n \in Nat, NEW W,
         \A i \in 1..n : <<x, i>> \notin U,
         W = U \cup ({x} \X (1..n))
  PROVE  IsFiniteSet(W) /\ Cardinality(W) = Cardinality(U) + n
<1> DEFINE V == {x} \X (1..n)
<1>1. IsFiniteSet(V) /\ Cardinality(V) = n
  BY UnitsOfOne, Zenon
<1>2. U \cap V = {} /\ W = U \cup V
  OBVIOUS
<1> HIDE DEF V
<1>3. Cardinality(U \cap V) = 0
  BY <1>2, FS_EmptySet, Zenon
<1>4. Cardinality(U) \in Nat
  BY FS_CardinalityType, Zenon
<1>5. /\ IsFiniteSet(U \cup V)
      /\ Cardinality(U \cup V) = Cardinality(U) + Cardinality(V) - Cardinality(U \cap V)
  BY <1>1, FS_Union, Zenon
<1>6. IsFiniteSet(W) /\ Cardinality(W) = Cardinality(U) + Cardinality(V) - 0
  BY <1>2, <1>3, <1>5, Zenon
<1> QED BY <1>1, <1>4, <1>6

\* A set that takes in a new x.
LEMMA SumWithNew ==
  ASSUME NEW f, NEW S, NEW x, x \notin S, f[x] \in Nat,
         IsFiniteSet(UnitsOf(f, S))
  PROVE  /\ IsFiniteSet(UnitsOf(f, S \cup {x}))
         /\ SumOf(f, S \cup {x}) = SumOf(f, S) + f[x]
<1>1. UnitsOf(f, S \cup {x}) = UnitsOf(f, S) \cup ({x} \X (1..f[x]))
  BY Zenon DEF UnitsOf
<1>2. \A i \in 1..f[x] : <<x, i>> \notin UnitsOf(f, S)
  BY DEF UnitsOf
<1>3. /\ IsFiniteSet(UnitsOf(f, S \cup {x}))
      /\ Cardinality(UnitsOf(f, S \cup {x})) = Cardinality(UnitsOf(f, S)) + f[x]
  BY <1>1, <1>2, AddUnits, Zenon
<1> QED BY <1>3, Zenon DEF SumOf

\* An amount that was zero and becomes n.
LEMMA SumWithAmount ==
  ASSUME NEW S, NEW f \in [S -> Nat], NEW x \in S, f[x] = 0, NEW n \in Nat,
         IsFiniteSet(UnitsOf(f, S)),
         NEW g, g[x] = n, \A y \in S : y # x => g[y] = f[y]
  PROVE  IsFiniteSet(UnitsOf(g, S)) /\ SumOf(g, S) = SumOf(f, S) + n
<1>1. UnitsOf(g, S) = UnitsOf(f, S) \cup ({x} \X (1..n))
  <2>1. ASSUME NEW u \in UnitsOf(g, S) PROVE u \in UnitsOf(f, S) \cup ({x} \X (1..n))
    BY Zenon DEF UnitsOf
  <2>2. {x} \X (1..n) \subseteq UnitsOf(g, S)
    BY Zenon DEF UnitsOf
  <2>3. ASSUME NEW u \in UnitsOf(f, S) PROVE u \in UnitsOf(g, S)
    <3>1. PICK y \in S : u \in {y} \X (1..f[y])
      BY <2>3, Zenon DEF UnitsOf
    <3>2. y # x
      BY <3>1
    <3> QED BY <3>1, <3>2, Zenon DEF UnitsOf
  <2> QED BY <2>1, <2>2, <2>3, Zenon
<1>2. \A i \in 1..n : <<x, i>> \notin UnitsOf(f, S)
  BY DEF UnitsOf
<1>3. /\ IsFiniteSet(UnitsOf(g, S))
      /\ Cardinality(UnitsOf(g, S)) = Cardinality(UnitsOf(f, S)) + n
  <2> DEFINE U == UnitsOf(f, S)
             W == UnitsOf(g, S)
  <2> HIDE DEF U, W
  <2>1. /\ IsFiniteSet(U) /\ W = U \cup ({x} \X (1..n))
        /\ \A i \in 1..n : <<x, i>> \notin U
    BY <1>1, <1>2, Zenon DEF U, W
  <2>2. IsFiniteSet(W) /\ Cardinality(W) = Cardinality(U) + n
    BY ONLY <2>1, n \in Nat, AddUnits, Zenon
  <2> QED BY <2>2, Zenon DEF U, W
<1> QED BY <1>3, Zenon DEF SumOf

\* The units of a part are no more than those of the whole.
LEMMA SumOfPart ==
  ASSUME NEW f, NEW S, NEW T \in SUBSET S, IsFiniteSet(UnitsOf(f, S))
  PROVE  /\ SumOf(f, T) \in Nat /\ SumOf(f, S) \in Nat
         /\ SumOf(f, T) <= SumOf(f, S)
         /\ IsFiniteSet(UnitsOf(f, T))
<1>1. UnitsOf(f, T) \in SUBSET UnitsOf(f, S)
  BY Zenon DEF UnitsOf
<1> QED BY <1>1, FS_Subset, FS_CardinalityType, Zenon DEF SumOf
-----------------------------------------------------------------------------
(* The invariant holds initially and in every step.                         *)

LEMMA InitInv == Init => IInv
<1> SUFFICES ASSUME Init PROVE IInv
  BY Zenon
<1> USE DEF Init
<1>1. Recorded = {} /\ IsFiniteSet(Recorded)
  BY FS_EmptySet, Zenon DEF Recorded
<1>2. TypeOK
  <2>1. \A c \in Commands : audit[c] \in [submitted : 0..1, claimed : 0..1,
                                          reconciled : Seq(Responses)]
    OBVIOUS
  <2> QED BY <2>1, CommandAssumptions DEF TypeOK
<1>3. \A c \in Commands : RowInv(c)
  BY Zenon DEF RowInv, Blank
<1>4. ProjectionTruth
  BY <1>1, Zenon DEF ProjectionTruth
<1>5. UnitsOf(reservations, ReservationIds) = {} /\ UnitsOf(Units, Coding \cap Recorded) = {}
      /\ UnitsOf(Units, (Coding \ Tasks) \cap Recorded) = {}
  BY <1>1 DEF UnitsOf
<1>6. UnitsFinite /\ QuotaHolds
  <2>1. IsFiniteSet({}) /\ Cardinality({}) = 0
    BY FS_EmptySet, Zenon
  <2>2. /\ SumOf(reservations, ReservationIds) = 0
        /\ SumOf(Units, Coding \cap Recorded) = 0
        /\ SumOf(Units, (Coding \ Tasks) \cap Recorded) = 0
    BY <1>5, <2>1, Zenon DEF SumOf
  <2>3. UnitsFinite
    BY <1>5, <2>1, Zenon DEF UnitsFinite
  <2>4. \A n : n = 0 => n <= Quota
    BY CommandAssumptions
  <2>5. QuotaHolds
    BY <2>2, <2>4, Zenon DEF QuotaHolds, UsedQuota
  <2> QED BY <2>3, <2>5, Zenon
<1>7. DispatchIsOrderly
  BY <1>1, Zenon DEF DispatchIsOrderly, OpenClaimIsCurrent, DispatchedInOrder
<1> QED BY <1>1, <1>2, <1>3, <1>4, <1>6, <1>7, Zenon DEF IInv

\* A step that records no command and reserves nothing keeps the sums.
LEMMA QuotaFrame ==
  ASSUME IInv, Recorded' = Recorded, UNCHANGED reservations
  PROVE  IsFiniteSet(Recorded)' /\ UnitsFinite' /\ QuotaHolds'
<1> QED BY Zenon DEF IInv, UnitsFinite, QuotaHolds, UsedQuota, SumOf, UnitsOf

\* The rows of a recorded command are rows.
LEMMA RowTypes ==
  ASSUME IInv, NEW c \in Commands
  PROVE  /\ commands[c] # None => commands[c] \in CommandRow
         /\ commands[c] # None => outbox[c] \in OutboxRow /\ outbox[c] # None
         /\ claims[c] # None => claims[c] \in ClaimRow /\ commands[c] # None
         /\ audit[c] \in [submitted : 0..1, claimed : 0..1, reconciled : Seq(Responses)]
         /\ c \in Recorded <=> commands[c] # None
<1> QED BY Zenon DEF IInv, TypeOK, RowInv, Recorded

LEMMA IssueStep ==
  ASSUME IInv, NEW c \in Commands, IssueNonce(c)
  PROVE  IInv'
<1>1. Recorded' = Recorded
  BY Zenon DEF IssueNonce, Recorded
<1>2. TypeOK'
  <2>1. [request |-> c, consumed |-> FALSE] \in NonceRow
    BY Zenon DEF IssueNonce, NonceRow
  <2> QED BY <2>1, Zenon DEF IssueNonce, IInv, TypeOK
<1>3. \A d \in Commands : RowInv(d)'
  BY <1>1, Zenon DEF IssueNonce, IInv, RowInv
<1>4. ProjectionTruth'
  <2> SUFFICES ASSUME NEW d \in Recorded
               PROVE  /\ commands[d].response # "offline" => Projects(d)'
                      /\ Replays(d)'
    BY <1>1, Zenon DEF ProjectionTruth, IssueNonce
  <2>1. d \in Commands /\ Replays(d) /\ (commands[d].response # "offline" => Projects(d))
    BY Zenon DEF Recorded, IInv, ProjectionTruth
  <2>2. Projects(d) => Projects(d)'
    BY Zenon DEF IssueNonce, Projects, ProjectsPending, ProjectsSettled
  <2>3. d \in Coding => Nonce[d] # Nonce[c]
    <3>1. d \in Coding => [request |-> d, consumed |-> TRUE] \in NonceRow
      BY Zenon DEF NonceRow
    <3> QED BY <2>1, <3>1, NoneIsNoRow, Zenon DEF Replays, IssueNonce
  <2>4. Replays(d)'
    BY <2>1, <2>3, Zenon DEF Replays, IssueNonce, IInv, TypeOK, Nonces
  <2> QED BY <2>1, <2>2, <2>4, Zenon
<1>5. DispatchIsOrderly'
  BY <1>1, Zenon DEF IssueNonce, IInv, DispatchIsOrderly, OpenClaimIsCurrent, DispatchedInOrder, Current
<1>6. IsFiniteSet(Recorded)' /\ UnitsFinite' /\ QuotaHolds'
  BY <1>1, QuotaFrame, Zenon DEF IssueNonce
<1> QED BY <1>2, <1>3, <1>4, <1>5, <1>6, Zenon DEF IInv

LEMMA MoveStep ==
  ASSUME IInv, MoveAuthority
  PROVE  IInv'
<1>1. Recorded' = Recorded
  BY Zenon DEF MoveAuthority, Recorded
<1>2. \A c \in Commands :
        /\ claims'[c] = None <=> claims[c] = None
        /\ claims[c] # None =>
             /\ claims'[c] \in ClaimRow
             /\ claims'[c].disposition =
                  IF claims[c].disposition = "CLAIMED" THEN "INVALIDATED"
                                                       ELSE claims[c].disposition
  BY RowTypes, NoneIsNoRow DEF MoveAuthority, Invalidated, ClaimRow, Dispositions
<1>3. TypeOK'
  <2>1. claims' \in [Commands -> ClaimRow \cup {None}]
    BY <1>2, Zenon DEF MoveAuthority
  <2> QED BY <2>1, CommandAssumptions DEF MoveAuthority, IInv, TypeOK
<1>4. \A d \in Commands : RowInv(d)'
  BY <1>1, <1>2, Zenon DEF MoveAuthority, IInv, RowInv
<1>5. ProjectionTruth'
  <2> SUFFICES ASSUME NEW d \in Recorded
               PROVE  /\ commands[d].response # "offline" => Projects(d)'
                      /\ Replays(d)'
    BY <1>1, Zenon DEF ProjectionTruth, MoveAuthority
  <2>1. d \in Commands /\ Replays(d) /\ (commands[d].response # "offline" => Projects(d))
    BY Zenon DEF Recorded, IInv, ProjectionTruth
  <2>2. Projects(d) => Projects(d)'
    BY <1>2, <2>1, Zenon DEF MoveAuthority, Projects, ProjectsPending, ProjectsSettled
  <2>3. Replays(d)'
    BY <2>1, Zenon DEF Replays, MoveAuthority
  <2> QED BY <2>1, <2>2, <2>3, Zenon
<1>6. DispatchIsOrderly'
  <2>1. OpenClaimIsCurrent'
    BY <1>2, Zenon DEF OpenClaimIsCurrent
  <2>2. DispatchedInOrder'
    BY <1>1, <1>2, Zenon DEF MoveAuthority, IInv, DispatchIsOrderly, DispatchedInOrder, Recorded
  <2> QED BY <2>1, <2>2, Zenon DEF DispatchIsOrderly
<1>7. IsFiniteSet(Recorded)' /\ UnitsFinite' /\ QuotaHolds'
  BY <1>1, QuotaFrame, Zenon DEF MoveAuthority
<1> QED BY <1>3, <1>4, <1>5, <1>6, <1>7, Zenon DEF IInv

\* What a step does that touches the rows of one recorded command and nothing
\* else: the other rows stay, and the command itself keeps its place in the
\* queue, does not return to it, and is claimed only at its head.
OneRow(c) ==
    /\ \A d \in Commands \ {c} :
         /\ commands'[d] = commands[d] /\ outbox'[d] = outbox[d]
         /\ claims'[d] = claims[d] /\ audit'[d] = audit[d]
    /\ UNCHANGED <<reservations, nonces, epoch>>
    /\ commands'[c] # None /\ outbox'[c] # None
    /\ outbox'[c].seq = outbox[c].seq
    /\ audit'[c].submitted = audit[c].submitted
    /\ outbox'[c].phase = "pending" => outbox[c].phase = "pending"
    /\ claims[c] = None /\ claims'[c] # None => OldestPending(c)

LEMMA OneRowStep ==
  ASSUME IInv, NEW c \in Commands, commands[c] # None, TypeOK', OneRow(c),
         commands'[c].phase = "pending" => commands'[c].response = None,
         commands'[c].response = "offline" =>
           /\ commands'[c].phase # "pending" /\ outbox'[c].phase # "pending"
           /\ claims'[c] = None,
         commands'[c].response # "offline" => Projects(c)',
         claims'[c] # None /\ claims'[c].disposition = "CLAIMED" =>
           claims'[c].epoch = epoch
  PROVE  IInv'
<1>1. Recorded' = Recorded
  BY Zenon DEF OneRow, Recorded
<1>2. \A d \in Commands : RowInv(d)'
  <2>1. \A d \in Commands \ {c} : RowInv(d)'
    BY <1>1 DEF OneRow, IInv, RowInv
  <2>2. RowInv(c)'
    BY <1>1, Zenon DEF OneRow, IInv, RowInv
  <2> QED BY <2>1, <2>2, Zenon
<1>3. ProjectionTruth'
  <2> SUFFICES ASSUME NEW d \in Recorded
               PROVE  /\ commands'[d].response # "offline" => Projects(d)'
                      /\ Replays(d)'
    BY <1>1, Zenon DEF ProjectionTruth
  <2>1. d \in Commands /\ Replays(d) /\ (commands[d].response # "offline" => Projects(d))
    BY Zenon DEF Recorded, IInv, ProjectionTruth
  <2>2. Replays(d)'
    BY <2>1, Zenon DEF Replays, OneRow
  <2>3. CASE d = c
    BY <2>2, <2>3, Zenon
  <2>4. CASE d # c
    BY <2>1, <2>2, <2>4, ZenonT(40) DEF OneRow, Projects, ProjectsPending, ProjectsSettled
  <2> QED BY <2>3, <2>4, Zenon
<1>4. DispatchIsOrderly'
  <2>1. OpenClaimIsCurrent'
    BY Zenon DEF IInv, DispatchIsOrderly, OpenClaimIsCurrent, OneRow, Current
  <2>2. DispatchedInOrder'
    <3> SUFFICES ASSUME NEW b \in Recorded, NEW d \in Recorded,
                        outbox'[b].seq < outbox'[d].seq, outbox'[b].phase = "pending"
                 PROVE  claims'[d] = None
      BY <1>1, Zenon DEF DispatchedInOrder
    <3>1. /\ b \in Commands /\ d \in Commands
          /\ outbox[b].seq < outbox[d].seq /\ outbox[b].phase = "pending"
      BY Zenon DEF OneRow, Recorded
    <3>2. claims[d] = None
      BY <3>1, Zenon DEF IInv, DispatchIsOrderly, DispatchedInOrder
    <3>3. OldestPending(d) => outbox[d].seq <= outbox[b].seq
      BY <3>1, Zenon DEF OldestPending, Queued
    <3>4. outbox[b].seq \in Nat /\ outbox[d].seq \in Nat
      BY <3>1, RowTypes, Zenon DEF OutboxRow, Recorded
    <3> QED BY <3>1, <3>2, <3>3, <3>4 DEF OneRow
  <2> QED BY <2>1, <2>2, Zenon DEF DispatchIsOrderly
<1>5. IsFiniteSet(Recorded)' /\ UnitsFinite' /\ QuotaHolds'
  BY <1>1, QuotaFrame, Zenon DEF OneRow
<1> QED BY <1>2, <1>3, <1>4, <1>5, Zenon DEF IInv

LEMMA ClaimStep ==
  ASSUME IInv, NEW c \in Commands, NEW o \in Owners, ClaimCommand(o, c)
  PROVE  IInv'
<1> DEFINE claim == [owner |-> o, epoch |-> epoch,
                     disposition |-> "CLAIMED", completion |-> None]
           sent == [outbox[c] EXCEPT !.phase = "applied", !.delivered = TRUE]
<1>1. /\ c \in Recorded /\ commands[c] # None /\ OldestPending(c)
      /\ commands[c].phase = "pending" /\ commands[c].response = None
      /\ claims[c] = None
  BY Zenon DEF ClaimCommand, Claimable, OldestPending, Queued, Recorded
<1>2. Projects(c) /\ ProjectsPending(c)
  BY <1>1, NoneIsNoRow, Zenon DEF IInv, ProjectionTruth, Projects, Responses
<1>3. /\ outbox[c].phase = "pending" /\ ~outbox[c].delivered /\ ~outbox[c].acked
      /\ audit[c].claimed = 0 /\ audit[c].reconciled = <<>> /\ audit[c].submitted = 1
  BY <1>1, <1>2, Zenon DEF ProjectsPending, Projects
<1>4. claim \in ClaimRow /\ sent \in OutboxRow /\ sent.acked = outbox[c].acked
      /\ sent.seq = outbox[c].seq /\ sent.phase = "applied" /\ sent.delivered = TRUE
  <2>1. epoch \in 1..MaxEpoch
    BY Zenon DEF IInv, TypeOK
  <2> QED BY <1>1, <2>1, RowTypes, Zenon DEF ClaimRow, OutboxRow, Dispositions, Phases
<1>5. claim # None /\ sent # None
  BY <1>4, NoneIsNoRow, Zenon
<1>6. /\ claims' = [claims EXCEPT ![c] = claim]
      /\ outbox' = [outbox EXCEPT ![c] = sent]
      /\ UNCHANGED <<commands, reservations, nonces, epoch>>
      /\ audit' = [audit EXCEPT ![c].claimed = @ + 1]
  BY Zenon DEF ClaimCommand
<1> HIDE DEF claim, sent
<1>7. /\ claims \in [Commands -> ClaimRow \cup {None}]
      /\ outbox \in [Commands -> OutboxRow \cup {None}]
      /\ audit \in [Commands -> [submitted : 0..1, claimed : 0..1,
                                 reconciled : Seq(Responses)]]
  BY Zenon DEF IInv, TypeOK
<1>8. claims'[c] = claim /\ outbox'[c] = sent
      /\ audit'[c].claimed = 1 /\ audit'[c].submitted = 1 /\ audit'[c].reconciled = <<>>
  BY <1>3, <1>6, <1>7
<1>9. TypeOK'
  <2>1. audit' \in [Commands -> [submitted : 0..1, claimed : 0..1,
                                  reconciled : Seq(Responses)]]
    BY <1>3, <1>6, <1>7
  <2> QED BY <1>4, <1>6, <1>7, <2>1, Zenon DEF IInv, TypeOK
<1>10. OneRow(c)
  BY <1>1, <1>3, <1>4, <1>5, <1>6, <1>7, <1>8, Zenon DEF OneRow
<1>11. Projects(c)'
  BY ONLY <1>1, <1>3, <1>4, <1>5, <1>6, <1>8 DEF Projects, ProjectsPending, claim
<1>12. claims'[c].epoch = epoch
  BY <1>8 DEF claim
<1> QED BY <1>1, <1>6, <1>9, <1>10, <1>11, <1>12, NoneIsNoRow, OneRowStep, Zenon DEF Responses

\* The audit event of an outcome: the only one of the command.
LEMMA Reconciled ==
  ASSUME IInv, NEW c \in Commands, NEW r \in Responses, audit[c].reconciled = <<>>,
         audit' = [audit EXCEPT ![c].reconciled = Append(@, r)]
  PROVE  /\ audit' \in [Commands -> [submitted : 0..1, claimed : 0..1,
                                    reconciled : Seq(Responses)]]
         /\ audit'[c].reconciled = <<r>>
         /\ audit'[c].submitted = audit[c].submitted
         /\ audit'[c].claimed = audit[c].claimed
         /\ \A d \in Commands \ {c} : audit'[d] = audit[d]
<1>1. audit \in [Commands -> [submitted : 0..1, claimed : 0..1,
                             reconciled : Seq(Responses)]]
  BY Zenon DEF IInv, TypeOK
<1>2. Append(audit[c].reconciled, r) = <<r>> /\ <<r>> \in Seq(Responses)
  OBVIOUS
<1> QED BY <1>1, <1>2, Zenon

LEMMA RefuseStep ==
  ASSUME IInv, NEW c \in Commands, NEW o \in Owners, RefuseUnsupported(o, c)
  PROVE  IInv'
<1> DEFINE claim == [owner |-> o, epoch |-> epoch,
                     disposition |-> "FAILED", completion |-> "refused"]
           sent == [outbox[c] EXCEPT !.phase = "failed", !.acked = TRUE]
           row == [phase |-> "failed", response |-> "refused"]
<1>1. /\ c \in Recorded /\ commands[c] # None /\ OldestPending(c)
      /\ commands[c].phase = "pending" /\ commands[c].response = None
      /\ claims[c] = None
  BY Zenon DEF RefuseUnsupported, Claimable, OldestPending, Queued, Recorded
<1>2. Projects(c) /\ ProjectsPending(c)
  BY <1>1, NoneIsNoRow, Zenon DEF IInv, ProjectionTruth, Projects, Responses
<1>3. /\ outbox[c].phase = "pending" /\ ~outbox[c].delivered
      /\ audit[c].claimed = 0 /\ audit[c].reconciled = <<>> /\ audit[c].submitted = 1
  BY <1>1, <1>2, Zenon DEF ProjectsPending, Projects
<1>4. claim \in ClaimRow /\ sent \in OutboxRow /\ sent.delivered = outbox[c].delivered
      /\ sent.seq = outbox[c].seq /\ sent.phase = "failed" /\ sent.acked = TRUE
  <2>1. epoch \in 1..MaxEpoch
    BY Zenon DEF IInv, TypeOK
  <2> QED BY <1>1, <2>1, RowTypes, Zenon DEF ClaimRow, OutboxRow, Dispositions, Phases, Responses
<1>5. row \in CommandRow
  BY Zenon DEF CommandRow, Phases, Responses
<1>6. claim # None /\ sent # None /\ row # None
  BY <1>4, <1>5, NoneIsNoRow, Zenon
<1>7. /\ claims' = [claims EXCEPT ![c] = claim]
      /\ outbox' = [outbox EXCEPT ![c] = sent]
      /\ commands' = [commands EXCEPT ![c] = row]
      /\ UNCHANGED <<reservations, nonces, epoch>>
      /\ audit' = [audit EXCEPT ![c].reconciled = Append(@, "refused")]
  BY Zenon DEF RefuseUnsupported
<1>8. claim.disposition = "FAILED" /\ row.phase = "failed" /\ row.response = "refused"
  BY Zenon
<1> HIDE DEF claim, sent, row
<1>9. /\ claims \in [Commands -> ClaimRow \cup {None}]
      /\ outbox \in [Commands -> OutboxRow \cup {None}]
      /\ commands \in [Commands -> CommandRow \cup {None}]
  BY Zenon DEF IInv, TypeOK
<1>10. /\ audit' \in [Commands -> [submitted : 0..1, claimed : 0..1,
                                 reconciled : Seq(Responses)]]
       /\ audit'[c].reconciled = <<"refused">> /\ audit'[c].submitted = 1
       /\ audit'[c].claimed = 0
       /\ \A d \in Commands \ {c} : audit'[d] = audit[d]
  BY <1>3, <1>7, Reconciled, Zenon DEF Responses
<1>11. claims'[c] = claim /\ outbox'[c] = sent /\ commands'[c] = row
  BY <1>7, <1>9, Zenon
<1>12. TypeOK'
  BY <1>4, <1>5, <1>7, <1>9, <1>10, Zenon DEF IInv, TypeOK
<1>13. OneRow(c)
  BY <1>1, <1>3, <1>4, <1>6, <1>7, <1>9, <1>10, <1>11, Zenon DEF OneRow
<1>14. Projects(c)'
  BY <1>3, <1>4, <1>6, <1>8, <1>10, <1>11, Zenon DEF Projects, ProjectsSettled
<1> QED BY <1>1, <1>8, <1>11, <1>12, <1>13, <1>14, OneRowStep, Zenon

LEMMA SettleStep ==
  ASSUME IInv, NEW c \in Commands, NEW o \in Owners, NEW r \in Receipts,
         SettleCommand(o, c, r)
  PROVE  IInv'
<1> DEFINE claim == [claims[c] EXCEPT !.disposition = "UNKNOWN", !.completion = r]
           sent == [outbox[c] EXCEPT !.phase = "unknown", !.acked = TRUE]
           row == [phase |-> "unknown", response |-> r]
<1>1. /\ claims[c] # None /\ claims[c] \in ClaimRow /\ commands[c] # None
      /\ commands[c].phase = "pending" /\ commands[c].response = None
      /\ outbox[c] \in OutboxRow /\ c \in Recorded
  BY RowTypes, Zenon DEF SettleCommand, Settleable
<1>2. Projects(c) /\ ProjectsPending(c)
  BY <1>1, NoneIsNoRow, Zenon DEF IInv, ProjectionTruth, Projects, Responses
<1>3. /\ outbox[c].phase = "applied" /\ outbox[c].delivered
      /\ audit[c].claimed = 1 /\ audit[c].reconciled = <<>> /\ audit[c].submitted = 1
  BY <1>1, <1>2, Zenon DEF ProjectsPending, Projects
<1>4. claim \in ClaimRow /\ sent \in OutboxRow /\ sent.delivered = outbox[c].delivered
      /\ sent.seq = outbox[c].seq /\ sent.phase = "unknown" /\ sent.acked = TRUE
      /\ claim.disposition = "UNKNOWN"
  BY <1>1, Zenon DEF ClaimRow, OutboxRow, Dispositions, Phases, Responses
<1>5. row \in CommandRow /\ r # "offline"
  BY CommandAssumptions, Zenon DEF CommandRow, Phases, Responses
<1>6. claim # None /\ sent # None /\ row # None
  BY <1>4, <1>5, NoneIsNoRow, Zenon
<1>7. /\ claims' = [claims EXCEPT ![c] = claim]
      /\ outbox' = [outbox EXCEPT ![c] = sent]
      /\ commands' = [commands EXCEPT ![c] = row]
      /\ UNCHANGED <<reservations, nonces, epoch>>
      /\ audit' = [audit EXCEPT ![c].reconciled = Append(@, r)]
  BY Zenon DEF SettleCommand
<1>8. row.phase = "unknown" /\ row.response = r
  BY Zenon
<1> HIDE DEF claim, sent, row
<1>9. /\ claims \in [Commands -> ClaimRow \cup {None}]
      /\ outbox \in [Commands -> OutboxRow \cup {None}]
      /\ commands \in [Commands -> CommandRow \cup {None}]
  BY Zenon DEF IInv, TypeOK
<1>10. /\ audit' \in [Commands -> [submitted : 0..1, claimed : 0..1,
                                 reconciled : Seq(Responses)]]
       /\ audit'[c].reconciled = <<r>> /\ audit'[c].submitted = 1
       /\ audit'[c].claimed = 1
       /\ \A d \in Commands \ {c} : audit'[d] = audit[d]
  BY <1>3, <1>7, Reconciled, Zenon DEF Responses
<1>11. claims'[c] = claim /\ outbox'[c] = sent /\ commands'[c] = row
  BY <1>7, <1>9, Zenon
<1>12. TypeOK'
  BY <1>4, <1>5, <1>7, <1>9, <1>10, Zenon DEF IInv, TypeOK
<1>13. OneRow(c)
  BY <1>1, <1>3, <1>4, <1>6, <1>7, <1>9, <1>10, <1>11, ZenonT(40) DEF OneRow
<1>14. Projects(c)'
  BY <1>3, <1>4, <1>6, <1>8, <1>10, <1>11, Zenon DEF Projects, ProjectsSettled
<1> QED BY <1>1, <1>4, <1>5, <1>8, <1>11, <1>12, <1>13, <1>14, OneRowStep, Zenon

LEMMA ReconcileStep ==
  ASSUME IInv, NEW c \in Commands, ReconcileOffline(c)
  PROVE  IInv'
<1> DEFINE phase == IF c \in Supported THEN "unknown" ELSE "failed"
           sent == [outbox[c] EXCEPT !.phase = phase, !.acked = TRUE]
           row == [phase |-> phase, response |-> "offline"]
<1>1. /\ commands[c] # None /\ commands[c].phase = "pending"
      /\ outbox[c].phase = "pending" /\ audit[c].reconciled = <<>>
      /\ outbox[c] \in OutboxRow /\ c \in Recorded /\ commands[c].response = None
  BY RowTypes, Zenon DEF ReconcileOffline, Reconcilable, IInv, RowInv
<1>2. Projects(c) /\ ProjectsPending(c)
  BY <1>1, NoneIsNoRow, Zenon DEF IInv, ProjectionTruth, Projects, Responses
<1>3. claims[c] = None /\ audit[c].submitted = 1
  BY <1>1, <1>2, Zenon DEF ProjectsPending, Projects
<1>4. sent \in OutboxRow /\ sent.seq = outbox[c].seq /\ sent.phase = phase
      /\ row \in CommandRow /\ phase # "pending"
  BY <1>1, Zenon DEF OutboxRow, CommandRow, Phases, Responses
<1>5. sent # None /\ row # None
  BY <1>4, NoneIsNoRow, Zenon
<1>6. /\ outbox' = [outbox EXCEPT ![c] = sent]
      /\ commands' = [commands EXCEPT ![c] = row]
      /\ UNCHANGED <<claims, reservations, nonces, epoch>>
      /\ audit' = [audit EXCEPT ![c].reconciled = Append(@, "offline")]
  BY Zenon DEF ReconcileOffline
<1>7. row.phase = phase /\ row.response = "offline"
  BY Zenon
<1> HIDE DEF phase, sent, row
<1>8. /\ outbox \in [Commands -> OutboxRow \cup {None}]
      /\ commands \in [Commands -> CommandRow \cup {None}]
  BY Zenon DEF IInv, TypeOK
<1>9. /\ audit' \in [Commands -> [submitted : 0..1, claimed : 0..1,
                                 reconciled : Seq(Responses)]]
      /\ audit'[c].submitted = 1
      /\ \A d \in Commands \ {c} : audit'[d] = audit[d]
  BY <1>1, <1>3, <1>6, Reconciled, Zenon DEF Responses
<1>10. outbox'[c] = sent /\ commands'[c] = row /\ claims'[c] = None
  BY <1>3, <1>6, <1>8, Zenon
<1>11. TypeOK'
  BY <1>4, <1>6, <1>8, <1>9, Zenon DEF IInv, TypeOK
<1>12. OneRow(c)
  BY <1>1, <1>3, <1>4, <1>5, <1>6, <1>8, <1>9, <1>10, Zenon DEF OneRow
<1> QED BY <1>1, <1>4, <1>7, <1>10, <1>11, <1>12, OneRowStep, Zenon

\* Admission reserves exactly the units of the run it admits, and only a direct
\* run has to fit into what the quota has left.
LEMMA AdmissionSums ==
  ASSUME IInv, NEW c \in Commands, c \notin Recorded,
         Recorded' = Recorded \cup {c},
         IF c \in Coding THEN AdmitRunCoding(c) ELSE UNCHANGED <<nonces, reservations>>
  PROVE  UnitsFinite' /\ QuotaHolds'
<1> DEFINE All == Coding \cap Recorded
           Direct == (Coding \ Tasks) \cap Recorded
<1>1. /\ IsFiniteSet(UnitsOf(reservations, ReservationIds))
      /\ IsFiniteSet(UnitsOf(Units, All))
      /\ SumOf(reservations, ReservationIds) = SumOf(Units, All)
      /\ SumOf(Units, Direct) <= Quota
  BY Zenon DEF IInv, UnitsFinite, QuotaHolds, UsedQuota
<1>2. CASE c \notin Coding
  <2>1. Coding \cap Recorded' = All /\ (Coding \ Tasks) \cap Recorded' = Direct
    BY <1>2, Zenon
  <2>2. UNCHANGED reservations
    BY <1>2, Zenon
  <2> HIDE DEF All, Direct
  <2> QED BY <1>1, <2>1, <2>2, Zenon DEF UnitsFinite, QuotaHolds, UsedQuota
<1>3. CASE c \in Coding
  <2> DEFINE held == [reservations EXCEPT ![Reservation[c]] = Units[c]]
  <2>1. /\ reservations' = held /\ reservations[Reservation[c]] = 0
        /\ c \notin Tasks => Units[c] <= Quota - UsedQuota
        /\ held = [reservations EXCEPT ![Reservation[c]] = Units[c]]
    BY <1>3, Zenon DEF AdmitRunCoding, CodingAdmissible, TaskAdmissible, DirectAdmissible
  <2>2. /\ reservations \in [ReservationIds -> Nat] /\ Reservation[c] \in ReservationIds
        /\ Units[c] \in Nat /\ Quota \in Nat
    BY <1>3, CommandAssumptions, Zenon DEF IInv, TypeOK, ReservationIds
  <2> HIDE DEF held
  <2>3. /\ IsFiniteSet(UnitsOf(held, ReservationIds))
        /\ SumOf(held, ReservationIds) = SumOf(reservations, ReservationIds) + Units[c]
    <3> DEFINE k == Reservation[c]
               n == Units[c]
    <3>1. /\ reservations[k] = 0 /\ k \in ReservationIds /\ n \in Nat
          /\ held[k] = n
          /\ \A y \in ReservationIds : y # k => held[y] = reservations[y]
      BY <2>1, <2>2, Zenon
    <3> HIDE DEF k, n
    <3>2. /\ IsFiniteSet(UnitsOf(held, ReservationIds))
          /\ SumOf(held, ReservationIds) = SumOf(reservations, ReservationIds) + n
      BY ONLY <1>1, <2>2, <3>1, SumWithAmount
    <3> QED BY <3>2, Zenon DEF n
  <2>4. /\ c \notin All /\ c \notin Direct /\ Direct \in SUBSET All
        /\ Coding \cap Recorded' = All \cup {c}
        /\ (Coding \ Tasks) \cap Recorded' = IF c \in Tasks THEN Direct ELSE Direct \cup {c}
    BY <1>3, Zenon
  <2> HIDE DEF All, Direct
  <2>5. /\ IsFiniteSet(UnitsOf(Units, All \cup {c}))
        /\ SumOf(Units, All \cup {c}) = SumOf(Units, All) + Units[c]
    BY <1>1, <2>2, <2>4, SumWithNew, Zenon
  <2>6. /\ SumOf(Units, Direct) \in Nat /\ SumOf(Units, All) \in Nat
        /\ SumOf(Units, Direct) <= SumOf(Units, All)
        /\ IsFiniteSet(UnitsOf(Units, Direct))
    BY <1>1, <2>4, SumOfPart, Zenon
  <2>7. SumOf(Units, Direct \cup {c}) = SumOf(Units, Direct) + Units[c]
    BY <2>2, <2>4, <2>6, SumWithNew, Zenon
  <2>8. UnitsFinite'
    BY <2>1, <2>3, <2>4, <2>5, Zenon DEF UnitsFinite
  <2>9. UsedQuota' = SumOf(held, ReservationIds)
    BY <2>1, Zenon DEF UsedQuota
  <2>10. SumOf(Units, Coding \cap Recorded)' = SumOf(held, ReservationIds)
    <3>1. SumOf(Units, Coding \cap Recorded)' = SumOf(Units, All \cup {c})
      BY <2>4, Zenon
    <3> QED BY <1>1, <2>3, <2>5, <3>1, Zenon
  <2>11. SumOf(Units, (Coding \ Tasks) \cap Recorded)' <= Quota
    <3>1. CASE c \in Tasks
      <4>1. SumOf(Units, (Coding \ Tasks) \cap Recorded)' = SumOf(Units, Direct)
        BY <2>4, <3>1, Zenon
      <4> QED BY <1>1, <4>1, Zenon
    <3>2. CASE c \notin Tasks
      <4>1. SumOf(Units, (Coding \ Tasks) \cap Recorded)' = SumOf(Units, Direct \cup {c})
        BY <2>4, <3>2, Zenon
      <4>2. UsedQuota = SumOf(Units, All) /\ Units[c] <= Quota - UsedQuota
        BY <1>1, <2>1, <3>2, Zenon DEF UsedQuota
      <4> QED BY <2>2, <2>6, <2>7, <4>1, <4>2
    <3> QED BY <3>1, <3>2, Zenon
  <2> QED BY <2>8, <2>9, <2>10, <2>11, Zenon DEF QuotaHolds
<1> QED BY <1>2, <1>3, Zenon

LEMMA SubmitStep ==
  ASSUME IInv, NEW c \in Commands, SubmitCommand(c)
  PROVE  IInv'
<1> DEFINE row == [phase |-> "pending", response |-> None]
           sent == [seq |-> Cardinality(Recorded) + 1, phase |-> "pending",
                    delivered |-> FALSE, acked |-> FALSE]
<1>1. /\ commands[c] = None /\ c \notin Recorded
      /\ outbox[c] = None /\ claims[c] = None /\ audit[c] = Blank
  BY Zenon DEF SubmitCommand, Fresh, IInv, RowInv, Recorded
<1>2. /\ commands' = [commands EXCEPT ![c] = row]
      /\ outbox' = [outbox EXCEPT ![c] = sent]
      /\ audit' = [audit EXCEPT ![c].submitted = @ + 1]
      /\ UNCHANGED <<claims, epoch>>
  BY Zenon DEF SubmitCommand
<1>3. IF c \in Coding THEN AdmitRunCoding(c) ELSE UNCHANGED <<nonces, reservations>>
  BY Zenon DEF SubmitCommand
<1>4. Cardinality(Recorded) \in Nat
  BY FS_CardinalityType, Zenon DEF IInv
<1>5. row \in CommandRow /\ sent \in OutboxRow
  BY <1>4 DEF CommandRow, OutboxRow, Phases
<1>6. row # None /\ sent # None
  BY <1>5, NoneIsNoRow, Zenon
<1>7. /\ row.phase = "pending" /\ row.response = None
      /\ sent.seq = Cardinality(Recorded) + 1 /\ sent.phase = "pending"
      /\ sent.delivered = FALSE /\ sent.acked = FALSE
  BY Zenon
<1> HIDE DEF row, sent
<1>8. /\ commands \in [Commands -> CommandRow \cup {None}]
      /\ outbox \in [Commands -> OutboxRow \cup {None}]
      /\ audit \in [Commands -> [submitted : 0..1, claimed : 0..1,
                                 reconciled : Seq(Responses)]]
      /\ reservations \in [ReservationIds -> Nat]
      /\ nonces \in [Nonces -> NonceRow \cup {None}]
  BY Zenon DEF IInv, TypeOK
<1>9. /\ commands'[c] = row /\ outbox'[c] = sent
      /\ audit'[c].submitted = 1 /\ audit'[c].claimed = 0 /\ audit'[c].reconciled = <<>>
      /\ \A d \in Commands \ {c} :
           commands'[d] = commands[d] /\ outbox'[d] = outbox[d] /\ audit'[d] = audit[d]
  BY <1>1, <1>2, <1>8 DEF Blank
<1>10. Recorded' = Recorded \cup {c}
  BY <1>6, <1>9, Zenon DEF Recorded
<1>11. /\ IsFiniteSet(Recorded')
       /\ Cardinality(Recorded') = Cardinality(Recorded) + 1
  BY <1>1, <1>10, FS_AddElement, Zenon DEF IInv
<1>12. c \in Coding =>
         /\ Reservation[c] \in ReservationIds /\ Nonce[c] \in Nonces
         /\ Units[c] \in Nat \ {0}
         /\ reservations[Reservation[c]] = 0
         /\ \/ nonces[Nonce[c]] = None
            \/ nonces[Nonce[c]] = [request |-> c, consumed |-> FALSE]
         /\ nonces' = [nonces EXCEPT ![Nonce[c]] = [request |-> c, consumed |-> TRUE]]
         /\ reservations' = [reservations EXCEPT ![Reservation[c]] = Units[c]]
  BY <1>3, CommandAssumptions, Zenon DEF AdmitRunCoding, CodingAdmissible, TaskAdmissible,
     DirectAdmissible, ReservationIds, Nonces
<1>13. TypeOK'
  <2>1. audit' \in [Commands -> [submitted : 0..1, claimed : 0..1,
                                 reconciled : Seq(Responses)]]
    <3>1. audit' = [audit EXCEPT ![c].submitted = @ + 1]
      BY <1>2, Zenon
    <3>2. audit \in [Commands -> [submitted : 0..1, claimed : 0..1,
                                 reconciled : Seq(Responses)]]
      BY <1>8, Zenon
    <3> DEFINE event == [submitted |-> 1, claimed |-> 0, reconciled |-> <<>>]
    <3>3. event \in [submitted : 0..1, claimed : 0..1, reconciled : Seq(Responses)]
      OBVIOUS
    <3>4. audit' = [audit EXCEPT ![c] = event]
      <4>1. [audit[c] EXCEPT !.submitted = audit[c].submitted + 1] = event
        BY <1>1 DEF Blank
      <4>2. audit' = [audit EXCEPT ![c] =
                        [audit[c] EXCEPT !.submitted = audit[c].submitted + 1]]
        BY <3>1, Zenon
      <4> QED BY <4>1, <4>2, Zenon
    <3> HIDE DEF event
    <3> QED BY <3>2, <3>3, <3>4, Zenon
  <2>2. c \in Coding => [request |-> c, consumed |-> TRUE] \in NonceRow
    BY Zenon DEF NonceRow
  <2>3. /\ reservations' \in [ReservationIds -> Nat]
        /\ nonces' \in [Nonces -> NonceRow \cup {None}]
    <3>1. CASE c \in Coding
      BY <1>8, <1>12, <2>2, <3>1, Zenon
    <3>2. CASE c \notin Coding
      BY <1>3, <1>8, <3>2, Zenon
    <3> QED BY <3>1, <3>2, Zenon
  <2> QED BY <1>2, <1>5, <1>8, <2>1, <2>3, Zenon DEF IInv, TypeOK
<1>14. \A d \in Commands : RowInv(d)'
  <2>1. RowInv(c)'
    BY <1>4, <1>6, <1>7, <1>9, <1>11, NoneIsNoRow DEF RowInv, Responses
  <2>2. ASSUME NEW d \in Commands, d # c PROVE RowInv(d)'
    <3>1. commands[d] # None => outbox[d].seq \in Nat
      BY RowTypes, Zenon DEF OutboxRow
    <3> QED BY <1>2, <1>4, <1>9, <1>11, <2>2, <3>1 DEF RowInv, IInv
  <2> QED BY <2>1, <2>2, Zenon
<1>15. ProjectionTruth'
  <2>1. Projects(c)'
    BY <1>1, <1>2, <1>6, <1>7, <1>9, Zenon DEF Projects, ProjectsPending
  <2>2. Replays(c)'
    BY <1>6, <1>8, <1>9, <1>12, Zenon DEF Replays
  <2>3. ASSUME NEW d \in Recorded
        PROVE  /\ commands'[d].response # "offline" => Projects(d)'
               /\ Replays(d)'
    <3>1. /\ d \in Commands /\ d # c
          /\ Replays(d) /\ (commands[d].response # "offline" => Projects(d))
      BY <1>1, Zenon DEF Recorded, IInv, ProjectionTruth
    <3>2. commands'[d].response # "offline" => Projects(d)'
      BY <1>2, <1>9, <3>1, ZenonT(40) DEF Projects, ProjectsPending, ProjectsSettled
    <3>3. d \in Coding /\ c \in Coding => Reservation[d] # Reservation[c]
      BY <1>12, <3>1, CommandAssumptions, Zenon DEF Replays
    <3>4. d \in Coding /\ c \in Coding => Nonce[d] # Nonce[c]
      <4>1. d \in Coding => [request |-> d, consumed |-> TRUE] \in NonceRow
        BY Zenon DEF NonceRow
      <4>2. [request |-> d, consumed |-> TRUE] # [request |-> c, consumed |-> FALSE]
        <5>1. TRUE # FALSE
          BY Zenon
        <5> QED BY <5>1, <3>1, Zenon
      <4> QED BY <1>12, <3>1, <4>1, <4>2, NoneIsNoRow, Zenon DEF Replays
    <3>5. d \in Coding => /\ reservations'[Reservation[d]] = reservations[Reservation[d]]
                          /\ nonces'[Nonce[d]] = nonces[Nonce[d]]
      <4>1. CASE c \in Coding
        <5>1. d \in Coding => Reservation[d] \in ReservationIds /\ Nonce[d] \in Nonces
          BY Zenon DEF ReservationIds, Nonces
        <5> QED BY <1>8, <1>12, <3>3, <3>4, <4>1, <5>1, Zenon
      <4>2. CASE c \notin Coding
        BY <1>3, <4>2, Zenon
      <4> QED BY <4>1, <4>2, Zenon
    <3>6. Replays(d)'
      BY <1>9, <3>1, <3>5, Zenon DEF Replays
    <3> QED BY <3>2, <3>6, Zenon
  <2> QED BY <1>10, <2>1, <2>2, <2>3, Zenon DEF ProjectionTruth
<1>16. DispatchIsOrderly'
  <2>1. OpenClaimIsCurrent'
    BY <1>2, Zenon DEF IInv, DispatchIsOrderly, OpenClaimIsCurrent, Current
  <2>2. \A d \in Recorded : d \in Commands /\ d # c /\ outbox[d].seq < sent.seq
    <3>1. ASSUME NEW d \in Recorded
          PROVE  /\ d \in Commands /\ d # c /\ outbox[d].seq \in Nat
                 /\ outbox[d].seq <= Cardinality(Recorded)
      BY <1>1, RowTypes, Zenon DEF Recorded, IInv, RowInv, OutboxRow
    <3> QED BY <1>4, <1>7, <3>1
  <2>3. DispatchedInOrder'
    <3> SUFFICES ASSUME NEW b \in Recorded', NEW d \in Recorded',
                        outbox'[b].seq < outbox'[d].seq, outbox'[b].phase = "pending"
                 PROVE  claims'[d] = None
      BY Zenon DEF DispatchedInOrder
    <3>1. sent.seq \in Nat /\ \A e \in Recorded : outbox[e].seq \in Nat
      BY <1>5, RowTypes, Zenon DEF OutboxRow, Recorded
    <3>2. CASE d = c
      BY <1>1, <1>2, <3>2, Zenon
    <3>3. CASE d # c
      <4>1. d \in Recorded /\ outbox'[d] = outbox[d]
        BY <1>9, <1>10, <2>2, <3>3, Zenon
      <4>2. b # c
        BY <1>9, <2>2, <3>1, <4>1
      <4>3. b \in Recorded /\ outbox'[b] = outbox[b]
        BY <1>9, <1>10, <2>2, <4>2, Zenon
      <4> QED BY <1>2, <4>1, <4>3, Zenon DEF IInv, DispatchIsOrderly, DispatchedInOrder
    <3> QED BY <3>2, <3>3, Zenon
  <2> QED BY <2>1, <2>3, Zenon DEF DispatchIsOrderly
<1>17. UnitsFinite' /\ QuotaHolds'
  BY <1>1, <1>3, <1>10, AdmissionSums, Zenon
<1> QED BY <1>11, <1>13, <1>14, <1>15, <1>16, <1>17, Zenon DEF IInv

LEMMA StepInv ==
  ASSUME IInv, [Next]_tables
  PROVE  IInv'
<1>1. CASE UNCHANGED tables
  <2> USE <1>1 DEF tables
  <2>1. TypeOK' /\ Recorded' = Recorded /\ \A c \in Commands : RowInv(c)'
    BY Zenon DEF IInv, TypeOK, RowInv, Recorded
  <2>2. ProjectionTruth'
    <3>1. \A c \in Commands : (Projects(c) => Projects(c)') /\ (Replays(c) => Replays(c)')
      BY ZenonT(40) DEF Projects, ProjectsPending, ProjectsSettled, Replays
    <3> QED BY <2>1, <3>1, Zenon DEF IInv, ProjectionTruth, Recorded
  <2>3. DispatchIsOrderly'
    BY <2>1, Zenon DEF IInv, DispatchIsOrderly, OpenClaimIsCurrent, DispatchedInOrder, Current
  <2> QED BY <2>1, <2>2, <2>3, QuotaFrame, Zenon DEF IInv
<1>2. CASE MoveAuthority
  BY <1>2, MoveStep, Zenon
<1>3. ASSUME NEW c \in Commands, SubmitCommand(c) PROVE IInv'
  BY <1>3, SubmitStep, Zenon
<1>4. ASSUME NEW c \in Commands, IssueNonce(c) PROVE IInv'
  BY <1>4, IssueStep, Zenon
<1>5. ASSUME NEW c \in Commands, ReconcileOffline(c) PROVE IInv'
  BY <1>5, ReconcileStep, Zenon
<1>6. ASSUME NEW c \in Commands, NEW o \in Owners, ClaimCommand(o, c) PROVE IInv'
  BY <1>6, ClaimStep, Zenon
<1>7. ASSUME NEW c \in Commands, NEW o \in Owners, RefuseUnsupported(o, c) PROVE IInv'
  BY <1>7, RefuseStep, Zenon
<1>8. ASSUME NEW c \in Commands, NEW o \in Owners, NEW r \in Receipts,
             SettleCommand(o, c, r)
      PROVE  IInv'
  BY <1>8, SettleStep, Zenon
<1> QED BY <1>1, <1>2, <1>3, <1>4, <1>5, <1>6, <1>7, <1>8, Zenon DEF Next

LEMMA Inductive == Spec => []IInv
<1>1. IInv /\ [Next]_tables => IInv'
  BY StepInv, Zenon
<1> QED BY <1>1, InitInv, PTL DEF Spec
-----------------------------------------------------------------------------
(* What follows from the invariant.                                         *)

\* The rows of the dispatch tables have the types of their columns.
THEOREM QueueTypes == Spec => []TypeOK
<1> QED BY Inductive, PTL DEF IInv

\* For any number of commands, runners and authority moves, validate_projection
\* accepts the four tables of every command no offline reconciler resolved, a
\* resubmission of a recorded request finds the rows of the first, the
\* reservations add up to what the recorded runs asked for, and the direct runs
\* stay within MAX_CODING_QUOTA_UNITS between them.
THEOREM TablesAlwaysAgree == Spec => []TablesAgree
<1>1. IInv => TablesAgree
  BY Zenon DEF IInv, TablesAgree
<1> QED BY <1>1, Inductive, PTL

\* claim_next hands commands out in submission order, and a claim that is still
\* open belongs to the authority epoch in force: the trigger of migration 0021
\* leaves no open claim of an earlier one.
THEOREM DispatchStaysOrderly == Spec => []DispatchIsOrderly
<1> QED BY Inductive, PTL DEF IInv
-----------------------------------------------------------------------------
(* The tables implement the command lifecycle.                              *)

\* A step that changes the stage of no command but c.
LEMMA OneStage ==
  ASSUME NEW c \in Commands,
         \A d \in Commands \ {c} :
           commands'[d] = commands[d] /\ claims'[d] = claims[d]
  PROVE  /\ [d \in Commands |-> Stage(d)]' =
              [[d \in Commands |-> Stage(d)] EXCEPT ![c] = Stage(c)']
         /\ [d \in Commands |-> HandedTo(d)]' =
              [[d \in Commands |-> HandedTo(d)] EXCEPT ![c] = HandedTo(c)']
<1>1. \A d \in Commands \ {c} : Stage(d)' = Stage(d) /\ HandedTo(d)' = HandedTo(d)
  BY Zenon DEF Stage, HandedTo
<1> QED BY <1>1, Zenon

LEMMA StageSteps ==
  ASSUME IInv, NEW c \in Commands
  PROVE  /\ SubmitCommand(c) => /\ Stage(c) = "absent" /\ Stage(c)' = "queued"
                                /\ HandedTo(c)' = HandedTo(c)
         /\ ReconcileOffline(c) => /\ Stage(c) = "queued" /\ Stage(c)' = "resolved"
                                   /\ HandedTo(c)' = HandedTo(c)
         /\ \A o \in Owners :
              /\ ClaimCommand(o, c) => /\ Stage(c) = "queued" /\ Stage(c)' = "held"
                                       /\ HandedTo(c)' = o
              /\ RefuseUnsupported(o, c) => /\ Stage(c) = "queued"
                                            /\ Stage(c)' = "resolved"
                                            /\ HandedTo(c)' = HandedTo(c)
              /\ \A r \in Receipts : SettleCommand(o, c, r) =>
                    /\ Stage(c) = "held" /\ Stage(c)' = "resolved"
                    /\ HandedTo(c)' = HandedTo(c)
<1>1. /\ commands \in [Commands -> CommandRow \cup {None}]
      /\ claims \in [Commands -> ClaimRow \cup {None}]
      /\ epoch \in 1..MaxEpoch
  BY Zenon DEF IInv, TypeOK
<1>2. ASSUME SubmitCommand(c)
      PROVE  /\ Stage(c) = "absent" /\ Stage(c)' = "queued" /\ HandedTo(c)' = HandedTo(c)
  <2>1. [phase |-> "pending", response |-> None] \in CommandRow
    BY Zenon DEF CommandRow, Phases
  <2>2. commands[c] = None /\ claims[c] = None /\ claims'[c] = None
        /\ commands'[c] = [phase |-> "pending", response |-> None]
    BY <1>1, <1>2, Zenon DEF SubmitCommand, Fresh, IInv, RowInv
  <2> QED BY <2>1, <2>2, NoneIsNoRow DEF Stage, HandedTo
<1>3. ASSUME ReconcileOffline(c)
      PROVE  /\ Stage(c) = "queued" /\ Stage(c)' = "resolved"
             /\ HandedTo(c)' = HandedTo(c)
  <2>1. /\ commands[c] # None /\ commands[c].phase = "pending"
        /\ outbox[c].phase = "pending" /\ commands[c].response # "offline"
    BY <1>3, Zenon DEF ReconcileOffline, Reconcilable, IInv, RowInv
  <2>2. claims[c] = None
    BY <2>1, Zenon DEF IInv, ProjectionTruth, Projects, ProjectsPending, Recorded
  <2>3. claims'[c] = None /\ commands'[c] \in CommandRow /\ commands'[c].phase # "pending"
    BY <1>1, <1>3, <2>2, Zenon DEF ReconcileOffline, CommandRow, Phases, Responses
  <2> QED BY <2>1, <2>2, <2>3, NoneIsNoRow, Zenon DEF Stage, HandedTo
<1>4. ASSUME NEW o \in Owners, ClaimCommand(o, c)
      PROVE  /\ Stage(c) = "queued" /\ Stage(c)' = "held" /\ HandedTo(c)' = o
  <2>1. /\ commands[c] # None /\ commands[c].phase = "pending" /\ claims[c] = None
        /\ commands' = commands
    BY <1>4, Zenon DEF ClaimCommand, Claimable, OldestPending, Queued, Recorded
  <2>2. claims'[c] = [owner |-> o, epoch |-> epoch,
                      disposition |-> "CLAIMED", completion |-> None]
    BY <1>1, <1>4, Zenon DEF ClaimCommand
  <2>3. claims'[c] \in ClaimRow
    BY <1>1, <2>2 DEF ClaimRow, Dispositions
  <2> QED BY <2>1, <2>2, <2>3, NoneIsNoRow DEF Stage, HandedTo
<1>5. ASSUME NEW o \in Owners, RefuseUnsupported(o, c)
      PROVE  /\ Stage(c) = "queued" /\ Stage(c)' = "resolved"
             /\ HandedTo(c)' = HandedTo(c)
  <2>1. /\ commands[c] # None /\ commands[c].phase = "pending" /\ claims[c] = None
    BY <1>5, Zenon DEF RefuseUnsupported, Claimable, OldestPending, Queued, Recorded
  <2>2. claims'[c].disposition = "FAILED"
        /\ commands'[c] = [phase |-> "failed", response |-> "refused"]
    BY <1>1, <1>5, Zenon DEF RefuseUnsupported
  <2>3. commands'[c] \in CommandRow
    BY <2>2 DEF CommandRow, Phases, Responses
  <2> QED BY <2>1, <2>2, <2>3, NoneIsNoRow DEF Stage, HandedTo
<1>6. ASSUME NEW o \in Owners, NEW r \in Receipts, SettleCommand(o, c, r)
      PROVE  /\ Stage(c) = "held" /\ Stage(c)' = "resolved"
             /\ HandedTo(c)' = HandedTo(c)
  <2>1. /\ claims[c] # None /\ claims[c] \in ClaimRow /\ claims[c].disposition = "CLAIMED"
        /\ commands[c].phase = "pending" /\ commands[c] # None
    BY <1>6, RowTypes, Zenon DEF SettleCommand, Settleable
  <2>2. /\ claims'[c] = [claims[c] EXCEPT !.disposition = "UNKNOWN", !.completion = r]
        /\ commands'[c] = [phase |-> "unknown", response |-> r]
    BY <1>1, <1>6, Zenon DEF SettleCommand
  <2>3. /\ claims'[c] \in ClaimRow /\ claims'[c].owner = claims[c].owner
        /\ claims'[c].disposition = "UNKNOWN"
    BY <2>1, <2>2, Zenon DEF ClaimRow, Dispositions, Responses
  <2>4. commands'[c] \in CommandRow
    BY <2>2 DEF CommandRow, Phases, Responses
  <2> QED BY <2>1, <2>2, <2>3, <2>4, NoneIsNoRow DEF Stage, HandedTo
<1> QED BY <1>2, <1>3, <1>4, <1>5, <1>6, Zenon

LEMMA LifecycleStepHolds ==
  ASSUME IInv, Next
  PROVE  LifecycleStep
<1> DEFINE state == [d \in Commands |-> Stage(d)]
           owner == [d \in Commands |-> HandedTo(d)]
<1> USE DEF LifecycleStep, Lifecycle!LifecycleNext
<1>1. ASSUME NEW c \in Commands, SubmitCommand(c) PROVE LifecycleStep
  <2>1. \A d \in Commands \ {c} : commands'[d] = commands[d] /\ claims'[d] = claims[d]
    BY <1>1, Zenon DEF SubmitCommand, IInv, TypeOK
  <2>2. Stage(c) = "absent" /\ Stage(c)' = "queued" /\ HandedTo(c)' = HandedTo(c)
    BY <1>1, StageSteps, Zenon
  <2>3. state' = [state EXCEPT ![c] = "queued"] /\ owner' = owner
    BY <2>1, <2>2, OneStage, Zenon
  <2>4. Lifecycle!Record(c)
    BY <2>2, <2>3, Zenon DEF Lifecycle!Record
  <2> QED BY <2>4, Zenon
<1>2. ASSUME NEW c \in Commands, IssueNonce(c) PROVE LifecycleStep
  BY <1>2, Zenon DEF IssueNonce, Lifecycle!lifecycleVars, Stage, HandedTo
<1>3. ASSUME NEW c \in Commands, Stage(c) \in {"queued", "held"},
             Stage(c)' = "resolved", HandedTo(c)' = HandedTo(c),
             \A d \in Commands \ {c} :
               commands'[d] = commands[d] /\ claims'[d] = claims[d]
      PROVE  LifecycleStep
  <2>1. state' = [state EXCEPT ![c] = "resolved"] /\ owner' = owner
    BY <1>3, OneStage, Zenon
  <2>2. Lifecycle!Resolve(c)
    BY <1>3, <2>1, Zenon DEF Lifecycle!Resolve
  <2> QED BY <2>2, Zenon
<1>4. ASSUME NEW c \in Commands, ReconcileOffline(c) PROVE LifecycleStep
  <2>1. \A d \in Commands \ {c} : commands'[d] = commands[d] /\ claims'[d] = claims[d]
    BY <1>4, Zenon DEF ReconcileOffline, IInv, TypeOK
  <2> QED BY <1>3, <1>4, <2>1, StageSteps, Zenon
<1>5. ASSUME NEW c \in Commands, NEW o \in Owners, RefuseUnsupported(o, c)
      PROVE  LifecycleStep
  <2>1. \A d \in Commands \ {c} : commands'[d] = commands[d] /\ claims'[d] = claims[d]
    BY <1>5, Zenon DEF RefuseUnsupported, IInv, TypeOK
  <2> QED BY <1>3, <1>5, <2>1, StageSteps, Zenon
<1>6. ASSUME NEW c \in Commands, NEW o \in Owners, NEW r \in Receipts,
             SettleCommand(o, c, r)
      PROVE  LifecycleStep
  <2>1. \A d \in Commands \ {c} : commands'[d] = commands[d] /\ claims'[d] = claims[d]
    BY <1>6, Zenon DEF SettleCommand, IInv, TypeOK
  <2> QED BY <1>3, <1>6, <2>1, StageSteps, Zenon
<1>7. ASSUME NEW c \in Commands, NEW o \in Owners, ClaimCommand(o, c)
      PROVE  LifecycleStep
  <2>1. \A d \in Commands \ {c} : commands'[d] = commands[d] /\ claims'[d] = claims[d]
    BY <1>7, Zenon DEF ClaimCommand, IInv, TypeOK
  <2>2. Stage(c) = "queued" /\ Stage(c)' = "held" /\ HandedTo(c)' = o
    BY <1>7, StageSteps, Zenon
  <2>3. state' = [state EXCEPT ![c] = "held"] /\ owner' = [owner EXCEPT ![c] = o]
    BY <2>1, <2>2, OneStage, Zenon
  <2>4. Lifecycle!Hand(c, o)
    BY <2>2, <2>3, Zenon DEF Lifecycle!Hand
  <2> QED BY <2>4, Zenon
<1>8. CASE MoveAuthority
  <2>1. \A c \in Commands :
          /\ Stage(c)' = IF Stage(c) = "held" THEN "abandoned" ELSE Stage(c)
          /\ HandedTo(c)' = HandedTo(c)
    <3> SUFFICES ASSUME NEW c \in Commands
                 PROVE  /\ Stage(c)' = IF Stage(c) = "held" THEN "abandoned" ELSE Stage(c)
                        /\ HandedTo(c)' = HandedTo(c)
      BY Zenon
    <3>1. commands'[c] = commands[c] /\ claims'[c] = Invalidated(c)
      BY <1>8, Zenon DEF MoveAuthority
    <3>2. CASE claims[c] = None
      BY <3>1, <3>2, Zenon DEF Invalidated, Stage, HandedTo
    <3>3. CASE claims[c] # None
      <4>1. claims[c] \in ClaimRow /\ commands[c] # None
        BY <3>3, RowTypes, Zenon
      <4>2. /\ claims'[c] \in ClaimRow /\ claims'[c].owner = claims[c].owner
            /\ claims'[c].disposition = IF claims[c].disposition = "CLAIMED"
                                        THEN "INVALIDATED" ELSE claims[c].disposition
        BY <3>1, <3>3, <4>1, Zenon DEF Invalidated, ClaimRow, Dispositions
      <4>3. commands[c].phase = "pending" =>
              claims[c].disposition \in {"CLAIMED", "INVALIDATED"}
        <5>1. commands[c].phase = "pending" => Projects(c)
          BY <4>1, Zenon DEF IInv, RowInv, ProjectionTruth, Recorded
        <5> QED BY <3>3, <5>1, Zenon DEF Projects, ProjectsPending
      <4> QED BY <3>1, <3>3, <4>1, <4>2, <4>3, NoneIsNoRow, Zenon DEF Stage, HandedTo
    <3> QED BY <3>2, <3>3, Zenon
  <2>2. owner' = owner
        /\ state' = [c \in Commands |-> IF state[c] = "held" THEN "abandoned" ELSE state[c]]
    BY <2>1, Zenon
  <2>3. CASE \E c \in Commands : state[c] = "held"
    <3>1. Lifecycle!Abandon
      BY <2>2, <2>3, Zenon DEF Lifecycle!Abandon
    <3> QED BY <3>1, Zenon
  <2>4. CASE \A c \in Commands : state[c] # "held"
    <3>1. state' = state
      BY <2>2, <2>4, Zenon
    <3> QED BY <2>2, <3>1, Zenon DEF Lifecycle!lifecycleVars
  <2> QED BY <2>3, <2>4, Zenon
<1> QED BY <1>1, <1>2, <1>4, <1>5, <1>6, <1>7, <1>8, Zenon DEF Next

\* The dispatch tables implement CommandLifecycle: whatever runners, settlements,
\* refusals, offline reconciliations and authority moves interleave, a command
\* is handed to at most one runner incarnation, gets at most one outcome, and
\* neither an outcome nor an abandonment is ever taken back.
THEOREM ImplementsLifecycle == Spec => LifecycleHolds
<1>1. Init => Lifecycle!LifecycleInit
  BY Zenon DEF Init, Lifecycle!LifecycleInit, Stage, HandedTo
<1>2. IInv /\ [Next]_tables => [tables' # tables => LifecycleStep]_tables
  <2>1. IInv /\ Next => LifecycleStep
    BY LifecycleStepHolds, Zenon
  <2> QED BY <2>1, Zenon
<1> QED BY <1>1, <1>2, Inductive, PTL DEF Spec, LifecycleHolds
=============================================================================
