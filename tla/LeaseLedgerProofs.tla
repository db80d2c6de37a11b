------------------------- MODULE LeaseLedgerProofs -------------------------
(***************************************************************************)
(* Proofs about LeaseLedger, for every value of the constants: the         *)
(* inductive invariant, the steps that preserve it, the safety properties  *)
(* that follow, and that the ledger implements FencedWriter.               *)
(***************************************************************************)
EXTENDS LeaseLedger, TLAPS

\* acquire_on writes an Attempt as Starting; no row is ever Created.
NoCreatedRow ==
  \A a \in Attempts : attempt[a] # NoRow => attempt[a].state # "Created"

\* Only a materialized package is leased, so a plan that is materialized
\* enqueues no leased package.
MaterializedWhenLeased ==
  \A v \in Variants : lease[v] # NoRow => package[PackageOf[v]] # "Absent"

\* The inductive invariant: the invariants the run checks need each other,
\* and the two facts above.
Inv ==
  /\ TypeOK
  /\ NoCreatedRow
  /\ MaterializedWhenLeased
  /\ LiveAttemptHoldsLease
  /\ HolderIsNewest
  /\ FencesNeverReused
  /\ OneWriterPerPackage
  /\ GrantsAgree
  /\ OutboxMatchesHistory

\* Leaves name a prover only where the default does not find the proof.
USE SMTT(20), ZenonT(20)

\* Live and terminal Attempt states are disjoint, "Created" is neither, and
\* terminal states have no outgoing edge.
LEMMA AttemptStateFacts ==
  /\ "Starting" \in LiveAttemptStates
  /\ "Crashed" \in TerminalAttemptStates
  /\ "Created" \notin LiveAttemptStates
  /\ LiveAttemptStates \cap TerminalAttemptStates = {}
  /\ LiveAttemptStates \subseteq AttemptStates
  /\ TerminalAttemptStates \subseteq AttemptStates
  /\ \A s, t : <<s, t>> \in AttemptTransition =>
       /\ s \in {"Created"} \cup LiveAttemptStates
       /\ t \in AttemptStates
       /\ t # "Created"
BY Zenon DEF LiveAttemptStates, TerminalAttemptStates, AttemptStates, AttemptTransition

\* Legal package edges join package states.
LEMMA PackageStateFacts ==
  /\ {"Ready", "Leased"} \subseteq PackageStates
  /\ \A s, t : <<s, t>> \in PackageTransition => s \in PackageStates /\ t \in PackageStates
BY DEF PackageStates, PackageTransition, OpenPackageStates

\* A stored row is not the null row, and has its fields' types.
LEMMA RowFacts ==
  ASSUME TypeOK
  PROVE  /\ \A v \in Variants : lease[v] # NoRow => lease[v] \in LeaseRow
         /\ \A a \in Attempts : attempt[a] # NoRow => attempt[a] \in AttemptRow
         /\ \A a \in Attempts : command[a] # NoRow => command[a] \in Grant
         /\ \A g \in returned : g \in Grant
BY Zenon DEF TypeOK

\* A lease row as database_window writes it.
LEMMA WindowRow ==
  ASSUME now \in Int, NEW a \in Attempts, NEW r \in Runners, NEW f \in Nat, NEW t \in Ttls
  PROVE  /\ Window(a, r, f, t) \in LeaseRow /\ Window(a, r, f, t) # NoRow
         /\ Window(a, r, f, t).attempt = a /\ Window(a, r, f, t).fence = f
         /\ Window(a, r, f, t).ttl = t /\ Window(a, r, f, t).heartbeat_at = now
         /\ Window(a, r, f, t).expires_at = now + t
<1>1. Window(a, r, f, t) \in LeaseRow
  BY LedgerConstants DEF LeaseRow, Window
<1> QED BY <1>1, NoRowIsNoRow, Zenon DEF Window

LEMMA InitInv == Init => Inv
<1> SUFFICES ASSUME Init PROVE Inv
  BY Zenon
<1>1. TypeOK
  BY LedgerConstants DEF Init, TypeOK, OutboxKinds
<1>2. NoCreatedRow /\ LiveAttemptHoldsLease /\ HolderIsNewest /\ FencesNeverReused
  BY Zenon DEF Init, NoCreatedRow, LiveAttemptHoldsLease, HolderIsNewest, FencesNeverReused
<1>3. OneWriterPerPackage /\ GrantsAgree
  BY Zenon DEF Init, OneWriterPerPackage, GrantsAgree
<1>5. MaterializedWhenLeased
  BY Zenon DEF Init, MaterializedWhenLeased
<1>4. OutboxMatchesHistory
  BY DEF Init, OutboxMatchesHistory, OutboxKinds
<1> QED BY <1>1, <1>2, <1>3, <1>4, <1>5, Zenon DEF Inv

\* Reclaiming changes the state column of the reclaimed Attempts only.
LEMMA ReclaimedType ==
  ASSUME TypeOK, NEW V \in SUBSET Variants,
         \A v \in V : lease[v] # NoRow /\ attempt[lease[v].attempt] # NoRow
  PROVE  Reclaimed(attempt, V) \in [Attempts -> AttemptRow \cup {NoRow}]
BY AttemptStateFacts, RowFacts, NoRowIsNoRow DEF TypeOK, Reclaimed, LeaseRow, AttemptRow

LEMMA EnqueuedType ==
  ASSUME TypeOK, NEW k \in OutboxKinds, NEW A
  PROVE  Enqueued(k, A) \in [OutboxKinds -> [Attempts -> Nat]]
BY DEF TypeOK, Enqueued

-----------------------------------------------------------------------------
(* Reclaims, and acquire_on with the reclaim it makes.                      *)

\* The holder rows of due leases belong to distinct, existing Attempts, and
\* reclaiming them moves those Attempts, and no other, to Crashed.
LEMMA ReclaimFacts ==
  ASSUME Inv, NEW V \in SUBSET Variants,
         \A v \in V : lease[v] # NoRow /\ Reclaimable(v)
  PROVE  /\ \A v \in V : lease[v].attempt \in Attempts
         /\ Reclaimed(attempt, V) \in [Attempts -> AttemptRow \cup {NoRow}]
         /\ \A b \in Attempts :
              /\ Reclaimed(attempt, V)[b] = NoRow <=> attempt[b] = NoRow
              /\ attempt[b] # NoRow =>
                   /\ Reclaimed(attempt, V)[b].variant = attempt[b].variant
                   /\ Reclaimed(attempt, V)[b].fence = attempt[b].fence
                   /\ Reclaimed(attempt, V)[b].runner = attempt[b].runner
              /\ IF \E v \in V : lease[v].attempt = b
                 THEN /\ attempt[b] # NoRow
                      /\ attempt[b].state \in LiveAttemptStates
                      /\ attempt[b].variant \in V
                      /\ Reclaimed(attempt, V)[b].state = "Crashed"
                 ELSE Reclaimed(attempt, V)[b] = attempt[b]
<1> USE DEF Inv
<1>1. \A v \in V : /\ lease[v].attempt \in Attempts
                   /\ attempt[lease[v].attempt] \in AttemptRow
                   /\ attempt[lease[v].attempt] # NoRow
                   /\ attempt[lease[v].attempt].variant = v
                   /\ attempt[lease[v].attempt].state \in LiveAttemptStates
  BY RowFacts, Zenon DEF LeaseRow, HolderIsNewest, Reclaimable
<1>2. Reclaimed(attempt, V) \in [Attempts -> AttemptRow \cup {NoRow}]
  BY <1>1, ReclaimedType, Zenon
<1>3. ASSUME NEW b \in Attempts, \E v \in V : lease[v].attempt = b
      PROVE  /\ attempt[b] \in AttemptRow /\ attempt[b] # NoRow
             /\ attempt[b].state \in LiveAttemptStates
             /\ attempt[b].variant \in V
             /\ Reclaimed(attempt, V)[b] = [attempt[b] EXCEPT !.state = "Crashed"]
  BY <1>1, <1>3, Zenon DEF Reclaimed
<1>4. ASSUME NEW b \in Attempts, ~ \E v \in V : lease[v].attempt = b
      PROVE  Reclaimed(attempt, V)[b] = attempt[b]
  BY <1>4, Zenon DEF Reclaimed
<1>5. ASSUME NEW row \in AttemptRow
      PROVE  /\ [row EXCEPT !.state = "Crashed"] \in AttemptRow
             /\ [row EXCEPT !.state = "Crashed"].variant = row.variant
             /\ [row EXCEPT !.state = "Crashed"].fence = row.fence
             /\ [row EXCEPT !.state = "Crashed"].runner = row.runner
             /\ [row EXCEPT !.state = "Crashed"].state = "Crashed"
  BY AttemptStateFacts, Zenon DEF AttemptRow
<1>6. ASSUME NEW b \in Attempts, \E v \in V : lease[v].attempt = b
      PROVE  /\ Reclaimed(attempt, V)[b] # NoRow
             /\ Reclaimed(attempt, V)[b].variant = attempt[b].variant
             /\ Reclaimed(attempt, V)[b].fence = attempt[b].fence
             /\ Reclaimed(attempt, V)[b].runner = attempt[b].runner
             /\ Reclaimed(attempt, V)[b].state = "Crashed"
  <2> DEFINE row == attempt[b]
             crashed == [row EXCEPT !.state = "Crashed"]
  <2>1. row \in AttemptRow /\ Reclaimed(attempt, V)[b] = crashed
    BY <1>3, <1>6, Zenon
  <2> HIDE DEF row
  <2>2. /\ crashed \in AttemptRow /\ crashed.variant = row.variant
        /\ crashed.fence = row.fence /\ crashed.runner = row.runner
        /\ crashed.state = "Crashed"
    BY <2>1, <1>5, Zenon
  <2> HIDE DEF crashed
  <2> QED BY <2>1, <2>2, NoRowIsNoRow, Zenon DEF row
<1> HIDE DEF Inv
<1> QED BY <1>1, <1>2, <1>3, <1>4, <1>6, Zenon

\* One acquisition, seen through the rows it changes: the variant's dead
\* holder, if any, is crashed; the new Attempt is Starting and holds the
\* lease under the next fence.
LEMMA AcquireInv ==
  ASSUME Inv, NEW a \in Attempts, NEW v \in Variants, NEW r \in Runners,
         NEW t \in Ttls, AcquireLease(a, v, r, t)
  PROVE  Inv'
<1> DEFINE p      == PackageOf[v]
           dead   == IF Due(v) THEN {v} ELSE {}
           back   == IF Due(v) THEN Requeued({p}) ELSE {}
           f      == fence[v] + 1
           grant  == [attempt |-> a, variant |-> v, runner |-> r, fence |-> f,
                      ttl |-> t, expires_at |-> now + t]
           fresh  == [variant |-> v, runner |-> r, fence |-> f, state |-> "Starting"]
           Marked == Reclaimed(attempt, dead)
           gone   == {lease[u].attempt : u \in dead}
<1> USE DEF Inv
<1>1. /\ command[a] = NoRow /\ attempt[a] = NoRow
      /\ Due(v) => Reclaimable(v)
      /\ package[p] = "Ready" \/ p \in back
      /\ p \in ready \cup back
      /\ lease[v] = NoRow \/ Due(v)
      /\ fence' = [fence EXCEPT ![v] = f]
      /\ graphFence' = [graphFence EXCEPT ![v] = f]
      /\ attempt' = [Marked EXCEPT ![a] = fresh]
      /\ lease' = [lease EXCEPT ![v] = Window(a, r, f, t)]
      /\ ready' = ready \ {p}
      /\ package' = [package EXCEPT ![p] = "Leased"]
      /\ command' = [command EXCEPT ![a] = grant]
      /\ outbox' = [Enqueued("lease_reclaimed", gone) EXCEPT
                      !["dispatch_attempt"][a] = @ + 1]
      /\ returned' \in {returned, returned \cup {grant}}
      /\ UNCHANGED now
  BY Zenon DEF AcquireLease, NextFence
<1>2. /\ p \in Packages
      /\ dead \in SUBSET Variants
      /\ \A u \in dead : u = v /\ lease[u] # NoRow /\ Reclaimable(u)
      /\ \A b : b \in gone <=> (Due(v) /\ lease[v].attempt = b)
      /\ \A b : b \in gone <=> \E u \in dead : lease[u].attempt = b
      /\ v \notin dead => lease[v] = NoRow
      /\ v \in dead <=> Due(v)
      /\ p \in back => lease[v] # NoRow
  BY <1>1, LedgerConstants, Zenon DEF Due
<1>3. /\ fresh \in AttemptRow /\ Window(a, r, f, t) \in LeaseRow
      /\ f \in Nat /\ f > fence[v] /\ grant \in Grant
      /\ fresh # NoRow /\ Window(a, r, f, t) # NoRow /\ grant # NoRow
  BY LedgerConstants, AttemptStateFacts, NoRowIsNoRow
     DEF TypeOK, AttemptRow, LeaseRow, Grant, Window
<1>4. /\ Window(a, r, f, t).attempt = a /\ Window(a, r, f, t).fence = f
      /\ Window(a, r, f, t).runner = r
      /\ fresh.variant = v /\ fresh.fence = f /\ fresh.runner = r
      /\ fresh.state = "Starting"
      /\ grant.attempt = a /\ grant.variant = v /\ grant.fence = f /\ grant.runner = r
  BY Zenon DEF Window
<1> HIDE DEF p, dead, back, f, grant, fresh, Marked, gone
<1>5. /\ gone \subseteq Attempts
      /\ Marked \in [Attempts -> AttemptRow \cup {NoRow}]
      /\ \A b \in Attempts :
           /\ Marked[b] = NoRow <=> attempt[b] = NoRow
           /\ attempt[b] # NoRow => /\ Marked[b].variant = attempt[b].variant
                                    /\ Marked[b].fence = attempt[b].fence
                                    /\ Marked[b].runner = attempt[b].runner
           /\ b \in gone => /\ attempt[b] # NoRow
                            /\ attempt[b].state \in LiveAttemptStates
                            /\ attempt[b].variant = v
                            /\ Marked[b].state = "Crashed"
           /\ b \notin gone => Marked[b] = attempt[b]
  <2>1. /\ \A u \in dead : lease[u].attempt \in Attempts
        /\ Marked \in [Attempts -> AttemptRow \cup {NoRow}]
        /\ \A b \in Attempts :
             /\ Marked[b] = NoRow <=> attempt[b] = NoRow
             /\ attempt[b] # NoRow => /\ Marked[b].variant = attempt[b].variant
                                      /\ Marked[b].fence = attempt[b].fence
                                      /\ Marked[b].runner = attempt[b].runner
             /\ IF \E u \in dead : lease[u].attempt = b
                THEN /\ attempt[b] # NoRow
                     /\ attempt[b].state \in LiveAttemptStates
                     /\ attempt[b].variant \in dead
                     /\ Marked[b].state = "Crashed"
                ELSE Marked[b] = attempt[b]
    BY ONLY Inv, <1>2, ReclaimFacts, Zenon DEF Marked
  <2> QED BY <1>2, <2>1
<1>6. a \notin gone
  BY <1>1, <1>5, Zenon
<1>7. /\ attempt'[a] = fresh
      /\ \A b \in Attempts \ {a} :
           /\ attempt'[b] = NoRow <=> attempt[b] = NoRow
           /\ attempt[b] # NoRow => /\ attempt'[b].variant = attempt[b].variant
                                    /\ attempt'[b].fence = attempt[b].fence
                                    /\ attempt'[b].runner = attempt[b].runner
           /\ b \in gone => attempt'[b].state = "Crashed"
           /\ b \notin gone => attempt'[b] = attempt[b]
  BY <1>1, <1>5, Zenon
<1>8. /\ lease'[v] = Window(a, r, f, t)
      /\ \A u \in Variants \ {v} : lease'[u] = lease[u]
      /\ fence'[v] = f
      /\ \A u \in Variants \ {v} : fence'[u] = fence[u]
      /\ command'[a] = grant
      /\ \A b \in Attempts \ {a} : command'[b] = command[b]
      /\ package'[p] = "Leased"
      /\ \A q \in Packages \ {p} : package'[q] = package[q]
  BY <1>1, <1>2 DEF TypeOK
<1>9. /\ \A b \in Attempts : outbox'["lease_reclaimed"][b] =
           outbox["lease_reclaimed"][b] + (IF b \in gone THEN 1 ELSE 0)
      /\ \A b \in Attempts : outbox'["dispatch_attempt"][b] =
           outbox["dispatch_attempt"][b] + (IF b = a THEN 1 ELSE 0)
      /\ outbox' \in [OutboxKinds -> [Attempts -> Nat]]
  <2>1. Enqueued("lease_reclaimed", gone) \in [OutboxKinds -> [Attempts -> Nat]]
    BY EnqueuedType, Zenon DEF OutboxKinds
  <2>2. /\ Enqueued("lease_reclaimed", gone)["dispatch_attempt"] = outbox["dispatch_attempt"]
        /\ \A b \in Attempts : Enqueued("lease_reclaimed", gone)["lease_reclaimed"][b] =
             outbox["lease_reclaimed"][b] + (IF b \in gone THEN 1 ELSE 0)
    BY DEF Enqueued, TypeOK, OutboxKinds
  <2> QED BY <1>1, <2>1, <2>2 DEF TypeOK, OutboxKinds
<1>10. TypeOK'
  BY <1>1, <1>2, <1>3, <1>5, <1>9, PackageStateFacts, Zenon DEF TypeOK
<1>11. NoCreatedRow'
  BY <1>4, <1>7 DEF NoCreatedRow
<1>12. \A u \in Variants \ {v} : PackageOf[u] = p => lease[u] = NoRow
  BY <1>1, <1>2, Zenon DEF OneWriterPerPackage, p
<1>13. \A b \in Attempts \ {a} : attempt[b] # NoRow =>
         attempt[b].fence \in 1..fence[attempt[b].variant] /\ attempt[b].variant \in Variants
  BY RowFacts, Zenon DEF FencesNeverReused, AttemptRow
<1>14. LiveAttemptHoldsLease'
  <2> SUFFICES ASSUME NEW b \in Attempts, attempt'[b] # NoRow,
                      attempt'[b].state \in LiveAttemptStates
               PROVE  LET row == lease'[attempt'[b].variant]
                      IN /\ row # NoRow /\ row.attempt = b
                         /\ row.fence = attempt'[b].fence
                         /\ row.runner = attempt'[b].runner
    BY Zenon DEF LiveAttemptHoldsLease
  <2>1. CASE b = a
    BY <2>1, <1>3, <1>4, <1>7, <1>8
  <2>2. CASE b # a
    <3>1. b \notin gone /\ attempt'[b] = attempt[b]
      BY <2>2, <1>7, AttemptStateFacts, Zenon
    <3>2. attempt[b].variant # v
      BY <3>1, <1>1, <1>2 DEF LiveAttemptHoldsLease
    <3>3. lease'[attempt[b].variant] = lease[attempt[b].variant]
      BY <2>2, <3>1, <3>2, <1>8, <1>13, Zenon
    <3> QED BY <3>1, <3>3 DEF LiveAttemptHoldsLease
  <2> QED BY <2>1, <2>2, Zenon
<1>15. HolderIsNewest'
  <2> SUFFICES ASSUME NEW u \in Variants, lease'[u] # NoRow
               PROVE  HolderIsNewest!(u)!2'
    BY Zenon DEF HolderIsNewest
  <2>1. CASE u = v
    <3>1. \A b \in Attempts \ {a} : attempt'[b] # NoRow /\ attempt'[b].variant = v =>
            attempt'[b].fence < f
      BY <1>3, <1>7, <1>13 DEF TypeOK
    <3> QED BY <2>1, <3>1, <1>3, <1>4, <1>7, <1>8
  <2>2. CASE u # v
    <3>1. /\ lease'[u] = lease[u] /\ fence'[u] = fence[u]
          /\ lease[u].attempt \in Attempts \ {a}
          /\ attempt'[a].variant # u
      BY <2>2, <1>1, <1>4, <1>7, <1>8, RowFacts DEF HolderIsNewest, LeaseRow
    <3> QED BY <2>2, <3>1, <1>7 DEF HolderIsNewest
  <2> QED BY <2>1, <2>2, Zenon
<1>16. FencesNeverReused'
  <2>1. \A b \in Attempts \ {a} : attempt'[b] # NoRow /\ attempt'[b].variant = v =>
          attempt'[b].fence \in 1..fence[v]
    BY <1>7, <1>13, ZenonT(40)
  <2>2. ASSUME NEW b \in Attempts, attempt'[b] # NoRow
        PROVE  attempt'[b].fence \in 1..fence'[attempt'[b].variant]
    <3>1. CASE b = a
      BY <3>1, <1>3, <1>4, <1>7, <1>8 DEF TypeOK
    <3>2. CASE b # a /\ attempt'[b].variant = v
      BY <2>1, <2>2, <3>2, <1>3, <1>8 DEF TypeOK
    <3>3. CASE b # a /\ attempt'[b].variant # v
      BY <2>2, <3>3, <1>7, <1>8, <1>13
    <3> QED BY <3>1, <3>2, <3>3, Zenon
  <2>3. ASSUME NEW b \in Attempts, NEW c \in Attempts \ {b}, attempt'[b] # NoRow,
               attempt'[c] # NoRow, attempt'[c].variant = attempt'[b].variant
        PROVE  attempt'[c].fence # attempt'[b].fence
    <3>1. CASE b # a /\ c # a
      BY <2>3, <3>1, <1>7 DEF FencesNeverReused
    <3>2. CASE b = a \/ c = a
      BY <2>1, <2>3, <3>2, <1>3, <1>4, <1>7 DEF TypeOK
    <3> QED BY <3>1, <3>2, Zenon
  <2> QED BY <2>2, <2>3, Zenon DEF FencesNeverReused
<1>17. OneWriterPerPackage'
  <2> SUFFICES ASSUME NEW u \in Variants, lease'[u] # NoRow
               PROVE  /\ PackageOf[u] \notin ready'
                      /\ \A w \in Variants \ {u} : PackageOf[w] = PackageOf[u] =>
                           lease'[w] = NoRow
    BY Zenon DEF OneWriterPerPackage
  <2>1. CASE u = v
    BY <2>1, <1>1, <1>8, <1>12, Zenon DEF p
  <2>2. CASE u # v
    BY <2>2, <1>1, <1>8, <1>12 DEF OneWriterPerPackage, p
  <2> QED BY <2>1, <2>2, Zenon
<1>18. GrantsAgree'
  <2>1. \A g \in returned : g.attempt \in Attempts \ {a}
    BY <1>1, NoRowIsNoRow, RowFacts DEF GrantsAgree, Grant
  <2>2. \A g \in returned' : command'[g.attempt] = g
    BY <2>1, <1>1, <1>4, <1>8 DEF GrantsAgree
  <2>3. ASSUME NEW b \in Attempts
        PROVE  GrantsAgree!2!(b)'
    BY <1>3, <1>4, <1>7, <1>8 DEF GrantsAgree
  <2> QED BY <2>2, <2>3, Zenon DEF GrantsAgree
<1>19. OutboxMatchesHistory'
  <2> SUFFICES ASSUME NEW b \in Attempts PROVE OutboxMatchesHistory!(b)'
    BY Zenon DEF OutboxMatchesHistory
  <2>1. CASE b \in gone
    <3>1. outbox["lease_reclaimed"][b] = 0 /\ b # a
      BY <2>1, <1>5, <1>6, Zenon DEF OutboxMatchesHistory, LiveAttemptStates
    <3>2. \A u \in Variants : lease'[u] # NoRow => lease'[u].attempt # b
      BY <2>1, <3>1, <1>4, <1>5, <1>8 DEF HolderIsNewest
    <3> QED BY <2>1, <3>1, <3>2, <1>5, <1>7, <1>9 DEF OutboxMatchesHistory
  <2>2. CASE b = a
    <3>1. outbox'["lease_reclaimed"][b] = 0 /\ outbox'["dispatch_attempt"][b] = 1
      BY <2>2, <1>1, <1>6, <1>9 DEF OutboxMatchesHistory
    <3> QED BY <2>2, <3>1, <1>3, <1>7
  <2>3. CASE b \notin gone /\ b # a
    <3>1. /\ outbox'["lease_reclaimed"][b] = outbox["lease_reclaimed"][b]
          /\ outbox'["dispatch_attempt"][b] = outbox["dispatch_attempt"][b]
      BY <2>3, <1>9 DEF TypeOK, OutboxKinds
    <3>2. attempt'[b] = attempt[b]
      BY <2>3, <1>7, Zenon
    <3>3. (\A u \in Variants : lease[u] # NoRow => lease[u].attempt # b)
            => \A u \in Variants : lease'[u] # NoRow => lease'[u].attempt # b
      BY <2>3, <1>4, <1>8, Zenon
    <3> QED BY <3>1, <3>2, <3>3, Zenon DEF OutboxMatchesHistory
  <2> QED BY <2>1, <2>2, <2>3, Zenon
<1>20. MaterializedWhenLeased'
  BY <1>2, <1>8, LedgerConstants, ZenonT(40) DEF MaterializedWhenLeased, p
<1> QED BY <1>10, <1>11, <1>14, <1>15, <1>16, <1>17, <1>18, <1>19, <1>20, Zenon

-----------------------------------------------------------------------------
(* Each operation preserves the invariant. *)

LEMMA MaterializeInv == ASSUME Inv, Materialize PROVE Inv'
<1> USE DEF Inv, Materialize
<1>1. TypeOK'
  BY PackageStateFacts, Zenon DEF TypeOK
<1>2. \A v \in Variants : lease[v] = NoRow
  BY LedgerConstants, Zenon DEF MaterializedWhenLeased
<1>3. NoCreatedRow' /\ LiveAttemptHoldsLease' /\ HolderIsNewest' /\ FencesNeverReused'
  BY DEF NoCreatedRow, LiveAttemptHoldsLease, HolderIsNewest, FencesNeverReused
<1>4. OneWriterPerPackage' /\ MaterializedWhenLeased'
  BY <1>2, Zenon DEF OneWriterPerPackage, MaterializedWhenLeased
<1>5. GrantsAgree' /\ OutboxMatchesHistory'
  BY DEF GrantsAgree, OutboxMatchesHistory
<1> QED BY <1>1, <1>3, <1>4, <1>5, Zenon

LEMMA ReplayInv ==
  ASSUME Inv, NEW a \in Attempts, NEW v \in Variants, NEW r \in Runners,
         NEW t \in Ttls, ReplayAcquire(a, v, r, t)
  PROVE  Inv'
<1> USE DEF Inv, ReplayAcquire, ledger
<1>1. command[a] \in Grant
  BY RowFacts, Zenon
<1>2. TypeOK'
  BY <1>1, Zenon DEF TypeOK
<1>3. /\ NoCreatedRow' /\ LiveAttemptHoldsLease' /\ HolderIsNewest'
      /\ FencesNeverReused' /\ MaterializedWhenLeased'
  BY DEF NoCreatedRow, LiveAttemptHoldsLease, HolderIsNewest, FencesNeverReused,
         MaterializedWhenLeased
<1>4. OneWriterPerPackage' /\ OutboxMatchesHistory'
  BY Zenon DEF OneWriterPerPackage, OutboxMatchesHistory
<1>5. GrantsAgree'
  BY Zenon DEF GrantsAgree
<1> QED BY <1>2, <1>3, <1>4, <1>5, Zenon

\* A heartbeat moves the window and keeps every row's identity columns.
LEMMA HeartbeatKeeps ==
  ASSUME TypeOK, NEW v \in Variants, NEW a, NEW f, NEW r, NEW t \in Ttls,
         Heartbeat(v, a, f, r, t)
  PROVE  /\ lease' \in [Variants -> LeaseRow \cup {NoRow}]
         /\ \A u \in Variants :
              /\ lease'[u] = NoRow <=> lease[u] = NoRow
              /\ lease[u] # NoRow => /\ lease'[u].attempt = lease[u].attempt
                                     /\ lease'[u].fence = lease[u].fence
                                     /\ lease'[u].runner = lease[u].runner
<1> USE DEF Heartbeat
<1>1. lease[v] \in LeaseRow
  BY RowFacts, Zenon
<1>2. a \in Attempts /\ r \in Runners /\ f \in Nat /\ now \in Int
  BY <1>1, Zenon DEF LeaseRow, TypeOK
<1>3. Window(a, r, f, t) \in LeaseRow /\ Window(a, r, f, t) # NoRow
  BY ONLY <1>2, WindowRow, t \in Ttls
<1> QED BY <1>3, Zenon DEF TypeOK, Window

LEMMA HeartbeatInv ==
  ASSUME Inv, NEW v \in Variants, NEW a, NEW f, NEW r, NEW t \in Ttls,
         Heartbeat(v, a, f, r, t)
  PROVE  Inv'
<1> USE DEF Inv, Heartbeat
<1>4. /\ lease' \in [Variants -> LeaseRow \cup {NoRow}]
      /\ \A u \in Variants :
           /\ lease'[u] = NoRow <=> lease[u] = NoRow
           /\ lease[u] # NoRow => /\ lease'[u].attempt = lease[u].attempt
                                  /\ lease'[u].fence = lease[u].fence
                                  /\ lease'[u].runner = lease[u].runner
  BY HeartbeatKeeps, Zenon
<1>2. /\ UNCHANGED <<now, fence, graphFence, attempt, package, ready, command, outbox, returned>>
      /\ TypeOK
  BY Zenon
<1>3. TypeOK'
  BY ONLY <1>2, <1>4, Zenon DEF TypeOK
<1>5. LiveAttemptHoldsLease'
  BY <1>4, RowFacts DEF LiveAttemptHoldsLease, AttemptRow
<1>6. HolderIsNewest'
  BY <1>4 DEF HolderIsNewest
<1>7. NoCreatedRow' /\ FencesNeverReused' /\ GrantsAgree'
  BY DEF NoCreatedRow, FencesNeverReused, GrantsAgree
<1>8. OneWriterPerPackage' /\ OutboxMatchesHistory' /\ MaterializedWhenLeased'
  BY <1>4 DEF OneWriterPerPackage, OutboxMatchesHistory, MaterializedWhenLeased
<1> QED BY <1>3, <1>5, <1>6, <1>7, <1>8, Zenon

LEMMA PutAttemptInv ==
  ASSUME Inv, NEW a \in Attempts, NEW s, PutAttempt(a, s)
  PROVE  Inv'
<1> USE DEF Inv, PutAttempt
<1>1. attempt[a] \in AttemptRow /\ s \in AttemptStates /\ s # "Created"
  BY RowFacts, AttemptStateFacts, Zenon
<1>2. attempt' = [attempt EXCEPT ![a] = [attempt[a] EXCEPT !.state = s]]
  BY Zenon DEF TypeOK
<1>3. [attempt[a] EXCEPT !.state = s] \in AttemptRow
  BY <1>1, Zenon DEF AttemptRow
<1>4. TypeOK'
  BY <1>2, <1>3, Zenon DEF TypeOK
<1>5. \A b \in Attempts :
        /\ attempt'[b] = NoRow <=> attempt[b] = NoRow
        /\ attempt[b] # NoRow => /\ attempt'[b].variant = attempt[b].variant
                                 /\ attempt'[b].fence = attempt[b].fence
                                 /\ attempt'[b].runner = attempt[b].runner
        /\ attempt'[b] = attempt[b] \/ (b = a /\ attempt'[b].state = s)
  BY <1>1, <1>2, <1>3, NoRowIsNoRow DEF TypeOK, AttemptRow
<1>6. attempt[a].state \in LiveAttemptStates
  BY AttemptStateFacts, Zenon DEF NoCreatedRow
<1>7. NoCreatedRow'
  BY <1>1, <1>5, Zenon DEF NoCreatedRow
<1>8. LiveAttemptHoldsLease'
  BY <1>5, <1>6 DEF LiveAttemptHoldsLease
<1>9. HolderIsNewest'
  <2> SUFFICES ASSUME NEW v \in Variants, lease[v] # NoRow
               PROVE  /\ attempt'[lease[v].attempt] # NoRow
                      /\ attempt'[lease[v].attempt].variant = v
                      /\ attempt'[lease[v].attempt].fence = fence[v]
                      /\ lease[v].fence = fence[v]
                      /\ \A b \in Attempts \ {lease[v].attempt} :
                           attempt'[b] # NoRow /\ attempt'[b].variant = v =>
                             attempt'[b].fence < fence[v]
    BY DEF HolderIsNewest
  <2>1. lease[v].attempt \in Attempts
    BY RowFacts, Zenon DEF LeaseRow
  <2> QED BY <2>1, <1>5 DEF HolderIsNewest
<1>10. FencesNeverReused'
  BY <1>5 DEF FencesNeverReused
<1>11. GrantsAgree'
  BY <1>5 DEF GrantsAgree
<1>12. OneWriterPerPackage' /\ MaterializedWhenLeased'
  BY Zenon DEF OneWriterPerPackage, MaterializedWhenLeased
<1>13. OutboxMatchesHistory'
  BY <1>5, <1>6, AttemptStateFacts DEF OutboxMatchesHistory
<1> QED BY <1>4, <1>7, <1>8, <1>9, <1>10, <1>11, <1>12, <1>13, Zenon

LEMMA GraphAndClockInv ==
  ASSUME Inv,
         \/ \E p \in Packages, s \in DeltaTargets : SetPackageState(p, s)
         \/ \E v \in Variants : BumpFence(v)
         \/ Tick
         \/ ClockSetBack
  PROVE  Inv'
<1> USE DEF Inv
<1>1. /\ UNCHANGED <<fence, lease, attempt, ready, command, outbox, returned>>
      /\ \A p \in Packages : package[p] # "Absent" => package'[p] # "Absent"
  BY PackageStateFacts, ZenonT(40) DEF SetPackageState, BumpFence, Tick, ClockSetBack, ledger,
     TypeOK, PackageStates
<1>2. TypeOK'
  <2>1. ASSUME NEW p \in Packages, NEW s \in DeltaTargets, SetPackageState(p, s)
        PROVE  TypeOK'
    BY <2>1, PackageStateFacts, Zenon DEF TypeOK, SetPackageState
  <2>2. ASSUME NEW v \in Variants, BumpFence(v) PROVE TypeOK'
    BY <2>2 DEF TypeOK, BumpFence
  <2>3. ASSUME Tick \/ ClockSetBack PROVE TypeOK'
    BY <2>3, LedgerConstants DEF TypeOK, Tick, ClockSetBack, ledger
  <2> QED BY <2>1, <2>2, <2>3, Zenon
<1>3. MaterializedWhenLeased'
  BY <1>1, LedgerConstants, Zenon DEF MaterializedWhenLeased
<1>4. /\ NoCreatedRow' /\ LiveAttemptHoldsLease' /\ HolderIsNewest'
      /\ FencesNeverReused' /\ OneWriterPerPackage' /\ GrantsAgree'
      /\ OutboxMatchesHistory'
  <2>1. NoCreatedRow' /\ LiveAttemptHoldsLease' /\ OneWriterPerPackage'
    BY <1>1, Zenon DEF NoCreatedRow, LiveAttemptHoldsLease, OneWriterPerPackage
  <2>2. HolderIsNewest' /\ FencesNeverReused'
    BY <1>1, Zenon DEF HolderIsNewest, FencesNeverReused
  <2>3. GrantsAgree' /\ OutboxMatchesHistory'
    BY <1>1, Zenon DEF GrantsAgree, OutboxMatchesHistory
  <2> QED BY <2>1, <2>2, <2>3, Zenon
<1> QED BY <1>2, <1>3, <1>4, Zenon

LEMMA ReleaseInv ==
  ASSUME Inv, NEW v \in Variants, NEW a, NEW final, NEW requeue \in BOOLEAN,
         ReleaseLease(v, a, final, requeue)
  PROVE  Inv'
<1> DEFINE back == IF requeue THEN Requeued({PackageOf[v]}) ELSE {}
<1> USE DEF Inv
<1>1. /\ final \in TerminalAttemptStates
      /\ lease[v] # NoRow /\ lease[v].attempt = a
      /\ <<attempt[a].state, final>> \in AttemptTransition
      /\ attempt' = [attempt EXCEPT ![a].state = final]
      /\ lease' = [lease EXCEPT ![v] = NoRow]
      /\ package' = [p \in Packages |-> IF p \in back THEN "Ready" ELSE package[p]]
      /\ ready' = ready \cup back
      /\ UNCHANGED <<now, fence, graphFence, command, outbox, returned>>
      /\ back \subseteq {PackageOf[v]}
      /\ PackageOf[v] \in Packages
  BY LedgerConstants, Zenon DEF ReleaseLease, Requeued
<1> HIDE DEF back
<1>2. a \in Attempts /\ attempt[a] # NoRow /\ attempt[a].variant = v
  BY <1>1, RowFacts, Zenon DEF LeaseRow, HolderIsNewest
<1>3. /\ [attempt[a] EXCEPT !.state = final] \in AttemptRow
      /\ attempt' = [attempt EXCEPT ![a] = [attempt[a] EXCEPT !.state = final]]
      /\ final \notin LiveAttemptStates /\ final # "Created"
  BY <1>1, <1>2, RowFacts, AttemptStateFacts DEF AttemptRow, TypeOK
<1>4. TypeOK'
  BY <1>1, <1>2, <1>3, PackageStateFacts DEF TypeOK
<1>5. \A b \in Attempts :
        /\ attempt'[b] = NoRow <=> attempt[b] = NoRow
        /\ attempt[b] # NoRow => /\ attempt'[b].variant = attempt[b].variant
                                 /\ attempt'[b].fence = attempt[b].fence
                                 /\ attempt'[b].runner = attempt[b].runner
        /\ b # a => attempt'[b] = attempt[b]
  BY <1>2, <1>3, NoRowIsNoRow, Zenon DEF TypeOK, AttemptRow
<1>6. attempt'[a].state = final
  BY <1>2, <1>3, RowFacts, Zenon DEF TypeOK, AttemptRow
<1>7. \A u \in Variants : u # v => lease'[u] = lease[u]
  BY <1>1, Zenon DEF TypeOK
<1>8. lease'[v] = NoRow
  BY <1>1, Zenon DEF TypeOK
<1>9. NoCreatedRow'
  BY <1>3, <1>5, <1>6, Zenon DEF NoCreatedRow
<1>10. LiveAttemptHoldsLease'
  <2> SUFFICES ASSUME NEW b \in Attempts, attempt'[b] # NoRow,
                      attempt'[b].state \in LiveAttemptStates
               PROVE  LET row == lease'[attempt'[b].variant]
                      IN /\ row # NoRow /\ row.attempt = b
                         /\ row.fence = attempt'[b].fence
                         /\ row.runner = attempt'[b].runner
    BY Zenon DEF LiveAttemptHoldsLease
  <2>1. b # a /\ attempt'[b] = attempt[b] /\ attempt[b] # NoRow
    BY <1>3, <1>5, <1>6, Zenon
  <2>2. attempt[b].variant \in Variants /\ attempt[b].variant # v
    BY <1>1, <2>1, RowFacts, Zenon DEF LiveAttemptHoldsLease, AttemptRow
  <2> QED BY <2>1, <2>2, <1>7 DEF LiveAttemptHoldsLease
<1>11. HolderIsNewest'
  <2> SUFFICES ASSUME NEW u \in Variants, lease'[u] # NoRow
               PROVE  HolderIsNewest!(u)!2'
    BY Zenon DEF HolderIsNewest
  <2> QED BY <1>1, <1>5, <1>7, <1>8, RowFacts DEF HolderIsNewest, LeaseRow
<1>12. FencesNeverReused'
  BY <1>1, <1>5 DEF FencesNeverReused
<1>13. OneWriterPerPackage'
  BY <1>1, <1>7, <1>8, Zenon DEF OneWriterPerPackage
<1>14. GrantsAgree'
  BY <1>1, <1>5 DEF GrantsAgree
<1>15. OutboxMatchesHistory'
  <2>1. \A b \in Attempts : outbox["lease_reclaimed"][b] = 1 => b # a
    BY <1>1, Zenon DEF OutboxMatchesHistory
  <2> QED BY <2>1, <1>1, <1>5, <1>7, <1>8 DEF OutboxMatchesHistory
<1>16. MaterializedWhenLeased'
  BY <1>1, <1>7, <1>8, LedgerConstants, Zenon DEF MaterializedWhenLeased, TypeOK
<1> QED BY <1>4, <1>9, <1>10, <1>11, <1>12, <1>13, <1>14, <1>15, <1>16, Zenon

LEMMA ExpireInv == ASSUME Inv, ExpireLeases PROVE Inv'
<1> DEFINE due  == {v \in Variants : Due(v)}
           back == Requeued({PackageOf[v] : v \in due})
           gone == {lease[v].attempt : v \in due}
<1> USE DEF Inv
<1>1. /\ \A v \in due : lease[v] # NoRow /\ Reclaimable(v)
      /\ due \in SUBSET Variants
      /\ attempt' = Reclaimed(attempt, due)
      /\ lease' = [v \in Variants |-> IF v \in due THEN NoRow ELSE lease[v]]
      /\ package' = [p \in Packages |-> IF p \in back THEN "Ready" ELSE package[p]]
      /\ ready' = ready \cup back
      /\ outbox' = Enqueued("lease_reclaimed", gone)
      /\ UNCHANGED <<now, fence, graphFence, command, returned>>
  BY Zenon DEF ExpireLeases, Due
<1>2. back \subseteq Packages /\ \A p \in back : \E v \in due : p = PackageOf[v]
  BY LedgerConstants, Zenon DEF Requeued
<1>3. \A b : b \in gone <=> \E v \in due : lease[v].attempt = b
  BY Zenon
<1> HIDE DEF due, back, gone
<1>4. \A v \in Variants : /\ v \in due => lease'[v] = NoRow
                          /\ v \notin due => lease'[v] = lease[v]
  BY <1>1, Zenon
<1>5. /\ gone \subseteq Attempts
      /\ attempt' \in [Attempts -> AttemptRow \cup {NoRow}]
      /\ \A b \in Attempts :
           /\ attempt'[b] = NoRow <=> attempt[b] = NoRow
           /\ attempt[b] # NoRow => /\ attempt'[b].variant = attempt[b].variant
                                    /\ attempt'[b].fence = attempt[b].fence
                                    /\ attempt'[b].runner = attempt[b].runner
           /\ b \in gone => /\ attempt[b] # NoRow
                            /\ attempt[b].state \in LiveAttemptStates
                            /\ attempt[b].variant \in due
                            /\ attempt'[b].state = "Crashed"
           /\ b \notin gone => attempt'[b] = attempt[b]
  BY <1>1, <1>3, ReclaimFacts
<1>6. /\ outbox'["dispatch_attempt"] = outbox["dispatch_attempt"]
      /\ \A b \in Attempts : outbox'["lease_reclaimed"][b] =
           outbox["lease_reclaimed"][b] + (IF b \in gone THEN 1 ELSE 0)
  BY <1>1 DEF Enqueued, TypeOK, OutboxKinds
<1>7. TypeOK'
  <2>1. outbox' \in [OutboxKinds -> [Attempts -> Nat]]
    BY <1>1, EnqueuedType, Zenon DEF OutboxKinds
  <2> QED BY <1>1, <1>2, <1>5, <2>1, PackageStateFacts, Zenon DEF TypeOK
<1>8. NoCreatedRow'
  BY <1>5, Zenon DEF NoCreatedRow
<1>9. LiveAttemptHoldsLease'
  <2> SUFFICES ASSUME NEW b \in Attempts, attempt'[b] # NoRow,
                      attempt'[b].state \in LiveAttemptStates
               PROVE  LET row == lease'[attempt'[b].variant]
                      IN /\ row # NoRow /\ row.attempt = b
                         /\ row.fence = attempt'[b].fence
                         /\ row.runner = attempt'[b].runner
    BY Zenon DEF LiveAttemptHoldsLease
  <2>1. b \notin gone /\ attempt'[b] = attempt[b]
    BY <1>5, AttemptStateFacts, Zenon
  <2>2. attempt[b].variant \in Variants /\ lease[attempt[b].variant].attempt = b
    BY <2>1, RowFacts, Zenon DEF LiveAttemptHoldsLease, AttemptRow
  <2>3. attempt[b].variant \notin due
    BY <2>1, <2>2, <1>3, Zenon
  <2> QED BY <2>1, <2>2, <2>3, <1>4 DEF LiveAttemptHoldsLease
<1>10. HolderIsNewest'
  <2> SUFFICES ASSUME NEW u \in Variants, lease'[u] # NoRow
               PROVE  HolderIsNewest!(u)!2'
    BY Zenon DEF HolderIsNewest
  <2>1. lease'[u] = lease[u] /\ lease[u] # NoRow /\ lease[u].attempt \in Attempts
    BY <1>4, RowFacts, Zenon DEF LeaseRow
  <2> QED BY <2>1, <1>1, <1>5 DEF HolderIsNewest
<1>11. FencesNeverReused'
  BY <1>1, <1>5 DEF FencesNeverReused
<1>12. OneWriterPerPackage'
  BY <1>1, <1>2, <1>4, Zenon DEF OneWriterPerPackage
<1>13. GrantsAgree'
  BY <1>1, <1>5 DEF GrantsAgree
<1>14. OutboxMatchesHistory'
  <2> SUFFICES ASSUME NEW b \in Attempts PROVE OutboxMatchesHistory!(b)'
    BY Zenon DEF OutboxMatchesHistory
  <2>1. CASE b \in gone
    <3>1. outbox["lease_reclaimed"][b] = 0
      BY <2>1, <1>5, Zenon DEF OutboxMatchesHistory, LiveAttemptStates
    <3>2. \A v \in Variants : lease'[v] # NoRow => lease'[v].attempt # b
      BY <2>1, <1>4, <1>5 DEF HolderIsNewest
    <3> QED BY <2>1, <3>1, <3>2, <1>5, <1>6 DEF OutboxMatchesHistory
  <2>2. CASE b \notin gone
    <3>1. outbox'["lease_reclaimed"][b] = outbox["lease_reclaimed"][b]
      BY <2>2, <1>6 DEF TypeOK, OutboxKinds
    <3> QED BY <2>2, <3>1, <1>4, <1>5, <1>6 DEF OutboxMatchesHistory
  <2> QED BY <2>1, <2>2, Zenon
<1>15. MaterializedWhenLeased'
  BY <1>1, <1>4, LedgerConstants, Zenon DEF MaterializedWhenLeased, TypeOK
<1> QED BY <1>7, <1>8, <1>9, <1>10, <1>11, <1>12, <1>13, <1>14, <1>15, Zenon
-----------------------------------------------------------------------------
(* The theorems. *)

LEMMA NextInv == Inv /\ [Next]_vars => Inv'
<1> SUFFICES ASSUME Inv, [Next]_vars PROVE Inv'
  BY Zenon
<1>1. ASSUME NEW g \in returned
      PROVE  g.variant \in Variants /\ g.ttl \in Ttls
  BY RowFacts, Zenon DEF Inv, Grant
<1>2. CASE Materialize
  BY <1>2, MaterializeInv, Zenon
<1>3. CASE \E a \in Attempts, v \in Variants, r \in Runners, t \in Ttls :
             AcquireLease(a, v, r, t) \/ ReplayAcquire(a, v, r, t)
  BY <1>3, AcquireInv, ReplayInv, Zenon
<1>4. CASE \E g \in returned :
             Heartbeat(g.variant, g.attempt, g.fence, g.runner, g.ttl)
  BY <1>1, <1>4, HeartbeatInv, Zenon
<1>5. CASE \E a \in Attempts, s \in AdvanceTargets : PutAttempt(a, s)
  BY <1>5, PutAttemptInv, Zenon
<1>6. CASE \E g \in returned, s \in ReleaseTargets, q \in BOOLEAN :
             ReleaseLease(g.variant, g.attempt, s, q)
  BY <1>1, <1>6, ReleaseInv, Zenon
<1>7. CASE ExpireLeases
  BY <1>7, ExpireInv, Zenon
<1>8. CASE \/ \E p \in Packages, s \in DeltaTargets : SetPackageState(p, s)
           \/ \E v \in Variants : BumpFence(v)
           \/ Tick
           \/ ClockSetBack
  BY <1>8, GraphAndClockInv, Zenon
<1>9. CASE UNCHANGED vars
  <2>1. UNCHANGED <<now, fence, graphFence, lease, attempt, package, ready, command, outbox,
                    returned>>
    BY <1>9, Zenon DEF vars, ledger
  <2>2. TypeOK'
    BY <2>1, Zenon DEF Inv, TypeOK
  <2>3. NoCreatedRow' /\ MaterializedWhenLeased' /\ OneWriterPerPackage'
    BY <2>1, Zenon DEF Inv, NoCreatedRow, MaterializedWhenLeased, OneWriterPerPackage
  <2>4. LiveAttemptHoldsLease' /\ HolderIsNewest' /\ FencesNeverReused'
    BY <2>1, Zenon DEF Inv, LiveAttemptHoldsLease, HolderIsNewest, FencesNeverReused
  <2>5. GrantsAgree' /\ OutboxMatchesHistory'
    BY <2>1, Zenon DEF Inv, GrantsAgree, OutboxMatchesHistory
  <2> QED BY <2>2, <2>3, <2>4, <2>5, Zenon DEF Inv
<1> QED BY <1>2, <1>3, <1>4, <1>5, <1>6, <1>7, <1>8, <1>9, Zenon DEF Next, SteadyNext

\* Every reachable state of the ledger satisfies the inductive invariant.
THEOREM LedgerInvariant == Spec => []Inv
<1> QED BY InitInv, NextInv, PTL DEF Spec

\* The rows acquire_on, heartbeat_lease, advance_attempt, release_lease and
\* expire_leases write have the types of the schema's CHECKs.
THEOREM LedgerTypes == Spec => []TypeOK
<1>1. Inv => TypeOK
  BY Zenon DEF Inv
<1> QED BY <1>1, LedgerInvariant, PTL

\* Single writer: a live Attempt of acquire_on holds its variant's lease,
\* for any number of variants, Attempts, runners and any clock.
THEOREM SingleWriter == Spec => []LiveAttemptHoldsLease
<1>1. Inv => LiveAttemptHoldsLease
  BY Zenon DEF Inv
<1> QED BY <1>1, LedgerInvariant, PTL

\* Fencing: the holder of a lease carries the newest fence of its variant.
THEOREM HolderNewest == Spec => []HolderIsNewest
<1>1. Inv => HolderIsNewest
  BY Zenon DEF Inv
<1> QED BY <1>1, LedgerInvariant, PTL

\* The ready row that acquire_on consumes is enough to keep sibling variants
\* of a package from being leased together.
THEOREM PackageExclusive == Spec => []OneWriterPerPackage
<1>1. Inv => OneWriterPerPackage
  BY Zenon DEF Inv
<1> QED BY <1>1, LedgerInvariant, PTL

\* One writer per variant and per package, and the newest one.
THEOREM OneWriterHolds == Spec => []OneWriter
<1> QED BY SingleWriter, HolderNewest, PackageExclusive, PTL DEF OneWriter

\* Idempotent acquisition and a truthful outbox: what a caller of acquire_on
\* holds is the stored response of its key, and dispatch and reclaim rows match
\* what became of each Attempt.
THEOREM Idempotent == Spec => []RecordsAgree
<1>1. Inv => RecordsAgree
  BY Zenon DEF Inv, RecordsAgree
<1> QED BY <1>1, LedgerInvariant, PTL

-----------------------------------------------------------------------------
(* The windows. *)

\* database_window writes the expiry a TTL after the heartbeat.
WindowsAreWhole ==
  \A v \in Variants : lease[v] # NoRow =>
    lease[v].expires_at = lease[v].heartbeat_at + lease[v].ttl

\* What a step makes of one lease row.
LEMMA LeaseRowMoves ==
  ASSUME Inv, [Next]_vars, NEW v \in Variants
  PROVE  \/ lease'[v] = lease[v]
         \/ /\ lease[v] = NoRow \/ Due(v)
            /\ \/ lease'[v] = NoRow
               \/ \E a \in Attempts, r \in Runners, t \in Ttls : lease'[v] = Window(a, r, fence[v] + 1, t)
         \/ /\ lease[v] # NoRow /\ lease[v].heartbeat_at <= now
            /\ lease'[v] = Window(lease[v].attempt, lease[v].runner, lease[v].fence, lease[v].ttl)
         \/ /\ lease[v] # NoRow /\ lease'[v] = NoRow /\ outbox' = outbox
            /\ \E g \in returned : g.attempt = lease[v].attempt
<1> DEFINE Goal ==
         \/ lease'[v] = lease[v]
         \/ /\ lease[v] = NoRow \/ Due(v)
            /\ \/ lease'[v] = NoRow
               \/ \E a \in Attempts, r \in Runners, t \in Ttls : lease'[v] = Window(a, r, fence[v] + 1, t)
         \/ /\ lease[v] # NoRow /\ lease[v].heartbeat_at <= now
            /\ lease'[v] = Window(lease[v].attempt, lease[v].runner, lease[v].fence, lease[v].ttl)
         \/ /\ lease[v] # NoRow /\ lease'[v] = NoRow /\ outbox' = outbox
            /\ \E g \in returned : g.attempt = lease[v].attempt
<1>1. lease \in [Variants -> LeaseRow \cup {NoRow}]
  BY Zenon DEF Inv, TypeOK
<1>2. UNCHANGED lease => Goal
  BY Zenon
<1>3. ASSUME NEW a \in Attempts, NEW u \in Variants, NEW r \in Runners, NEW t \in Ttls,
             AcquireLease(a, u, r, t)
      PROVE  Goal
  <2>1. /\ lease[u] = NoRow \/ Due(u)
        /\ lease' = [lease EXCEPT ![u] = Window(a, r, fence[u] + 1, t)]
    BY <1>3, Zenon DEF AcquireLease, NextFence
  <2>2. lease'[v] = IF v = u THEN Window(a, r, fence[u] + 1, t) ELSE lease[v]
    BY <1>1, <2>1, Zenon
  <2> QED BY <2>1, <2>2, Zenon
<1>4. ASSUME NEW g \in returned, Heartbeat(g.variant, g.attempt, g.fence, g.runner, g.ttl)
      PROVE  Goal
  <2>1. CASE v = g.variant
    BY <1>1, <1>4, <2>1, Zenon DEF Heartbeat
  <2>2. CASE v # g.variant
    BY <1>1, <1>4, <2>2, Zenon DEF Heartbeat
  <2> QED BY <2>1, <2>2, Zenon
<1>5. ASSUME NEW g \in returned, NEW s \in ReleaseTargets, NEW q \in BOOLEAN,
             ReleaseLease(g.variant, g.attempt, s, q)
      PROVE  Goal
  <2>1. CASE v = g.variant
    BY <1>1, <1>5, <2>1, Zenon DEF ReleaseLease
  <2>2. CASE v # g.variant
    BY <1>1, <1>5, <2>2, Zenon DEF ReleaseLease
  <2> QED BY <2>1, <2>2, Zenon
<1>6. ASSUME ExpireLeases PROVE Goal
  <2>1. lease'[v] = IF v \in {w \in Variants : Due(w)} THEN NoRow ELSE lease[v]
    BY <1>6, Zenon DEF ExpireLeases
  <2> QED BY <2>1, Zenon
<1>7. \/ Materialize \/ Tick \/ ClockSetBack \/ UNCHANGED vars
      \/ \E a \in Attempts, u \in Variants, r \in Runners, t \in Ttls : ReplayAcquire(a, u, r, t)
      \/ \E a \in Attempts, s \in AdvanceTargets : PutAttempt(a, s)
      \/ \E p \in Packages, s \in DeltaTargets : SetPackageState(p, s)
      \/ \E u \in Variants : BumpFence(u)
      => UNCHANGED lease
  BY Zenon DEF Materialize, Tick, ClockSetBack, vars, ledger, ReplayAcquire, PutAttempt,
     SetPackageState, BumpFence
<1> HIDE DEF Goal
<1>8. Goal
  BY <1>2, <1>3, <1>4, <1>5, <1>6, <1>7, Zenon DEF Next, SteadyNext
<1> QED BY <1>8, Zenon DEF Goal

LEMMA WindowStep ==
  ASSUME Inv, WindowsAreWhole, [Next]_vars
  PROVE  WindowsAreWhole' /\ HonoursWindows
<1> SUFFICES ASSUME NEW v \in Variants
             PROVE  /\ lease'[v] # NoRow =>
                         lease'[v].expires_at = lease'[v].heartbeat_at + lease'[v].ttl
                    /\ HonoursWindows!(v)
  BY Zenon DEF WindowsAreWhole, HonoursWindows
<1>1. /\ now \in Int /\ Ttls \subseteq Nat
      /\ lease[v] # NoRow => lease[v] \in LeaseRow
      /\ lease[v] # NoRow => lease[v].expires_at = lease[v].heartbeat_at + lease[v].ttl
  BY LedgerConstants, Zenon DEF Inv, TypeOK, WindowsAreWhole
<1>2. \A a, r, f, t : /\ Window(a, r, f, t).attempt = a /\ Window(a, r, f, t).fence = f
                       /\ Window(a, r, f, t).ttl = t /\ Window(a, r, f, t).heartbeat_at = now
                       /\ Window(a, r, f, t).expires_at = now + t
  BY DEF Window
<1>3. CASE lease'[v] = lease[v]
  BY <1>1, <1>3 DEF LeaseRow
<1>4. CASE /\ lease[v] = NoRow \/ Due(v)
           /\ \/ lease'[v] = NoRow
              \/ \E a \in Attempts, r \in Runners, t \in Ttls : lease'[v] = Window(a, r, fence[v] + 1, t)
  BY <1>1, <1>2, <1>4 DEF Due, LeaseRow
<1>5. CASE /\ lease[v] # NoRow /\ lease[v].heartbeat_at <= now
           /\ lease'[v] = Window(lease[v].attempt, lease[v].runner, lease[v].fence, lease[v].ttl)
  <2> DEFINE row == lease[v]
  <2>1. /\ row.attempt \in Attempts /\ row.runner \in Runners /\ row.fence \in Nat
        /\ row.ttl \in Nat /\ row.ttl \in Ttls /\ row.heartbeat_at \in Int
    BY <1>1, <1>5, Zenon DEF LeaseRow
  <2>4. now + row.ttl >= row.heartbeat_at + row.ttl
    BY <1>1, <1>5, <2>1
  <2>5. /\ lease'[v] # NoRow /\ lease'[v].attempt = row.attempt /\ lease'[v].fence = row.fence
        /\ lease'[v].ttl = row.ttl /\ lease'[v].heartbeat_at = now
        /\ lease'[v].expires_at = now + row.ttl
    BY ONLY <1>1, <1>5, <2>1, WindowRow
  <2>6. lease'[v].expires_at = now + row.ttl /\ lease[v].expires_at = row.heartbeat_at + row.ttl
    BY <1>1, <1>5, <2>5, Zenon
  <2>7. lease'[v].expires_at >= lease[v].expires_at
    BY ONLY <2>4, <2>6, Zenon
  <2> QED BY <2>5, <2>7, Zenon
<1>6. CASE /\ lease[v] # NoRow /\ lease'[v] = NoRow /\ outbox' = outbox
           /\ \E g \in returned : g.attempt = lease[v].attempt
  BY <1>6, Zenon
<1> QED BY <1>3, <1>4, <1>5, <1>6, LeaseRowMoves, Zenon

\* A lease that has not expired ends only by its holder's release_on, and
\* heartbeat_on never shortens it, however acquire_on, expire_leases and clock
\* corrections interleave.
THEOREM WindowsAreHonoured == Spec => WindowIsHonoured
<1>1. Init => WindowsAreWhole
  BY Zenon DEF Init, WindowsAreWhole
<1>2. Inv /\ WindowsAreWhole /\ [Next]_vars => WindowsAreWhole' /\ HonoursWindows
  BY WindowStep, Zenon
<1> QED BY <1>1, <1>2, LedgerInvariant, PTL DEF Spec, WindowIsHonoured

-----------------------------------------------------------------------------
(* The refinement. *)

\* Every step keeps the identity columns of existing Attempts.
Identities(b) ==
  /\ attempt'[b] = NoRow <=> attempt[b] = NoRow
  /\ attempt[b] # NoRow => /\ attempt'[b].variant = attempt[b].variant
                           /\ attempt'[b].fence = attempt[b].fence

\* An acquisition is a grant of FencedWriter.
LEMMA AcquireGrants ==
  ASSUME Inv, NEW a \in Attempts, NEW v \in Variants, NEW r \in Runners,
         NEW t \in Ttls, AcquireLease(a, v, r, t)
  PROVE  Writer!Grant(v, a)
<1> DEFINE dead   == IF Due(v) THEN {v} ELSE {}
           f      == fence[v] + 1
           fresh  == [variant |-> v, runner |-> r, fence |-> f, state |-> "Starting"]
           Marked == Reclaimed(attempt, dead)
<1>1. /\ attempt[a] = NoRow
      /\ attempt' = [Marked EXCEPT ![a] = fresh]
      /\ lease' = [lease EXCEPT ![v] = Window(a, r, f, t)]
      /\ fence' = [fence EXCEPT ![v] = f]
  BY Zenon DEF AcquireLease, NextFence
<1>2. dead \in SUBSET Variants /\ \A u \in dead : lease[u] # NoRow /\ Reclaimable(u)
  BY Zenon DEF AcquireLease, Due
<1>3. /\ TypeOK
      /\ fresh \in AttemptRow /\ fresh.variant = v /\ fresh.fence = f
      /\ Window(a, r, f, t) \in LeaseRow /\ Window(a, r, f, t).attempt = a
  <2>1. TypeOK /\ now \in Int /\ f \in Nat
    BY DEF Inv, TypeOK
  <2>2. fresh \in AttemptRow /\ fresh.variant = v /\ fresh.fence = f
    BY <2>1, AttemptStateFacts, Zenon DEF AttemptRow
  <2> HIDE DEF f, fresh
  <2> QED BY ONLY <2>1, <2>2, WindowRow, a \in Attempts, r \in Runners, t \in Ttls
<1> HIDE DEF dead, fresh, Marked
<1>4. /\ Marked \in [Attempts -> AttemptRow \cup {NoRow}]
      /\ \A b \in Attempts :
           /\ Marked[b] = NoRow <=> attempt[b] = NoRow
           /\ attempt[b] # NoRow => /\ Marked[b].variant = attempt[b].variant
                                    /\ Marked[b].fence = attempt[b].fence
  BY ONLY Inv, <1>2, ReclaimFacts DEF Marked
<1>5. ASSUME NEW b \in Attempts \ {a} PROVE Identities(b)
  <2>1. attempt'[b] = Marked[b]
    BY <1>1, <1>4, Zenon
  <2> QED BY <1>4, <2>1, Zenon DEF Identities
<1>6. attempt'[a] # NoRow /\ attempt'[a].variant = v /\ attempt'[a].fence = f
  BY <1>1, <1>3, <1>4, NoRowIsNoRow, Zenon
<1>7. /\ lease'[v] # NoRow /\ lease'[v].attempt = a
      /\ \A u \in Variants \ {v} : lease'[u] = lease[u]
  BY <1>1, <1>3, NoRowIsNoRow, Zenon DEF TypeOK
<1> DEFINE held(row) == IF row = NoRow THEN NoRow ELSE row.attempt
           name(row) == IF row = NoRow THEN NoRow ELSE <<row.variant, row.fence>>
<1>8. \A u \in Variants : held(lease'[u]) = IF u = v THEN a ELSE held(lease[u])
  BY <1>7
<1>9. \A b \in Attempts : name(attempt'[b]) = IF b = a THEN <<v, f>> ELSE name(attempt[b])
  BY <1>5, <1>6, Zenon DEF Identities
<1>10. [u \in Variants |-> held(lease'[u])]
         = [[u \in Variants |-> held(lease[u])] EXCEPT ![v] = a]
  BY <1>8, Zenon
<1>11. [b \in Attempts |-> name(attempt'[b])]
         = [[b \in Attempts |-> name(attempt[b])] EXCEPT ![a] = <<v, f>>]
  BY <1>9, Zenon
<1> QED BY <1>1, <1>10, <1>11, Zenon DEF Writer!Grant

\* A release or a sweep ends the authority of the holders whose rows it
\* deletes.
LEMMA DeletionEnds ==
  ASSUME NEW V \in SUBSET Variants,
         \A v \in Variants : lease'[v] = IF v \in V THEN NoRow ELSE lease[v],
         \A b \in Attempts : Identities(b), fence' = fence
  PROVE  Writer!End(V)
BY Zenon DEF Writer!End, Identities

\* A step that keeps holders, identities and counters is invisible.
LEMMA Invisible ==
  ASSUME \A v \in Variants : /\ lease'[v] = NoRow <=> lease[v] = NoRow
                             /\ lease[v] # NoRow => lease'[v].attempt = lease[v].attempt,
         \A b \in Attempts : Identities(b), fence' = fence
  PROVE  UNCHANGED Writer!wvars
BY Zenon DEF Writer!wvars, Identities

LEMMA StepImplements ==
  ASSUME Inv, [Next]_vars
  PROVE  [Writer!FWNext]_(Writer!wvars)
<1> USE DEF Inv
<1>1. ASSUME NEW g \in returned
      PROVE  /\ g.variant \in Variants /\ g.ttl \in Ttls /\ g.attempt \in Attempts
  BY RowFacts, Zenon DEF Grant
<1>2. CASE \E a \in Attempts, v \in Variants, r \in Runners, t \in Ttls :
             AcquireLease(a, v, r, t)
  BY <1>2, AcquireGrants, Zenon DEF Writer!FWNext
<1>3. CASE \E g \in returned :
             Heartbeat(g.variant, g.attempt, g.fence, g.runner, g.ttl)
  <2>1. PICK g \in returned : Heartbeat(g.variant, g.attempt, g.fence, g.runner, g.ttl)
    BY <1>3, Zenon
  <2>3. \A v \in Variants : /\ lease'[v] = NoRow <=> lease[v] = NoRow
                            /\ lease[v] # NoRow => lease'[v].attempt = lease[v].attempt
    BY <2>1, <1>1, HeartbeatKeeps, Zenon
  <2>4. fence' = fence /\ \A b \in Attempts : Identities(b)
    BY <2>1, Zenon DEF Heartbeat, Identities
  <2> QED BY <2>3, <2>4, Invisible, Zenon
<1>4. CASE \E a \in Attempts, s \in AdvanceTargets : PutAttempt(a, s)
  <2>1. PICK a \in Attempts, s \in AdvanceTargets : PutAttempt(a, s)
    BY <1>4, Zenon
  <2>2. \A b \in Attempts : Identities(b)
    BY <2>1, RowFacts, AttemptStateFacts, NoRowIsNoRow, ZenonT(40)
       DEF PutAttempt, Identities, TypeOK, AttemptRow
  <2> QED BY <2>1, <2>2, Invisible, Zenon DEF PutAttempt
<1>5. CASE \E g \in returned, s \in ReleaseTargets, q \in BOOLEAN :
             ReleaseLease(g.variant, g.attempt, s, q)
  <2>1. PICK g \in returned, s \in ReleaseTargets, q \in BOOLEAN :
          ReleaseLease(g.variant, g.attempt, s, q)
    BY <1>5, Zenon
  <2>2. \A v \in Variants : lease'[v] = IF v \in {g.variant} THEN NoRow ELSE lease[v]
    BY <2>1, <1>1, Zenon DEF ReleaseLease, TypeOK
  <2>3. /\ fence' = fence
        /\ attempt' = [attempt EXCEPT ![g.attempt].state = s]
        /\ attempt[g.attempt] \in AttemptRow /\ s \in AttemptStates
    BY <2>1, <1>1, RowFacts, AttemptStateFacts, Zenon DEF ReleaseLease, HolderIsNewest
  <2>4. \A b \in Attempts : Identities(b)
    BY <2>3, <1>1, NoRowIsNoRow DEF Identities, TypeOK, AttemptRow
  <2>5. Writer!End({g.variant})
    BY <2>2, <2>3, <2>4, <1>1, DeletionEnds, Zenon
  <2> QED BY <2>5, <1>1, Zenon DEF Writer!FWNext
<1>6. CASE ExpireLeases
  <2>0. PICK due \in SUBSET Variants : due = {v \in Variants : Due(v)}
    BY Zenon
  <2>1. /\ fence' = fence
        /\ \A v \in Variants : lease'[v] = IF v \in due THEN NoRow ELSE lease[v]
        /\ \A v \in due : lease[v] # NoRow /\ Reclaimable(v)
        /\ attempt' = Reclaimed(attempt, due)
    BY <1>6, <2>0, Zenon DEF ExpireLeases, Due
  <2>2. ASSUME NEW b \in Attempts PROVE Identities(b)
    <3>1. /\ attempt'[b] = NoRow <=> attempt[b] = NoRow
          /\ attempt[b] # NoRow => /\ attempt'[b].variant = attempt[b].variant
                                   /\ attempt'[b].fence = attempt[b].fence
      BY ONLY Inv, <2>1, ReclaimFacts, due \in SUBSET Variants, b \in Attempts
    <3> QED BY <3>1, Zenon DEF Identities
  <2>3. Writer!End(due)
    BY <2>1, <2>2, DeletionEnds, Zenon
  <2> QED BY <2>1, <2>3, Zenon DEF Writer!FWNext
<1>7. CASE \/ Materialize
           \/ \E a \in Attempts, v \in Variants, r \in Runners, t \in Ttls :
                ReplayAcquire(a, v, r, t)
           \/ \E p \in Packages, s \in DeltaTargets : SetPackageState(p, s)
           \/ \E v \in Variants : BumpFence(v)
           \/ Tick
           \/ ClockSetBack
           \/ UNCHANGED vars
  <2>1. UNCHANGED <<fence, lease, attempt>>
    BY <1>7, Zenon DEF Materialize, ReplayAcquire, SetPackageState, BumpFence, Tick,
       ClockSetBack, vars, ledger
  <2> QED BY <2>1, Zenon DEF Writer!wvars
<1> QED BY <1>2, <1>3, <1>4, <1>5, <1>6, <1>7, Zenon DEF Next, SteadyNext

\* The SQLite lease ledger implements the fenced single-writer register: its
\* initial state maps to an initial state, every step to a step or a stutter.
THEOREM LedgerImplementsFencedWriter == Spec => ImplementsFencedWriter
<1>1. Init => Writer!FWInit
  BY Zenon DEF Init, Writer!FWInit
<1>2. Inv /\ [Next]_vars => [Writer!FWNext]_(Writer!wvars)
  BY StepImplements, Zenon
<1> QED BY <1>1, <1>2, LedgerInvariant, PTL DEF Spec, ImplementsFencedWriter, Writer!FWSpec
=============================================================================
