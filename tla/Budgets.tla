------------------------------- MODULE Budgets -------------------------------
(***************************************************************************)
(* The budget crate: the scalar BudgetLedger and the VectorLedger that     *)
(* reserves, settles and releases capacity in several dimensions at once   *)
(* under a policy of class floors.  Every operation computes the next pots *)
(* on a copy and installs them only when no dimension refused, so a        *)
(* refused call is a stuttering step.  Units are u64 in the code; here     *)
(* they are bounded by BgMax, at which an addition overflows as it does at *)
(* 2^64 - 1.                                                               *)
(***************************************************************************)
EXTENDS Integers, Sequences, FiniteSets, FiniteSetsExt

CONSTANTS
    BgDims,      \* the dimensions a ledger of the instance uses
    BgIds,       \* reservation ids callers present
    BgOpening,   \* opening capacity of each pot
    BgUnits,     \* amounts requested
    BgUsages,    \* amounts reported
    BgClasses,   \* classes that reserve
    BgMax,       \* the largest u64
    BgNone       \* no reservation

ASSUME BudgetBounds ==
    /\ BgOpening \in 0..BgMax
    /\ BgUnits \cup BgUsages \subseteq 0..BgMax

VARIABLES
    bg,       \* the vector ledger: policy, pots, open, issued; BgNone before it exists
    bgSeen,   \* per dimension what callers reported: known units, forecasts of unknown use
    bs        \* the scalar ledger

bgVars == <<bg, bgSeen, bs>>

----------------------------------------------------------------------------
\* Classes and floors.

\* The ladder of reserve classes, highest rank first.
Ladder == <<"incident", "security", "critical", "integration_repair",
            "human_interactive", "normal", "benchmark", "speculative">>

Rank(class) == CHOOSE r \in DOMAIN Ladder : Ladder[r] = class

Outranks(class, other) == Rank(class) < Rank(other)

\* Percentage of an opening, rounded up; the percentage is clamped to 100.
FloorUnits(percent, opening) ==
    LET clamped == IF percent > 100 THEN 100 ELSE percent
    IN  (opening * clamped + 99) \div 100

\* A rule list names classes and percentages; a subject names a generation.
\* It becomes a policy when every class has exactly one floor in range and
\* the floors strictly rise down the ladder.
TryNewAnyOrder(p) ==
    /\ p.subject = "valid"
    /\ \A i \in DOMAIN p.rules : p.rules[i][2] <= 100
    /\ \A i, j \in DOMAIN p.rules : p.rules[i][1] = p.rules[j][1] => i = j
    /\ {p.rules[i][1] : i \in DOMAIN p.rules} = DOMAIN Ladder
TryNew(p) ==
    /\ p.subject = "valid"
    /\ \A i \in DOMAIN p.rules : p.rules[i][2] <= 100
    /\ \A i, j \in DOMAIN p.rules : p.rules[i][1] = p.rules[j][1] => i = j
    /\ {p.rules[i][1] : i \in DOMAIN p.rules} = DOMAIN Ladder
    /\ \A i, j \in DOMAIN p.rules :
         p.rules[j][1] = p.rules[i][1] + 1 => p.rules[i][2] < p.rules[j][2]

FloorPercent(p, class) ==
    LET i == CHOOSE i \in DOMAIN p.rules : p.rules[i][1] = Rank(class)
    IN  p.rules[i][2]

EmergencyFloorUnits(p, opening) ==
    FloorUnits(FloorPercent(p, "integration_repair"), opening)

MaySpendEmergencyReserve(class) == Outranks(class, "integration_repair")

\* The snapshot a caller supplies must be the ledger's own: present, of its
\* generation and equal to it in every floor.
RequireExact(p, supplied) ==
    /\ supplied # BgNone
    /\ supplied.generation = p.generation
    /\ supplied = p

\* Rule lists the instance tries: the recorded proposal, a steep ladder, and
\* one list for each refusal of TryNew.
Rules(f) == [r \in DOMAIN Ladder |-> <<r, f[r]>>]
RuleLists ==
    LET recorded == Rules(<<0, 2, 5, 10, 15, 20, 40, 50>>)
        steep    == Rules(<<0, 10, 20, 50, 60, 70, 90, 100>>)
    IN  [subject : {"valid"}, generation : {1},
         rules : {recorded, steep,
                  Rules(<<0, 10, 60, 50, 20, 70, 90, 100>>),
                  Rules(<<0, 10, 20, 50, 60, 70, 90, 101>>),
                  Tail(recorded), <<<<1, 0>>>> \o recorded}]
        \cup {[subject |-> "invalid", generation |-> 1, rules |-> recorded]}

----------------------------------------------------------------------------
\* One pot.

\* Checked addition: BgNone stands for the overflow error.
Fits(n) == n <= BgMax

Conserved(pot) ==
    /\ Fits(pot.remaining + pot.reserved + pot.retained + pot.settled)
    /\ pot.remaining + pot.reserved + pot.retained + pot.settled = pot.opening

HasUnknownLiability(pot) ==
    pot.retained > 0 \/ pot.overrun > 0 \/ pot.unknown_events > 0

OpeningPot(unknown) ==
    [opening |-> BgOpening, remaining |-> BgOpening, reserved |-> 0,
     retained |-> 0, settled |-> 0, overrun |-> unknown, unknown_events |-> 0]

ReservePot(pot, requested) ==
    [pot EXCEPT !.reserved = @ + requested, !.remaining = @ - requested]

\* What a reservation must find in one dimension: enough remaining, the
\* class's floor left standing, no overflow.
MayReserve(pot, p, class, requested) ==
    \/ requested = 0
    \/ /\ requested <= pot.remaining
       /\ pot.remaining - requested >= FloorUnits(FloorPercent(p, class), pot.opening)
       /\ Fits(pot.reserved + requested)
       /\ Conserved(ReservePot(pot, requested))

SettlePotUnknownFreed(pot, forecast, usage) ==
    LET known == IF usage = BgNone THEN 0 ELSE usage
        used == IF known < forecast THEN known ELSE forecast
    IN  [pot EXCEPT !.settled = @ + used, !.remaining = @ + (forecast - used),
                    !.overrun = @ + (known - used), !.reserved = @ - forecast]

\* Unknown usage is the model value BgNone; otherwise usage is a number.
SettlePot(pot, forecast, usage) ==
    IF usage = BgNone
    THEN IF forecast = 0
         THEN [pot EXCEPT !.unknown_events = @ + 1]
         ELSE [pot EXCEPT !.retained = @ + forecast, !.reserved = @ - forecast]
    ELSE LET used == IF usage < forecast THEN usage ELSE forecast
         IN  [pot EXCEPT !.settled = @ + used, !.remaining = @ + (forecast - used),
                         !.overrun = @ + (usage - used), !.reserved = @ - forecast]

MaySettle(pot, forecast, usage) ==
    LET next == SettlePot(pot, forecast, usage) IN
    /\ next.reserved >= 0
    /\ Fits(next.retained) /\ Fits(next.settled) /\ Fits(next.remaining)
    /\ Fits(next.overrun) /\ Fits(next.unknown_events)
    /\ Conserved(next)

ReleasePot(pot, forecast) ==
    [pot EXCEPT !.reserved = @ - forecast, !.remaining = @ + forecast]

MayRelease(pot, forecast) ==
    /\ pot.reserved >= forecast
    /\ Fits(pot.remaining + forecast)
    /\ Conserved(ReleasePot(pot, forecast))

----------------------------------------------------------------------------
\* The vector ledger's operations.  `supplied` is the snapshot of the caller.

Snapshots == {bg.policy, BgNone, [bg.policy EXCEPT !.generation = @ + 1],
              [bg.policy EXCEPT !.rules = Tail(@)]}

\* new: a policy that passed try_new, one opening pot per dimension.
VectorNew(p, unknown) ==
    /\ bg = BgNone
    /\ TryNew(p)
    /\ bg' = [policy |-> p, pots |-> [d \in BgDims |-> OpeningPot(unknown)],
              open |-> [i \in BgIds |-> BgNone], issued |-> {}]
    /\ bgSeen' = [d \in BgDims |-> [known |-> unknown, unknown |-> 0, blind |-> FALSE]]
    /\ UNCHANGED bs

VectorReserve(id, class, forecast, supplied) ==
    /\ RequireExact(bg.policy, supplied)
    /\ \E d \in BgDims : forecast[d] > 0
    /\ id \notin bg.issued
    /\ \A d \in BgDims : MayReserve(bg.pots[d], bg.policy, class, forecast[d])
    /\ bg' = [bg EXCEPT !.pots = [d \in BgDims |-> ReservePot(@[d], forecast[d])],
                        !.issued = @ \cup {id},
                        !.open[id] = [class |-> class, forecast |-> forecast]]
    /\ UNCHANGED <<bgSeen, bs>>

VectorSettle(id, usage, supplied) ==
    /\ RequireExact(bg.policy, supplied)
    /\ bg.open[id] # BgNone
    /\ LET forecast == bg.open[id].forecast IN
       /\ \A d \in BgDims : MaySettle(bg.pots[d], forecast[d], usage[d])
       /\ bg' = [bg EXCEPT
            !.pots = [d \in BgDims |-> SettlePot(@[d], forecast[d], usage[d])],
            !.open[id] = BgNone]
       /\ bgSeen' = [d \in BgDims |->
            IF usage[d] = BgNone
            THEN [bgSeen[d] EXCEPT !.unknown = @ + forecast[d],
                                   !.blind = @ \/ forecast[d] = 0]
            ELSE [bgSeen[d] EXCEPT !.known = @ + usage[d]]]
    /\ UNCHANGED bs

\* release takes no policy snapshot.
VectorRelease(id) ==
    /\ bg.open[id] # BgNone
    /\ LET forecast == bg.open[id].forecast IN
       /\ \A d \in BgDims : MayRelease(bg.pots[d], forecast[d])
       /\ bg' = [bg EXCEPT
            !.pots = [d \in BgDims |-> ReleasePot(@[d], forecast[d])],
            !.open[id] = BgNone]
    /\ UNCHANGED <<bgSeen, bs>>

----------------------------------------------------------------------------
\* The scalar ledger.

ScalarConserved(l) ==
    Fits(l.remaining + l.reserved + l.settled) /\ l.remaining + l.reserved + l.settled = l.opening_known

ScalarReserve(id, amount) ==
    /\ amount > 0
    /\ id \notin bs.issued
    /\ amount <= bs.remaining
    /\ Fits(bs.reserved + amount)
    /\ bs' = [bs EXCEPT !.remaining = @ - amount, !.reserved = @ + amount,
                        !.issued = @ \cup {id}, !.open[id] = amount]
    /\ UNCHANGED <<bg, bgSeen>>

ScalarSettle(id, actual) ==
    /\ bs.open[id] > 0
    /\ LET amount == bs.open[id]
           used == IF actual < amount THEN actual ELSE amount
       IN
       /\ bs.reserved >= amount
       /\ Fits(bs.settled + used)
       /\ Fits(bs.remaining + (amount - used))
       /\ Fits(bs.unknown_liability + (actual - used))
       /\ bs' = [bs EXCEPT !.open[id] = 0, !.reserved = @ - amount,
                           !.settled = @ + used, !.remaining = @ + (amount - used),
                           !.unknown_liability = @ + (actual - used),
                           !.reported = @ + actual]
    /\ UNCHANGED <<bg, bgSeen>>

\* Liability is never offered as capacity, by either ledger: zero units, or a
\* refusal.
UnknownAsHeadroom(liable) == IF liable THEN BgNone ELSE 0

----------------------------------------------------------------------------
BgInit ==
    /\ bg = BgNone
    /\ bgSeen = [d \in BgDims |-> [known |-> 0, unknown |-> 0, blind |-> FALSE]]
    /\ bs = [opening_known |-> BgOpening, remaining |-> BgOpening, reserved |-> 0,
             settled |-> 0, unknown_liability |-> 0, open |-> [i \in BgIds |-> 0],
             issued |-> {}, reported |-> 0]

Forecasts == [BgDims -> BgUnits]
Usages == [BgDims -> BgUsages \cup {BgNone}]

BgCalls ==
    \E id \in BgIds :
      \/ \E c \in BgClasses, f \in Forecasts, s \in Snapshots : VectorReserve(id, c, f, s)
      \/ bg.open[id] # BgNone /\ \E u \in Usages, s \in Snapshots : VectorSettle(id, u, s)
      \/ VectorRelease(id)

BgVector ==
    \/ \E p \in RuleLists, u \in {0, 1} : VectorNew(p, u)
    \/ /\ bg # BgNone
       /\ BgCalls
BgScalar ==
    \E id \in BgIds :
      \/ \E n \in BgUnits : ScalarReserve(id, n)
      \/ \E n \in BgUsages : ScalarSettle(id, n)

BgNext == BgVector \/ BgScalar

BgSpec == BgInit /\ [][BgNext]_bgVars

----------------------------------------------------------------------------
\* Properties.

BgTypeOK ==
    bg # BgNone =>
    /\ \A d \in BgDims : \A f \in DOMAIN bg.pots[d] : bg.pots[d][f] \in 0..BgMax
    /\ bg.issued \subseteq BgIds /\ bs.issued \subseteq BgIds
    /\ \A i \in BgIds : bg.open[i] # BgNone => i \in bg.issued

\* What the open reservations of a dimension add up to.
OpenUnits(d) ==
    LET held == {i \in BgIds : bg.open[i] # BgNone}
    IN  FoldSet(LAMBDA i, n : n + bg.open[i].forecast[d], 0, held)

\* No unit is created or lost over any sequence of reservations, settlements
\* and releases: what a pot holds reserved is exactly the sum of the
\* reservations still open, everything sums to the opening, what was settled
\* and overrun is exactly what callers reported, and the forecasts whose use
\* stayed unknown are retained for ever rather than returned as headroom.
UnitsAreAccountedFor ==
    /\ bg # BgNone => \A d \in BgDims : LET pot == bg.pots[d] IN
         /\ Conserved(pot)
         /\ pot.reserved = OpenUnits(d)
         /\ pot.settled + pot.overrun = bgSeen[d].known
         /\ pot.retained = bgSeen[d].unknown
         /\ UnknownAsHeadroom(HasUnknownLiability(pot)) = BgNone
              <=> (pot.overrun > 0 \/ bgSeen[d].unknown > 0 \/ bgSeen[d].blind)
    /\ ScalarConserved(bs)
    /\ bs.reserved = FoldSet(LAMBDA i, n : n + bs.open[i], 0, BgIds)
    /\ bs.settled + bs.unknown_liability = bs.reported

\* Whatever takes capacity leaves the emergency reserve standing unless the
\* class outranks integration repair: the floors of an admitted policy never
\* let a lower class drain what a higher one is promised, in any dimension of
\* a vector reservation.
EmergencyReserveIsKept ==
    bg # BgNone =>
    \A i \in BgIds : (bg.open[i] = BgNone /\ bg'.open[i] # BgNone) =>
      \A d \in BgDims :
        bg'.open[i].forecast[d] > 0 /\ ~MaySpendEmergencyReserve(bg'.open[i].class)
          => bg'.pots[d].remaining >= EmergencyFloorUnits(bg.policy, bg.pots[d].opening)

\* An id is issued once: once closed it never opens again.
IdsAreOneUse ==
    bg # BgNone => \A i \in BgIds : i \in bg.issued /\ bg.open[i] = BgNone => bg'.open[i] = BgNone

BgSafe == BgTypeOK /\ UnitsAreAccountedFor
BgStep == EmergencyReserveIsKept /\ IdsAreOneUse
=============================================================================
