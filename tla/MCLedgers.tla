------------------------------ MODULE MCLedgers ------------------------------
(***************************************************************************)
(* The stores of the system for TLC: the leases of the SQLite ledger, the  *)
(* maps of the in-memory one, the budget ledgers, the durable effect queue *)
(* and the records of the local forge.  part selects, in the initial       *)
(* state, the one that runs; none reads the state of another.  A call that *)
(* changes no map of the in-memory ledger is no step.                      *)
(***************************************************************************)
EXTENDS LeaseLedger, MemoryLedger, Budgets, DurableQueue, ForgeIntegration, TLC

CONSTANT Parts

VARIABLE part

mapVars == <<mlVars, bgVars, dqVars, fiVars>>

mcVars == <<vars, mapVars, part>>

CONSTANTS v1, v2, p1, p2, a1, a2, a3, r1, r2

\* Two sibling variants of one package.
Siblings == (v1 :> p1) @@ (v2 :> p1)

\* One package with one variant.
Single == v1 :> p1

\* One variant per package, the shape materialize_plan builds.
Separate == (v1 :> p1) @@ (v2 :> p2)

\* The states the runner's attempt loop asks for.
RunnerTargets == {"Running", "Preparing"}

\* Attempts, and the processes with the queue and the forge open, are alike.
LedgerSymmetry == Permutations(Attempts) \cup Permutations(DqProcs)

\* Two candidates for one base, racing.
RacingSubjects == {<<0, 1>>, <<0, 2>>}

MCInit == part \in Parts /\ Init /\ MlInit /\ BgInit /\ DqInit /\ FiInit

MCMemory ==
  \/ part = "leases" /\ MlLeaseNext /\ ml' # ml /\ UNCHANGED <<mc, me, mn>>
  \/ part = "submits" /\ MlSubmitNext /\ mc' # mc /\ UNCHANGED <<ml, me, mn>>
  \/ part = "graphs" /\ MlGraphNext /\ mc' # mc /\ UNCHANGED <<ml, me, mn>>
  \/ part = "effects" /\ MlEffectNext /\ me' # me /\ UNCHANGED <<ml, mc, mn>>
  \/ part = "nonces" /\ MlNonceNext /\ mn' # mn /\ UNCHANGED <<ml, mc, me>>

\* Budgets, the queue and the forge come to rest when every id is used and
\* every bound reached.
MCRests ==
  /\ part \in {"vector", "scalar", "queue", "integration", "observation"}
  /\ UNCHANGED <<vars, mapVars>>

MCNext ==
  /\ UNCHANGED part
  /\ \/ part = "sqlite" /\ Next /\ UNCHANGED mapVars
     \/ MCMemory /\ UNCHANGED <<vars, bgVars, dqVars, fiVars>>
     \/ part = "vector" /\ BgVector /\ UNCHANGED <<vars, mlVars, dqVars, fiVars>>
     \/ part = "scalar" /\ BgScalar /\ UNCHANGED <<vars, mlVars, dqVars, fiVars>>
     \/ part = "queue" /\ DqNext /\ UNCHANGED <<vars, mlVars, bgVars, fiVars>>
     \/ part = "integration" /\ FiIntegrationNext /\ UNCHANGED <<vars, mlVars, bgVars, dqVars>>
     \/ part = "observation" /\ FiObservationNext /\ UNCHANGED <<vars, mlVars, bgVars, dqVars>>
     \/ MCRests

MCSpec == MCInit /\ [][MCNext]_mcVars

\* FairSpec, with the other stores at rest.
MCFairSpec ==
  MCInit /\ [][SteadyNext /\ UNCHANGED <<mapVars, part>>]_mcVars /\ Fairness

\* No store ever holds records that contradict each other: the maps of the
\* in-memory ledger (MemoryMapsAgree), the pots of the budget ledgers and what
\* callers reported (UnitsAreAccountedFor), the phases of a queued job
\* (JobIsNeverLost, TakenIsCurrent), and the target, receipts and observations
\* of the local forge (IntegrationIsProven, ObservationIsTrue).
StoresAgree ==
  CASE part = "sqlite" -> TRUE
    [] part \in {"vector", "scalar"} -> BgSafe
    [] part = "queue" -> DqSafe
    [] part \in {"integration", "observation"} -> FiSafe
    [] OTHER -> MemoryMapsAgree

\* What a step of a store may never do: take a lease within its window or
\* rewrite a row (MemoryStepsAreKept), spend the emergency reserve for a class
\* that may not or reopen an id (BgStep), remove a job's record before a later
\* phase holds it (RecordsMoveForward), change a record of the forge
\* (ForgeRecordsAreKept).
StoresMoveForward ==
  [][mapVars' # mapVars =>
       CASE part \in {"vector", "scalar"} -> BgStep
         [] part = "queue" -> RecordsMoveForward
         [] part \in {"integration", "observation"} -> ForgeRecordsAreKept
         [] OTHER -> MemoryStepsAreKept]_mapVars
=============================================================================
