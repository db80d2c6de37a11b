------------------------- MODULE MCMutationAuthority -------------------------
(***************************************************************************)
(* MutationAuthority, CandidatePreparation, StoreBackup, StoreOpen and     *)
(* HighWater for TLC.                                                      *)
(*                                                                         *)
(* Mutation reservations and launch grants share the lease and the         *)
(* authority and neither reads the other's state, so each half is explored *)
(* with the lease steps, not with the other half.  Permits for patches and *)
(* grants with permits for Candidates are two halves of                    *)
(* CandidatePreparation in the same way.  Stores, the opening of a store   *)
(* and the high-water record share no state with any of them or with each  *)
(* other.                                                                  *)
(***************************************************************************)
EXTENDS MutationAuthority, CandidatePreparation, StoreBackup, StoreOpen, HighWater, TLC

CONSTANT Halves

VARIABLE half

mcVars == <<vars, storeVars, highWaterVars, cpVars, openVars, half>>

\* Keepers are interchangeable, and so are the names they publish at; Kernel
\* sessions have the names of the keepers.
MCSymmetry == Permutations(Keepers) \cup Permutations(Names)

\* Captures only read, so at most one runs at a time; beside one of a keeper
\* the other keeper may hold a copy to publish at the same name, which is
\* where two keepers meet.
Captures == {"statWal", "copyMain", "copyWal", "verifyMain", "verifyWal"}
OneCapture ==
  \A p, q \in Procs : p # q /\ proc'[p].at \in Captures =>
    \/ proc'[q].at \in {"idle", "serving"}
    \/ p \in Keepers /\ proc'[q].at = "publish" /\ proc'[q].dst = proc'[p].dst

\* Beside the grants, Kernel sessions run one after the other.
OneSession ==
  Cardinality({k \in CpSessions : ck'.sessions[k].at # "free"}) <= 1

\* Stores are explored twice: with every commit while all copies go to one
\* name, and with one commit while each keeper has a name.
NamesUsed ==
  {n \in Names : disk'[n] # None \/ \E p \in Procs : "dst" \in DOMAIN proc'[p] /\ proc'[p].dst = n}
StoreBounds ==
  /\ half = "captures" => Cardinality(NamesUsed) <= 1
  /\ half = "restores" => commits' <= 1

MCInit ==
  /\ Init /\ StoreInit /\ HighWaterInit /\ CpInit /\ OpenInit
  /\ half \in Halves
  /\ half \notin {"captures", "restores"} => disk["live"].main.schema = "current"
  /\ half # "openers" => soPath = 0

MCNext ==
  /\ \/ /\ \/ half \in {"mutations", "grants"} /\ (LeaseSteps \/ MoveAuthority)
           \/ half = "mutations" /\ MutationSteps
           \/ half = "grants" /\ GrantSteps
        /\ UNCHANGED <<storeVars, highWaterVars, cpVars, openVars>>
     \/ /\ half \in {"captures", "restores"}
        /\ StoreNext /\ OneCapture /\ StoreBounds
        /\ UNCHANGED <<vars, highWaterVars, cpVars, openVars>>
     \/ /\ half = "high water"
        /\ HighWaterNext
        /\ UNCHANGED <<vars, storeVars, cpVars, openVars>>
     \/ /\ \/ half = "patches" /\ CpPatchNext
           \/ half = "candidates" /\ CpCandidateNext /\ OneSession
        /\ UNCHANGED <<vars, storeVars, highWaterVars, openVars>>
     \/ /\ half = "openers"
        /\ OpenNext
        /\ UNCHANGED <<vars, storeVars, highWaterVars, cpVars>>
  /\ UNCHANGED half

MCSpec == MCInit /\ [][MCNext]_mcVars

\* Rows, stores and files have the types the tables and formats give them.
AuthorityTypesOK == MutationTypeOK /\ StoreTypeOK /\ OpenTypeOK

\* What is kept across crashes is safe to act on: backups and restored stores
\* (ReceiptIsGood, QuarantineHolds), a store as it is opened and created
\* (OpensAreSafe), and the high-water record (HighWaterHolds).
RecordsAreSafe == StoresAreSafe /\ OpensAreSafe /\ HighWaterHolds
=============================================================================
