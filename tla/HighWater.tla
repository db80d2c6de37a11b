----------------------------- MODULE HighWater -----------------------------
(***************************************************************************)
(* The authority high-water record: a small file outside the ledger that   *)
(* remembers how far the authority epoch, the freeze generation and the    *)
(* restore epoch have come, so that a ledger brought back from a backup    *)
(* cannot take them backwards.  Processes take a lock beside the file,     *)
(* read the record, and publish a new one by renaming a synced temporary   *)
(* file over it and syncing the directory.                                 *)
(***************************************************************************)
EXTENDS Naturals

CONSTANTS
  Callers,      \* processes that load and advance the record
  MaxCounter,   \* bound: the highest value of a counter
  NoRecord

VARIABLES
  record,     \* the record a reader finds
  survivors,  \* the records a reader may find after a power loss
  caller,     \* process -> where its call stands
  published   \* values an advance published and confirmed

highWaterVars == <<record, survivors, caller, published>>

\* AuthorityHighWaterValues::validate.
Values ==
  {v \in [authority_epoch : 1..MaxCounter, freeze_generation : 0..MaxCounter,
          restore_epoch : 0..MaxCounter, recovery : {"SERVING", "RECOVERING"}] :
     v.recovery = "RECOVERING" => v.restore_epoch > 0}

RegressesFrom(requested, current) ==
  \/ requested.authority_epoch < current.authority_epoch
  \/ requested.freeze_generation < current.freeze_generation
  \/ requested.restore_epoch < current.restore_epoch

Away == [at |-> "away"]

HighWaterInit ==
  /\ record = NoRecord
  /\ survivors = {NoRecord}
  /\ caller = [p \in Callers |-> Away]
  /\ published = {}

Return(p) == caller' = [caller EXCEPT ![p] = Away]

\* LockedParent::open: the lock is exclusive and goes with its process.  A
\* load requests no record.
Lock(p, request) ==
  /\ \A q \in Callers : caller[q] = Away
  /\ caller' = [caller EXCEPT ![p] = [at |-> "read", request |-> request]]
  /\ UNCHANGED <<record, survivors, published>>

\* load, and advance up to publish_record: a rollback is refused, and the
\* exact record is acknowledged without being published, or its directory
\* synced, again.  Such an acknowledgement is not among the published values: a
\* power loss can still undo it, when the rename was left unsynced by a call
\* that failed.
ReadRecord(p) ==
  LET r == caller[p].request IN
  /\ caller[p].at = "read"
  /\ IF r = NoRecord \/ (record # NoRecord /\ (RegressesFrom(r, record) \/ r = record))
     THEN Return(p)
     ELSE caller' = [caller EXCEPT ![p].at = "persist"]
  /\ UNCHANGED <<record, survivors, published>>

\* The rename is seen at once and kept only when the directory is synced.
Persist(p) ==
  /\ caller[p].at = "persist"
  /\ record' = caller[p].request
  /\ survivors' = survivors \cup {caller[p].request}
  /\ caller' = [caller EXCEPT ![p].at = "sync"]
  /\ UNCHANGED published

\* Bug: the file is synced, its directory is not.
SyncFileOnly(p) ==
  /\ caller[p].at = "sync"
  /\ caller' = [caller EXCEPT ![p].at = "readback"]
  /\ UNCHANGED <<record, survivors, published>>

SyncParent(p) ==
  /\ caller[p].at = "sync"
  /\ survivors' = {record}
  /\ caller' = [caller EXCEPT ![p].at = "readback"]
  /\ UNCHANGED <<record, published>>

ReadBack(p) ==
  /\ caller[p].at = "readback"
  /\ published' = IF record = caller[p].request THEN published \cup {record} ELSE published
  /\ Return(p)
  /\ UNCHANGED <<record, survivors>>

\* A failure of any phase, or the death of the process: Operation before the
\* rename, ResponseLost after it.
CallFails(p) ==
  /\ caller[p] # Away
  /\ Return(p)
  /\ UNCHANGED <<record, survivors, published>>

HighWaterPowerLoss ==
  /\ \E r \in survivors : record' = r /\ survivors' = {r}
  /\ caller' = [p \in Callers |-> Away]
  /\ UNCHANGED published

HighWaterNext ==
  \/ \E p \in Callers :
       \/ \E request \in Values \cup {NoRecord} : Lock(p, request)
       \/ ReadRecord(p) \/ Persist(p) \/ SyncParent(p) \/ ReadBack(p) \/ CallFails(p)
  \/ HighWaterPowerLoss

HighWaterSpec == HighWaterInit /\ [][HighWaterNext]_highWaterVars

-----------------------------------------------------------------------------
\* No process ever finds a record behind one that an advance published and
\* confirmed, whatever processes died in the middle of later advances and
\* whichever of the renames they left unsynced a power loss undid.
HighWaterHolds ==
  \A v \in published : record # NoRecord /\ ~ RegressesFrom(record, v)
=============================================================================
