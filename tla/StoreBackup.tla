---------------------------- MODULE StoreBackup ----------------------------
(***************************************************************************)
(* Backup, quarantined restore and serving admission of the SQLite ledger. *)
(*                                                                         *)
(* A store is a main file and a write-ahead log beside it.  Serving        *)
(* processes commit to the log and checkpoint it into the main file while  *)
(* others capture both files, one after the other, into a private copy     *)
(* they then inspect.  A backup is published under a name that must be     *)
(* free, and its receipt binds the exact bytes; a restore copies the bytes *)
(* a receipt binds, opens a new restore epoch in them and publishes the    *)
(* result in quarantine.                                                   *)
(*                                                                         *)
(* Content is abstracted to two pages, which separate commits write, so    *)
(* that a copy mixing two moments is told from a committed state.  A       *)
(* digest is the content it is taken over: BLAKE3 is assumed free of       *)
(* collisions.  Nothing in the code replaces an admitted file, so the      *)
(* owner, mode, link and inode checks of an admission say here only that   *)
(* the file is there.                                                      *)
(***************************************************************************)
EXTENDS Naturals, Sequences, SequencesExt

CONSTANTS
  Servers,      \* processes that serve a store (bullet-farmd, farm reap)
  Keepers,      \* processes that back up and restore
  Names,        \* the paths backups and restores are published at
  MaxCommits,   \* bound: commits to all stores
  None

VARIABLES
  disk,      \* path -> the store at it: main file, log, and their stamps
  proc,      \* process -> where its current operation stands
  receipts,  \* backup receipts handed out
  commits,   \* commits so far
  history    \* every content some store held as a committed state

storeVars == <<disk, proc, receipts, commits, history>>

Procs == Servers \cup Keepers
Paths == {"live"} \cup Names

\* The applied migrations: the embedded set, a recognised prefix of it
\* (22..=26 of 27), or anything else.
Schemas == {"current", "prefix", "foreign"}

\* restore_state and mutation_authority are what a restore changes; data
\* stands for every other table.
Uses == {"RESERVED", "CONSUMED", "INVALIDATED", "UNKNOWN"}

Contents ==
  [data: 0..MaxCommits, use: Uses, epoch: Nat, pending: BOOLEAN,
   schema: Schemas]

\* A frame of the log: the page it overwrites and what it holds after.
Frame(page, content) == [page |-> page, data |-> content.data, use |-> content.use]

\* What SQLite reads from a main file and a log: the frames, in order, over
\* the main file.
Recover(main, wal) ==
  FoldLeft(LAMBDA c, f : IF f.page = "data" THEN [c EXCEPT !.data = f.data]
                         ELSE [c EXCEPT !.use = f.use],
           main, wal)

\* The owner, mode, link and identity checks of an admission pass.
Present(f) == disk[f] # None

Committed(f) == Recover(disk[f].main, disk[f].wal)

Single(content) ==
  [main |-> content, wal |-> <<>>, mainStamp |-> 0, walStamp |-> 0,
   durable |-> FALSE]

Idle == [at |-> "idle"]

StoreInit ==
  /\ \E s \in Schemas :
       LET first == [data |-> 0, use |-> "RESERVED", epoch |-> 0,
                     pending |-> FALSE, schema |-> s]
       IN /\ disk = [f \in Paths |->
                       IF f = "live" THEN [Single(first) EXCEPT !.durable = TRUE]
                       ELSE None]
          /\ history = {first}
  /\ proc = [p \in Procs |-> Idle]
  /\ receipts = {}
  /\ commits = 0

Finish(p) == proc' = [proc EXCEPT ![p] = Idle]

Goto(p, at) == proc' = [proc EXCEPT ![p].at = at]

\* The operation ends in an error that leaves no file behind: staged and
\* private files are removed.
Refuse(p) == Finish(p) /\ UNCHANGED <<disk, receipts, commits, history>>

-----------------------------------------------------------------------------
(* Inspection of a content: what each caller admits.                       *)

\* inspect_existing: a recognised schema, and no pending restore unless the
\* caller allows one.
InspectExisting(content, allowPending) ==
  /\ content.schema \in {"current", "prefix"}
  /\ content.pending => allowPending

\* verify_or_initialize on an existing store: inspection, and the schema
\* must be current.
VerifyOrInitialize(content) ==
  InspectExisting(content, FALSE) /\ content.schema = "current"

InspectFor(purpose, content) ==
  IF purpose = "serving" THEN VerifyOrInitialize(content)
  ELSE InspectExisting(content, FALSE)

-----------------------------------------------------------------------------
(* Capture: a private copy of main file and log, taken while others write. *)

\* subjects: the main file is fingerprinted, then the log.
Capture(p, purpose, f, d) ==
  [at |-> "statWal", purpose |-> purpose, src |-> f, dst |-> d,
   seen |-> "nothing", main |-> disk[f].mainStamp, wal |-> None,
   copy |-> None]

\* SqliteLedger::open.
StartOpen(p, f) ==
  /\ proc[p].at = "idle" /\ Present(f)
  /\ proc' = [proc EXCEPT ![p] = Capture(p, "serving", f, f)]
  /\ UNCHANGED <<disk, receipts, commits, history>>

\* create_backup, up to the admission of its source.
StartBackup(p, f, d) ==
  /\ proc[p].at = "idle"
  /\ ~Present(d) /\ Present(f)
  /\ proc' = [proc EXCEPT ![p] = Capture(p, "backup", f, d)]
  /\ UNCHANGED <<disk, receipts, commits, history>>

\* The source changed under the capture: its private copy is removed and the
\* capture repeated, or the 5 seconds are over and the call refused.
Changed(p) ==
  \/ /\ proc' = [proc EXCEPT ![p] = Capture(p, proc[p].purpose, proc[p].src, proc[p].dst)]
     /\ UNCHANGED <<disk, receipts, commits, history>>
  \/ Refuse(p)

StatWal(p) ==
  /\ proc[p].at = "statWal"
  /\ proc' = [proc EXCEPT ![p] =
       [@ EXCEPT !.at = "copyMain", !.wal = disk[proc[p].src].walStamp]]
  /\ UNCHANGED <<disk, receipts, commits, history>>

\* copy_snapshot: the online backup of the private copy into the staged file
\* has its content and no log.
CopySnapshot(content) == content

\* A file still has the fingerprint and the digest of its capture.
Same(p, file) ==
  IF file = "main" THEN disk[proc[p].src].mainStamp = proc[p].main
  ELSE disk[proc[p].src].walStamp = proc[p].wal

\* read_subject: a copy holds only when the fingerprint still does.
CopyMain(p) ==
  /\ proc[p].at = "copyMain"
  /\ IF Same(p, "main")
     THEN /\ proc' = [proc EXCEPT ![p] =
               [@ EXCEPT !.at = "copyWal", !.copy = disk[proc[p].src].main]]
          /\ UNCHANGED <<disk, receipts, commits, history>>
     ELSE Changed(p)

CopyWal(p) ==
  /\ proc[p].at = "copyWal"
  /\ IF Same(p, "wal")
     THEN /\ proc' = [proc EXCEPT ![p] =
               [@ EXCEPT !.at = "verifyMain", !.copy = Recover(@, disk[proc[p].src].wal)]]
          /\ UNCHANGED <<disk, receipts, commits, history>>
     ELSE Changed(p)

\* verify_sources re-reads both files against the capture, before the copy
\* is opened and again after it is closed.
VerifyMain(p) ==
  /\ proc[p].at = "verifyMain"
  /\ IF Same(p, "main")
     THEN Goto(p, "verifyWal") /\ UNCHANGED <<disk, receipts, commits, history>>
     ELSE Changed(p)

\* The private copy is opened, recovered, judged and closed, and its verdict
\* counts once the source is known unchanged around it.  A backup then stages
\* the copy as a single file, which is synced, inspected and digested.
VerifyWal(p) ==
  LET fits == InspectFor(proc[p].purpose, proc[p].copy) IN
  /\ proc[p].at = "verifyWal"
  /\ CASE ~Same(p, "wal") -> Changed(p)
       [] Same(p, "wal") /\ proc[p].seen = "nothing" ->
            /\ proc' = [proc EXCEPT ![p] =
                 [@ EXCEPT !.at = "verifyMain",
                           !.seen = IF fits THEN "admissible" ELSE "refused"]]
            /\ UNCHANGED <<disk, receipts, commits, history>>
       [] Same(p, "wal") /\ proc[p].seen = "admissible" ->
            /\ proc' = [proc EXCEPT ![p] =
                 IF @.purpose = "serving"
                 THEN [at |-> "admit", src |-> @.src]
                 ELSE [at |-> "publish", purpose |-> "backup", dst |-> @.dst,
                       copy |-> CopySnapshot(@.copy)]]
            /\ UNCHANGED <<disk, receipts, commits, history>>
       [] Same(p, "wal") /\ proc[p].seen = "refused" -> Refuse(p)

-----------------------------------------------------------------------------
(* Serving.                                                                *)

\* The store itself is opened and verified once more.
Admit(p) ==
  /\ proc[p].at = "admit"
  /\ IF VerifyOrInitialize(Committed(proc[p].src))
     THEN Goto(p, "serving") /\ UNCHANGED <<disk, receipts, commits, history>>
     ELSE Refuse(p)

\* A commit appends to the log; once every frame is in the main file the log
\* starts over.
Commit(p, page, next) ==
  LET f == proc[p].src
      frame == Frame(page, next)
      log == IF Committed(f) = disk[f].main THEN {<<>>, disk[f].wal} ELSE {disk[f].wal}
  IN /\ proc[p].at = "serving"
     /\ \E w \in log :
          disk' = [disk EXCEPT ![f] =
                     [@ EXCEPT !.wal = Append(w, frame), !.walStamp = @ + 1]]
     /\ commits < MaxCommits
     /\ commits' = commits + 1
     /\ history' = history \cup {next}
     /\ UNCHANGED <<proc, receipts>>

CommitData(p) ==
  /\ proc[p].at = "serving"
  /\ LET c == Committed(proc[p].src) IN
     Commit(p, "data", [c EXCEPT !.data = @ + 1])

CommitUse(p) ==
  /\ proc[p].at = "serving"
  /\ LET c == Committed(proc[p].src) IN
     /\ c.use = "RESERVED"
     /\ Commit(p, "use", [c EXCEPT !.use = "CONSUMED"])

\* SQLite moves the log's frames into the main file.
Checkpoint(p) ==
  LET f == proc[p].src IN
  /\ proc[p].at = "serving"
  /\ Committed(f) # disk[f].main
  /\ disk' = [disk EXCEPT ![f] =
                [@ EXCEPT !.main = Committed(f), !.mainStamp = @ + 1]]
  /\ UNCHANGED <<proc, receipts, commits, history>>

\* The ledger is closed.  The last connection to a store checkpoints and
\* removes its log.
StopServing(p) ==
  LET f == proc[p].src
      last == \A q \in Procs \ {p} : ~(proc[q].at = "serving" /\ proc[q].src = f)
  IN /\ proc[p].at = "serving"
     /\ Finish(p)
     /\ disk' = IF last /\ disk[f].wal # <<>>
                THEN [disk EXCEPT ![f] =
                        [@ EXCEPT !.main = Committed(f), !.mainStamp = @ + 1,
                                  !.wal = <<>>, !.walStamp = @ + 1]]
                ELSE disk
     /\ UNCHANGED <<receipts, commits, history>>

-----------------------------------------------------------------------------
(* Backup and restore: stage, publish under a free name, read back.        *)

\* mutation_authority_restore_invalidation.
InvalidateUse(use) ==
  CASE use = "RESERVED" -> "INVALIDATED"
    [] use = "CONSUMED" -> "UNKNOWN"
    [] OTHER -> use

\* The transition of restore_state, with its triggers.
Quarantined(content) ==
  [content EXCEPT !.epoch = @ + 1, !.pending = TRUE, !.use = InvalidateUse(@)]

\* copy_subject: the bytes at the path are those the receipt binds.
SubjectMatches(f, receipt) == disk[f].main = receipt.digest

\* They hold the schema and the restore epoch the receipt says.
ReceiptFits(content, receipt) ==
  /\ InspectExisting(content, FALSE)
  /\ content.schema = receipt.schema
  /\ content.epoch = receipt.epoch

\* verify_quarantine.
VerifyQuarantine(content) == InspectExisting(content, TRUE) /\ content.pending

\* restore_backup with a retained receipt, up to its staged result.
StartRestore(p, f, d, receipt) ==
  /\ proc[p].at = "idle"
  /\ ~Present(d) /\ Present(f)
  /\ SubjectMatches(f, receipt)
  /\ LET c == disk[f].main IN
     /\ ReceiptFits(c, receipt) /\ VerifyQuarantine(Quarantined(c))
     /\ proc' = [proc EXCEPT ![p] = [at |-> "publish", purpose |-> "restore",
                                     dst |-> d, copy |-> Quarantined(c)]]
  /\ UNCHANGED <<disk, receipts, commits, history>>

\* persist_noclobber.
Publish(p) ==
  LET d == proc[p].dst IN
  /\ proc[p].at = "publish"
  /\ IF ~Present(d)
     THEN /\ disk' = [disk EXCEPT ![d] = Single(proc[p].copy)]
          /\ Goto(p, "sync")
          /\ UNCHANGED <<receipts, commits, history>>
     ELSE Refuse(p)

\* The rest of publish: the file, then its directory, are synced.
SyncPublished(p) ==
  /\ proc[p].at = "sync"
  /\ disk' = [disk EXCEPT ![proc[p].dst].durable = TRUE]
  /\ Goto(p, "readback")
  /\ UNCHANGED <<receipts, commits, history>>

\* verify_published_backup.
VerifyPublished(p) == disk[proc[p].dst].main = proc[p].copy

\* The published bytes are read back.  A backup's source is closed; a restore
\* answers with a receipt of its own, which no operation reads.
Readback(p) ==
  /\ proc[p].at = "readback"
  /\ IF VerifyPublished(p) /\ proc[p].purpose = "backup"
     THEN Goto(p, "receipt") /\ UNCHANGED <<disk, receipts, commits, history>>
     ELSE Refuse(p)

\* The caller keeps the receipt, in a file that must be new and is synced.
WriteReceipt(p) ==
  /\ proc[p].at = "receipt"
  /\ receipts' = receipts \cup
       {[path |-> proc[p].dst, digest |-> proc[p].copy,
         schema |-> proc[p].copy.schema, epoch |-> proc[p].copy.epoch]}
  /\ Finish(p)
  /\ UNCHANGED <<disk, commits, history>>

-----------------------------------------------------------------------------
(* Failures.                                                               *)

\* An I/O or SQLite error, a handle that does not close (after which the
\* process admits nothing until it is started again), or the death of the
\* process.  Before publication the staged and private files go; after it the
\* published file stays, without a receipt.
Fails(p) == proc[p].at \notin {"idle", "serving"} /\ Refuse(p)

\* A serving process dies: its log stays.
Crash(p) == proc[p].at = "serving" /\ Refuse(p)

\* The machine stops: names whose directory was not synced may be gone.
PowerLoss ==
  /\ \E gone \in SUBSET {f \in Paths : disk[f] # None /\ ~disk[f].durable} :
       disk' = [f \in Paths |->
                  CASE f \in gone -> None
                    [] disk[f] # None /\ f \notin gone -> [disk[f] EXCEPT !.durable = TRUE]
                    [] OTHER -> None]
  /\ proc' = [p \in Procs |-> Idle]
  /\ UNCHANGED <<receipts, commits, history>>

CaptureStep(p) ==
  \/ StatWal(p) \/ CopyMain(p) \/ CopyWal(p)
  \/ VerifyMain(p) \/ VerifyWal(p)

ServerStep(p) ==
  \/ \E f \in Paths : StartOpen(p, f)
  \/ Admit(p) \/ CommitData(p) \/ CommitUse(p) \/ Checkpoint(p) \/ StopServing(p) \/ Crash(p)

KeeperStep(p) ==
  \/ \E f \in Paths, d \in Names : StartBackup(p, f, d)
  \/ \E f \in Paths, d \in Names, r \in receipts : StartRestore(p, f, d, r)
  \/ Publish(p) \/ SyncPublished(p) \/ Readback(p) \/ WriteReceipt(p)

StoreNext ==
  \/ \E p \in Servers : ServerStep(p)
  \/ \E p \in Keepers : KeeperStep(p)
  \/ \E p \in Procs : CaptureStep(p) \/ Fails(p)
  \/ PowerLoss

StoreSpec == StoreInit /\ [][StoreNext]_storeVars

-----------------------------------------------------------------------------
StoreTypeOK ==
  /\ \A f \in Paths : ~Present(f) \/ disk[f].main \in Contents
  /\ history \subseteq Contents

\* "Create a WAL-consistent, standalone SQLite backup": whatever writers did
\* while main file and log were copied, a receipt binds a state some store
\* had committed, and the file it names is there, also after a power loss,
\* with the bytes the receipt binds until someone writes to it.
ReceiptIsGood ==
  \A r \in receipts :
    /\ r.digest \in history
    /\ Present(r.path)
    /\ disk[r.path].mainStamp = 0 => disk[r.path].main = r.digest

\* A restored store is never served: whoever captured, inspected and opened
\* whatever when, a served store is current and holds no pending restore; and
\* a store in quarantine is the content some receipt binds one restore epoch
\* on, with every reserved or consumed mutation invalidated.
QuarantineHolds ==
  /\ \A p \in Procs : proc[p].at = "serving" =>
       /\ ~ Committed(proc[p].src).pending
       /\ Committed(proc[p].src).schema = "current"
  /\ \A f \in Paths : (Present(f) /\ Committed(f).pending) =>
       /\ \E r \in receipts :
            /\ Committed(f).epoch = r.epoch + 1
            /\ Committed(f).data = r.digest.data
            /\ Committed(f).schema = r.digest.schema
       /\ Committed(f).use \notin {"RESERVED", "CONSUMED"}

\* Backups are what their receipts say and restores stay in quarantine.
StoresAreSafe == ReceiptIsGood /\ QuarantineHolds
=============================================================================
