------------------------------ MODULE StoreOpen ------------------------------
(***************************************************************************)
(* How a ledger database comes to be served: the schema authority          *)
(* (crates/adapters/src/sqlite/migrations.rs with inspection.rs and        *)
(* identity.rs) and the creation, admission, initialization and clean-up   *)
(* of its file (open.rs and open/linux.rs), by processes that open the     *)
(* same path at the same time, fail at any step and die at any step.       *)
(* StoreBackup has the byte-level capture of a database that is written    *)
(* meanwhile; here a capture is one step and says only whether the source  *)
(* was written before the inspection ended.                                *)
(***************************************************************************)
EXTENDS Integers, FiniteSets

CONSTANTS
  SoOpeners,   \* processes that open the path to serve it
  SoInodes     \* bound: files ever created are 1..SoInodes

ASSUME OpenConstants == SoInodes \in Nat \ {0}

VARIABLES
  soPath,      \* the inode at the database's path, 0 for none
  soSide,      \* its sidecars: a log, or a log or journal a dead process left
  soData,      \* what each inode holds, its log or journal replayed
  so,          \* each process's call of SqliteLedger::open; stable: its file was not
               \* written since the call last looked at it
  soFailed,    \* the inode whose handle did not close, with CLOSE_FAILED set
  soExclusive, \* the inode an outside tool has in exclusive maintenance custody
  soTouched,   \* inodes SQLite has written
  soBirths,    \* how often each inode was initialized
  soRaced      \* inodes written between the look at them and their unlinkat

openVars == <<soPath, soSide, soData, so, soFailed, soExclusive, soTouched, soBirths, soRaced>>

-----------------------------------------------------------------------------
(* The schema authority. *)

\* MIGRATIONS, and the oldest catalog prefix that is still recognized.
Catalog == 27
OldestPrefix == 22

\* A database: rows of schema_version, at most one flaw, and the quarantine
\* flag of restore_state.
SoFlaws == {"none", "pragma", "objects", "columns", "checksum", "time", "keys", "marker",
            "recovery marker", "authority", "restore", "damaged", "replay"}
SoDatabases ==
  {d \in [rows : {0, 21, 22, 26, 27, 28}, flaw : SoFlaws, pending : BOOLEAN] :
     /\ d.rows = 0 => ~d.pending /\ d.flaw \in {"none", "pragma", "objects"}
     /\ d.flaw = "recovery marker" => d.rows >= 23}

\* verify_unclaimed_pragmas; no objects without a metadata table; the columns
\* of schema_version.
UnclaimedPragmas(d) == d.flaw # "pragma"
NoUserSchema(d) == d.flaw # "objects"
MetadataSchema(d) == d.flaw # "columns"

\* A row has the version, name and checksum its migration frames.
MigrationRows(d) == d.flaw # "checksum"

\* verify_applied_migrations: an exact prefix of the catalog.  Only a prefix to
\* upgrade has its times parsed.
AppliedMigrations(d) ==
  /\ d.rows \in OldestPrefix..Catalog
  /\ MigrationRows(d)
  /\ d.rows < Catalog => d.flaw # "time"

\* verify_product_schema against a fresh database of the same prefix, then
\* verify_foreign_key_integrity.
SchemaObjects(d) == d.flaw # "objects"
ForeignKeys(d) == d.flaw # "keys"
ProductSchema(d) == SchemaObjects(d) /\ ForeignKeys(d)

\* identity::verify: three markers, and from migration 23 on a fourth.
Marker(d) == d.flaw # "marker"
RecoveryMarker(d) == d.flaw # "recovery marker"
Identities(d) == Marker(d) /\ (d.rows >= 23 => RecoveryMarker(d))

\* authority::current and read_restore_state: one row each, consistent.
AuthorityRow(d) == d.flaw # "authority"
RestoreRow(d) == d.flaw # "restore"

\* require_current, with the integrity check an upgrade makes before it.
UpgradeVerdict(d) == IF d.flaw = "damaged" THEN "REFUSED" ELSE "UPGRADE_REQUIRED"

\* verify_or_initialize and inspect_existing for serving: a quarantined database is
\* refused as that before an upgrade is spoken of.
VerifyOpened(d) ==
  IF d.rows = 0
  THEN IF UnclaimedPragmas(d) /\ NoUserSchema(d) THEN "initialize" ELSE "REFUSED"
  ELSE IF ~(/\ UnclaimedPragmas(d) /\ MetadataSchema(d) /\ AppliedMigrations(d)
            /\ ProductSchema(d) /\ Identities(d) /\ AuthorityRow(d) /\ RestoreRow(d)) THEN "REFUSED"
  ELSE IF d.pending THEN "RESTORE_ADMISSION_REQUIRED"
  ELSE IF d.rows < Catalog THEN UpgradeVerdict(d)
  ELSE "serve"

\* validate_replay, before SQLite replays the copy: page sizes and counts within
\* the limit, no super-journal.
InspectCopy(d) == IF d.flaw = "replay" THEN "REPLAY" ELSE VerifyOpened(d)

\* A new file, and what initialize_fresh makes of it in one transaction: the
\* metadata table, every migration with its row, the genesis authority.
SoEmpty == [rows |-> 0, flaw |-> "none", pending |-> FALSE]
SoInitialized == [rows |-> Catalog, flaw |-> "none", pending |-> FALSE]

-----------------------------------------------------------------------------
(* A call of open. *)

SoFiles == 1..SoInodes
SoNoCall == [at |-> "rest", ino |-> 0, created |-> FALSE, held |-> FALSE, stable |-> TRUE, code |-> "none"]

\* Custody: the guard's shared flock, kept with a handle that would not close.
SoHolds(p, i) == (so[p].held /\ so[p].ino = i) \/ soFailed[p] = i

OpenInit ==
  /\ \E d \in SoDatabases \cup {SoEmpty}, i \in {0, 1} :
       /\ i = 0 => d = SoEmpty
       /\ soPath = i
       /\ soData = [j \in SoFiles |-> IF j = 1 THEN d ELSE SoEmpty]
       /\ soSide \in IF d.rows = 0 THEN {"none"} ELSE {"none", "hot"}
  /\ so = [p \in SoOpeners |-> SoNoCall]
  /\ soFailed = [p \in SoOpeners |-> 0] /\ soExclusive = 0
  /\ soTouched = {} /\ soRaced = {} /\ soBirths = [i \in SoFiles |-> 0]

SoSet(p, r) == so' = [so EXCEPT ![p] = r]
SoMoves(p, at) == SoSet(p, [so[p] EXCEPT !.at = at])
SoRefuse(p, code) == SoSet(p, [SoNoCall EXCEPT !.at = "refused", !.code = code])
SoEnds(p, code) == SoSet(p, [so[p] EXCEPT !.at = "cleanup", !.code = code])

\* revalidate: the path still names the admitted inode.
SoAtPath(p) == soPath = so[p].ino

\* What a write to inode i does to the others: their captures have changed.
SoWritten(i, mine) ==
  /\ soTouched' = soTouched \cup {i}
  /\ so' = [q \in DOMAIN mine |-> IF mine[q].ino = i THEN [mine[q] EXCEPT !.stable = FALSE] ELSE mine[q]]

\* admitted_connection, then linux::connection up to the file: after a failed
\* close none is admitted; a path with no file must have no sidecar either.
\* (Bound: once a race has left a log without its file no new call begins.)
SoFind(p) ==
  /\ so[p].at \in {"rest", "refused"} /\ soRaced = {}
  /\ IF soFailed[p] # 0 THEN SoRefuse(p, "CLOSE_RESTART_REQUIRED")
     ELSE IF soPath # 0 THEN SoSet(p, [SoNoCall EXCEPT !.at = "custody", !.ino = soPath])
     ELSE IF soSide = "none" THEN SoSet(p, [SoNoCall EXCEPT !.at = "create"])
     ELSE SoRefuse(p, "STORE_FAILURE")
  /\ UNCHANGED <<soPath, soSide, soData, soFailed, soExclusive, soTouched, soBirths, soRaced>>

\* create_database: exclusively, or the file a peer has made meanwhile.
SoCreate(p) ==
  /\ so[p].at = "create" /\ soRaced = {}
  /\ \/ /\ soPath # 0
        /\ SoSet(p, [SoNoCall EXCEPT !.at = "custody", !.ino = soPath])
        /\ UNCHANGED <<soPath, soData>>
     \/ \E i \in SoFiles :
          /\ soPath = 0 /\ i \notin soTouched /\ \A q \in SoOpeners : so[q].ino # i
          /\ \A j \in SoFiles : j < i => j \in soTouched \/ \E q \in SoOpeners : so[q].ino = j
          /\ soPath' = i /\ soData' = [soData EXCEPT ![i] = SoEmpty]
          /\ SoSet(p, [SoNoCall EXCEPT !.at = IF soSide = "none" THEN "custody" ELSE "cleanup",
                                   !.ino = i, !.created = TRUE])
  /\ UNCHANGED <<soSide, soFailed, soExclusive, soTouched, soBirths, soRaced>>

\* revalidate and acquire_shared.  Without custody even a new empty file is
\* left alone: it may be a peer's by now.  A file just created is not inspected.
SoCustody(p) ==
  /\ so[p].at = "custody"
  /\ CASE ~SoAtPath(p) -> SoEnds(p, "STORE_FAILURE")
       [] SoAtPath(p) /\ soExclusive = so[p].ino -> SoRefuse(p, "CUSTODY_BUSY")
       [] OTHER -> SoSet(p, [so[p] EXCEPT !.held = TRUE, !.at = IF so[p].created THEN "open" ELSE "capture"])
  /\ UNCHANGED <<soPath, soSide, soData, soFailed, soExclusive, soTouched, soBirths, soRaced>>

\* inspect_once, to the private copy.
SoCapture(p) ==
  /\ so[p].at = "capture"
  /\ IF SoAtPath(p) THEN SoSet(p, [so[p] EXCEPT !.at = "inspect", !.stable = TRUE])
     ELSE SoEnds(p, "STORE_FAILURE")
  /\ UNCHANGED <<soPath, soSide, soData, soFailed, soExclusive, soTouched, soBirths, soRaced>>

\* The copy is replayed, checked and closed; a source written meanwhile is
\* captured again, for five seconds.  A close that fails keeps the custody.
SoInspect(p) ==
  LET verdict == InspectCopy(soData[so[p].ino])
  IN /\ so[p].at = "inspect"
     /\ \/ /\ UNCHANGED soFailed
           /\ CASE ~SoAtPath(p) -> SoEnds(p, "STORE_FAILURE")
                [] SoAtPath(p) /\ ~so[p].stable -> SoMoves(p, "capture") \/ SoEnds(p, "SOURCE_CHANGED")
                [] OTHER -> IF verdict \in {"serve", "initialize"} THEN SoMoves(p, "open")
                            ELSE SoEnds(p, verdict)
        \/ soFailed' = [soFailed EXCEPT ![p] = so[p].ino] /\ SoRefuse(p, "CLOSE_RESTART_REQUIRED")
     /\ UNCHANGED <<soPath, soSide, soData, soExclusive, soTouched, soBirths, soRaced>>

\* Connection::open_with_flags and postflight.
SoOpen(p) ==
  /\ so[p].at = "open"
  /\ IF SoAtPath(p) THEN SoMoves(p, "verify") ELSE SoEnds(p, "STORE_FAILURE")
  /\ UNCHANGED <<soPath, soSide, soData, soFailed, soExclusive, soTouched, soBirths, soRaced>>

\* verify_or_initialize on the source: its first read replays what a dead
\* process left; then the checks once more, or the fresh schema to be made.
SoVerify(p) ==
  LET verdict == VerifyOpened(soData[so[p].ino])
      next == [so EXCEPT ![p] = [@ EXCEPT
                 !.at = CASE verdict = "serve" -> "durable" [] verdict = "initialize" -> "begin"
                          [] OTHER -> "cleanup",
                 !.code = IF verdict \in {"serve", "initialize"} THEN "none" ELSE verdict]]
  IN /\ so[p].at = "verify"
     /\ IF soSide \in {"hot", "hot journal"}
        THEN /\ soSide' = IF soSide = "hot" THEN "log" ELSE "none"
             /\ SoWritten(so[p].ino, next)
        ELSE so' = next /\ UNCHANGED <<soSide, soTouched>>
     /\ UNCHANGED <<soPath, soData, soFailed, soExclusive, soBirths, soRaced>>

\* initialize_prefix: BEGIN IMMEDIATE, which waits for a peer's transaction or
\* gives up; the metadata table must not be there by then.
SoBegin(p) ==
  LET i == so[p].ino
      busy == \E q \in SoOpeners : so[q].at = "commit" /\ so[q].ino = i
  IN /\ so[p].at = "begin"
     /\ \/ ~busy /\ soData[i].rows = 0 /\ soSide' = "journal" /\ SoMoves(p, "commit")
        \/ (busy \/ soData[i].rows # 0) /\ SoEnds(p, "STORE_FAILURE") /\ UNCHANGED soSide
     /\ UNCHANGED <<soPath, soData, soFailed, soExclusive, soTouched, soBirths, soRaced>>

\* seed_genesis, inside that transaction; two are as many as tell once from more.
SeedGenesis(i) == soBirths' = [soBirths EXCEPT ![i] = IF @ < 2 THEN @ + 1 ELSE @]

SoCommit(p) ==
  LET i == so[p].ino
  IN /\ so[p].at = "commit"
     /\ soSide' = "none"
     /\ \/ /\ soData' = [soData EXCEPT ![i] = SoInitialized]
           /\ SeedGenesis(i)
           /\ SoWritten(i, [so EXCEPT ![p].at = "durable"])
        \/ SoEnds(p, "STORE_FAILURE") /\ UNCHANGED <<soData, soBirths, soTouched>>
     /\ UNCHANGED <<soPath, soFailed, soExclusive, soRaced>>

\* configure_durability: write-ahead logging, unless a transaction is open.
SoDurable(p) ==
  LET i == so[p].ino
  IN /\ so[p].at = "durable"
     /\ IF \E q \in SoOpeners : so[q].at = "commit" /\ so[q].ino = i
        THEN SoEnds(p, "STORE_FAILURE") /\ UNCHANGED <<soSide, soTouched>>
        ELSE soSide' = "log" /\ SoWritten(i, [so EXCEPT ![p].at = "postflight"])
     /\ UNCHANGED <<soPath, soData, soFailed, soExclusive, soBirths, soRaced>>

\* postflight, the last look before the ledger is handed out.
SoPostflight(p) ==
  /\ so[p].at = "postflight"
  /\ IF SoAtPath(p) THEN SoMoves(p, "serving") ELSE SoEnds(p, "STORE_FAILURE")
  /\ UNCHANGED <<soPath, soSide, soData, soFailed, soExclusive, soTouched, soBirths, soRaced>>

\* Any call of SQLite or of the system may fail instead.
SoFails(p) ==
  /\ so[p].at \in {"custody", "capture", "open", "verify", "begin", "durable", "postflight"}
  /\ SoEnds(p, "STORE_FAILURE")
  /\ UNCHANGED <<soPath, soSide, soData, soFailed, soExclusive, soTouched, soBirths, soRaced>>

\* linux::cleanup, its checks: only the creator, only while no sidecar exists,
\* the path is its inode and the file is empty.
SoCleanup(p) ==
  /\ so[p].at = "cleanup"
  /\ IF so[p].created /\ soSide = "none" /\ SoAtPath(p) /\ so[p].ino \notin soTouched
     THEN SoSet(p, [so[p] EXCEPT !.at = "unlink", !.stable = TRUE]) ELSE SoRefuse(p, so[p].code)
  /\ UNCHANGED <<soPath, soSide, soData, soFailed, soExclusive, soTouched, soBirths, soRaced>>

\* linux::cleanup, its unlinkat, by name.
SoUnlink(p) ==
  /\ so[p].at = "unlink"
  /\ soPath' = 0
  /\ soRaced' = IF so[p].stable THEN soRaced ELSE soRaced \cup {so[p].ino}
  /\ SoRefuse(p, so[p].code)
  /\ UNCHANGED <<soSide, soData, soFailed, soExclusive, soTouched, soBirths>>

\* The ledger is dropped: the last connection takes the log with it.
SoClose(p) ==
  LET i == so[p].ino
      last == \A q \in SoOpeners \ {p} : so[q].ino = i => so[q].at \notin {"serving", "postflight"}
  IN /\ so[p].at = "serving"
     /\ soSide' = IF last /\ SoAtPath(p) THEN "none" ELSE soSide
     /\ SoWritten(i, [so EXCEPT ![p] = SoNoCall])
     /\ UNCHANGED <<soPath, soData, soFailed, soExclusive, soBirths, soRaced>>

\* The process dies: its transaction is left to be rolled back, or its log to
\* be replayed.
SoDie(p) ==
  /\ so[p].at # "rest"
  /\ soSide' = CASE so[p].at = "commit" -> "hot journal"
                 [] so[p].at \in {"serving", "postflight"} /\ soSide = "log" /\ SoAtPath(p)
                      /\ (\A q \in SoOpeners \ {p} : so[q].at \notin {"serving", "postflight"}) -> "hot"
                 [] OTHER -> soSide
  /\ SoSet(p, SoNoCall) /\ soFailed' = [soFailed EXCEPT ![p] = 0]
  /\ UNCHANGED <<soPath, soData, soExclusive, soTouched, soBirths, soRaced>>

\* A maintenance tool takes exclusive custody of the file, and gives it back.
SoMaintain ==
  /\ \/ soExclusive # 0 /\ soExclusive' = 0
     \/ soExclusive = 0 /\ soPath # 0 /\ (\A p \in SoOpeners : ~SoHolds(p, soPath)) /\ soExclusive' = soPath
  /\ UNCHANGED <<soPath, soSide, soData, so, soFailed, soTouched, soBirths, soRaced>>

OpenNext ==
  \/ \E p \in SoOpeners :
       \/ SoFind(p) \/ SoCreate(p) \/ SoCustody(p) \/ SoCapture(p) \/ SoInspect(p) \/ SoOpen(p)
       \/ SoVerify(p) \/ SoBegin(p) \/ SoCommit(p) \/ SoDurable(p) \/ SoPostflight(p)
       \/ SoFails(p) \/ SoCleanup(p) \/ SoUnlink(p) \/ SoClose(p) \/ SoDie(p)
  \/ SoMaintain

-----------------------------------------------------------------------------
(* Properties. *)

OpenTypeOK ==
  /\ soPath \in 0..SoInodes
  /\ soSide \in {"none", "journal", "log", "hot", "hot journal"}
  /\ soData \in [SoFiles -> SoDatabases]
  /\ \A p \in SoOpeners : so[p].ino \in 0..SoInodes /\ so[p].created \in BOOLEAN
  /\ soFailed \in [SoOpeners -> 0..SoInodes] /\ soExclusive \in 0..SoInodes
  /\ soTouched \subseteq SoFiles /\ soRaced \subseteq SoFiles

\* A ledger that was handed out is the database at its path, at the current
\* schema and not quarantined, although its peers create, fail and clean up at
\* the same time.  One window is left: linux::cleanup looks whether the file is
\* empty and then unlinks it, and the shared custody its comment asks for
\* excludes no peer that opened the same empty file (soRaced).
ServedIsAtPath ==
  \A p \in SoOpeners : so[p].at = "serving" =>
    /\ VerifyOpened(soData[so[p].ino]) = "serve"
    /\ SoAtPath(p) \/ so[p].ino \in soRaced

\* A database that is refused for what it holds keeps every byte, its
\* uncheckpointed log and its hot journal included: SQLite never opens it.
\* (identity.rs: schema_eight_legacy_receipt_is_refused_byte_for_byte)
RefusedIsUntouched ==
  \A i \in SoFiles : InspectCopy(soData[i]) \notin {"serve", "initialize"} => i \notin soTouched

\* A file gets its schema and its genesis authority once, although two openers
\* both find it empty (authority.rs: "Seeded once").
GenesisIsOnce == \A i \in SoFiles : soBirths[i] <= 1

\* No process is told to upgrade a quarantined database.
QuarantineIsToldFirst ==
  \A p \in SoOpeners : so[p].at = "cleanup" /\ so[p].code = "UPGRADE_REQUIRED"
                         => ~soData[so[p].ino].pending

\* While an outside tool has exclusive custody no process has a call past it.
CustodyExcludes == soExclusive # 0 => \A p \in SoOpeners : ~SoHolds(p, soExclusive)

OpensAreSafe == /\ ServedIsAtPath /\ RefusedIsUntouched /\ GenesisIsOnce
                /\ QuarantineIsToldFirst /\ CustodyExcludes
=============================================================================
