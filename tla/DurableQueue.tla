---------------------------- MODULE DurableQueue ----------------------------
(***************************************************************************)
(* The on-disk effect queue: one file per job in one of three phase        *)
(* directories, moved forward by writing the next record before removing   *)
(* the previous one.  Nothing locks the queue, so every file operation     *)
(* (create, write, sync, remove, sync of a directory) is a step of its own *)
(* and any process may run between two of them, die, or lose power with    *)
(* the machine.  A record is readable as soon as it is written, which is   *)
(* two syncs before it is durable.                                         *)
(***************************************************************************)
EXTENDS Integers, FiniteSets

CONSTANTS
    DqProcs,    \* processes with the queue open
    DqIds,      \* job ids, naturals: file names sort by them
    DqJobs,     \* what callers present under an id (provider, key, ref, oids)
    DqFaults    \* bound on crashes, power losses and failed writes or syncs

VARIABLES
    dq,   \* phase -> id -> the file
    dp,   \* the processes
    dh    \* accepted enqueues, ids moved on the word of an unsynced record, faults

dqVars == <<dq, dp, dh>>

\* In the order the code visits them.
Phases3 == <<"pending", "unknown", "settled">>
PhaseNames == {"pending", "unknown", "settled"}
PhaseRank(phase) == CHOOSE i \in 1..3 : Phases3[i] = phase

\* A path holds nothing, a torn record (created, not yet written) or a job's.
\* raw says that the file was not synced, by which process has yet to do so,
\* and old is what the path may hold again after a power loss because the
\* directory was not synced since.
NoFile == [holds |-> "absent", by |-> "nobody", raw |-> FALSE, old |-> {}]
IsWhole(file) == file.holds \notin {"absent", "torn"}
IsDurable(file) == IsWhole(file) /\ ~file.raw /\ file.old = {}

\* Fields a record is refused for, by the function that looks at them.
ValidateId == {"id_empty", "id_long", "id_alphabet", "id_dots"}
IsOid == {"oid_length", "oid_alphabet"}
ValidateJob == ValidateId \cup IsOid \cup {"field_empty", "field_long", "field_control", "ref_namespace", "ref_dots"}

\* Callers' jobs are well formed except for these.
JobDefects == {"id_empty", "id_long", "id_alphabet", "id_dots", "oid_length", "oid_alphabet", "field_empty", "field_long", "field_control", "ref_namespace", "ref_dots"}

IdleProc == [pc |-> "idle", op |-> "none", id |-> 0, job |-> "none", look |-> 0, found |-> {}, past |-> 0]

FromPhase(op) == IF op = "settle" THEN "unknown" ELSE "pending"
ToPhase(op) == CASE op = "enqueue" -> "pending" [] op = "unknown" -> "unknown" [] OTHER -> "settled"
OtherPhase(op) == IF op = "settle" THEN "pending" ELSE "settled"

\* History: a transition relies on this record of the id, synced or not.
Relied(file, id) == [dh EXCEPT !.early = IF IsDurable(file) THEN @ ELSE @ \cup {id}]

Go(p, pc) == dp' = [dp EXCEPT ![p].pc = pc]
Stop(p) == dp' = [dp EXCEPT ![p] = IdleProc]

----------------------------------------------------------------------------
\* enqueue validates, then looks for the id in each phase in turn.
Enqueue(p, id, job, flaw) ==
    /\ dp[p].pc = "idle"
    /\ flaw \notin ValidateJob
    /\ dp' = [dp EXCEPT ![p] = [IdleProc EXCEPT !.pc = "locate", !.op = "enqueue",
                                               !.id = id, !.job = job, !.look = 1]]
    /\ UNCHANGED <<dq, dh>>

\* History: the last phase that holds a durable record of the id, 0 for none.
FurthestPhase(id) ==
    LET at == {i \in 1..3 : IsDurable(dq[Phases3[i]][id])}
    IN  IF at = {} THEN 0 ELSE CHOOSE i \in at : \A j \in at : j <= i

\* take_pending and take_unknown list the phase and look at its first name.
TakeFirst(p, op) ==
    /\ dp[p].pc = "idle"
    /\ LET listed == {i \in DqIds : dq[FromPhase(op)][i].holds # "absent"} IN
       /\ listed # {}
       /\ LET id == CHOOSE i \in listed : \A j \in listed : i <= j IN
          dp' = [dp EXCEPT ![p] = [IdleProc EXCEPT !.pc = "locate", !.op = op, !.id = id,
                                                  !.look = 1, !.past = FurthestPhase(id)]]
    /\ UNCHANGED <<dq, dh>>

\* What locate's findings lead to.  An enqueue goes on only when nothing was
\* found; a take only when its own phase was, alone.
AfterLocate(p, found) ==
    LET r == dp[p] IN
    IF r.op = "enqueue"
    THEN IF found = {} THEN [r EXCEPT !.pc = "create", !.look = 0, !.found = {}] ELSE IdleProc
    ELSE IF \E job \in DqJobs : found = {<<FromPhase(r.op), job>>}
         THEN [r EXCEPT !.pc = "hold", !.look = 0, !.found = {},
                        !.job = CHOOSE job \in DqJobs : found = {<<FromPhase(r.op), job>>}]
         ELSE IdleProc

\* One phase read of locate; a torn record is an error that ends the call.
Locate(p) ==
    /\ dp[p].pc = "locate"
    /\ LET r == dp[p]
           phase == Phases3[r.look]
           file == dq[phase][r.id]
           found == IF IsWhole(file) THEN r.found \cup {<<phase, file.holds>>} ELSE r.found
       IN  IF file.holds = "torn" THEN Stop(p)
           ELSE IF r.look < 3 THEN dp' = [dp EXCEPT ![p].look = @ + 1, ![p].found = found]
           ELSE dp' = [dp EXCEPT ![p] = AfterLocate(p, found)]
    /\ UNCHANGED <<dq, dh>>

\* The holder of a taken job may drop it (serve exits, take does not claim) or
\* move it on: mark_unknown and mark_settled enter transition.
Hold(p) ==
    /\ dp[p].pc = "hold"
    /\ Go(p, "other") \/ Stop(p)
    /\ UNCHANGED <<dq, dh>>

\* transition: the uninvolved phase must be empty,
CheckOther(p) ==
    /\ dp[p].pc = "other"
    /\ IF dq[OtherPhase(dp[p].op)][dp[p].id].holds = "absent" THEN Go(p, "source") ELSE Stop(p)
    /\ UNCHANGED <<dq, dh>>

\* the source must be the job held; when it is gone the move was already made
\* if the destination says so,
CheckSource(p) ==
    /\ dp[p].pc = "source"
    /\ LET file == dq[FromPhase(dp[p].op)][dp[p].id] IN
       IF file.holds = dp[p].job THEN Go(p, "create") /\ dh' = Relied(file, dp[p].id)
       ELSE (IF file.holds = "absent" THEN Go(p, "destination") ELSE Stop(p)) /\ UNCHANGED dh
    /\ UNCHANGED dq

CheckDestination(p) ==
    /\ dp[p].pc = "destination"
    /\ Stop(p)
    /\ UNCHANGED <<dq, dh>>

\* write_new_record: create-new, write_all, sync_all and the sync of the
\* directory.  An existing equal record counts as written, also one whose
\* writer has not synced it yet.
CreateNew(p) ==
    /\ dp[p].pc = "create"
    /\ LET r == dp[p]
           file == dq[ToPhase(r.op)][r.id]
       IN
       \/ /\ file.holds = "absent"
          /\ dq' = [dq EXCEPT ![ToPhase(r.op)][r.id] =
                      [holds |-> "torn", by |-> p, raw |-> TRUE, old |-> file.old \cup {"absent"}]]
          /\ Go(p, "write")
          /\ UNCHANGED dh
       \/ /\ file.holds # "absent"
          /\ IF file.holds = r.job /\ r.op # "enqueue"
             THEN /\ Go(p, "remove")
                  /\ dh' = Relied(file, r.id)
             ELSE Stop(p) /\ UNCHANGED dh
          /\ UNCHANGED dq

\* Whether the path still holds the file this process created.
Mine(p) == dq[ToPhase(dp[p].op)][dp[p].id].by = p

WriteRecord(p) ==
    /\ dp[p].pc = "write"
    /\ dq' = IF Mine(p) THEN [dq EXCEPT ![ToPhase(dp[p].op)][dp[p].id].holds = dp[p].job] ELSE dq
    /\ Go(p, "fsync")
    /\ UNCHANGED dh

SyncRecord(p) ==
    /\ dp[p].pc = "fsync"
    /\ dq' = IF Mine(p)
             THEN [dq EXCEPT ![ToPhase(dp[p].op)][dp[p].id] = [@ EXCEPT !.raw = FALSE, !.by = "nobody"]]
             ELSE dq
    /\ Go(p, "syncnew")
    /\ UNCHANGED dh

\* sync_directory: the names in the phase are those of now.
Synced(phase) ==
    [dq EXCEPT ![phase] = [i \in DqIds |-> [@[i] EXCEPT !.old = {}]]]

\* Only now is a new record reported: an enqueue is accepted, a transition
\* goes on to the source.
SyncNew(p) ==
    /\ dp[p].pc = "syncnew"
    /\ dq' = Synced(ToPhase(dp[p].op))
    /\ IF dp[p].op = "enqueue"
       THEN Stop(p) /\ dh' = [dh EXCEPT !.accepted = @ \cup {<<dp[p].id, dp[p].job>>}]
       ELSE Go(p, "remove") /\ UNCHANGED dh

\* A name is removed; the file may be back after a power loss, torn unless it
\* was synced.
Removed(phase, id) ==
    LET file == dq[phase][id]
        back == CASE file.holds = "absent" -> {}
                  [] file.raw -> {"torn", file.holds}
                  [] OTHER -> {file.holds}
    IN [dq EXCEPT ![phase][id] = [NoFile EXCEPT !.old = file.old \cup back]]

\* A failed write_all or sync_all removes the path, whatever holds it by then.
WriteFails(p) ==
    /\ dp[p].pc \in {"write", "fsync"}
    /\ dh.faults < DqFaults
    /\ Go(p, "undo")
    /\ dh' = [dh EXCEPT !.faults = @ + 1]
    /\ UNCHANGED dq

UndoWrite(p) ==
    /\ dp[p].pc = "undo"
    /\ dq' = Removed(ToPhase(dp[p].op), dp[p].id)
    /\ Stop(p)
    /\ UNCHANGED dh

\* The previous record is removed last, whatever it now holds.
RemoveRecord(p) ==
    /\ dp[p].pc = "remove"
    /\ dq' = Removed(FromPhase(dp[p].op), dp[p].id)
    /\ Go(p, "syncfrom")
    /\ UNCHANGED dh

SyncDirectories(p) ==
    /\ dp[p].pc \in {"syncfrom", "syncto"}
    /\ IF dp[p].pc = "syncfrom"
       THEN dq' = Synced(FromPhase(dp[p].op)) /\ Go(p, "syncto")
       ELSE dq' = Synced(ToPhase(dp[p].op)) /\ Stop(p)
    /\ UNCHANGED dh

\* A process dies between two file operations (a failed sync of a directory
\* ends its call alike), or its remove fails and it tries the whole transition
\* again with the job it holds.
ProcessDies(p) ==
    /\ dp[p].pc # "idle"
    /\ dh.faults < DqFaults
    /\ \/ Stop(p)
       \/ dp[p].pc = "remove" /\ Go(p, "other")
    /\ UNCHANGED dq
    /\ dh' = [dh EXCEPT !.faults = @ + 1]

\* What a path may hold after a power loss.
AfterPowerLoss(file) ==
    {file.holds} \cup file.old \cup (IF file.raw THEN {"torn"} ELSE {})

Unsettled == {f \in PhaseNames \X DqIds : AfterPowerLoss(dq[f[1]][f[2]]) # {dq[f[1]][f[2]].holds}}

PowerLoss ==
    /\ dh.faults < DqFaults
    /\ Unsettled # {}
    /\ \E left \in [PhaseNames \X DqIds -> DqJobs \cup {"absent", "torn"}] :
         /\ \A f \in DOMAIN left : left[f] \in AfterPowerLoss(dq[f[1]][f[2]])
         /\ dq' = [ph \in PhaseNames |-> [i \in DqIds |-> [NoFile EXCEPT !.holds = left[<<ph, i>>]]]]
    /\ dp' = [p \in DqProcs |-> IdleProc]
    /\ dh' = [dh EXCEPT !.faults = @ + 1]

----------------------------------------------------------------------------
DqInit ==
    /\ dq = [ph \in PhaseNames |-> [i \in DqIds |-> NoFile]]
    /\ dp = [p \in DqProcs |-> IdleProc]
    /\ dh = [accepted |-> {}, early |-> {}, faults |-> 0]

DqNext ==
    \/ \E p \in DqProcs :
         \/ \E i \in DqIds, j \in DqJobs, f \in JobDefects \cup {"none"} : Enqueue(p, i, j, f)
         \/ \E op \in {"unknown", "settle"} : TakeFirst(p, op)
         \/ Locate(p) \/ Hold(p)
         \/ CheckOther(p) \/ CheckSource(p) \/ CheckDestination(p)
         \/ CreateNew(p) \/ WriteRecord(p) \/ SyncRecord(p) \/ SyncNew(p)
         \/ WriteFails(p) \/ UndoWrite(p)
         \/ RemoveRecord(p) \/ SyncDirectories(p) \/ ProcessDies(p)
    \/ PowerLoss

DqSpec == DqInit /\ [][DqNext]_dqVars

----------------------------------------------------------------------------
\* A job whose enqueue succeeded is never lost: whatever process dies, whatever
\* write or sync fails and whenever power is lost during its move, some phase
\* holds its whole record.  One thing undoes it: a transition that relies on a
\* record of the same id which its writer has written and not yet synced, as
\* the source (durable.rs:234) or by adopting it as the destination
\* (durable.rs:249).  The source is then removed on that writer's word, and a
\* power loss, or its failed sync, which removes the record, loses the job.
\* Without a fault it survives that as well.
JobIsNeverLost ==
    \A a \in dh.accepted :
      a[1] \notin dh.early \/ dh.faults = 0 =>
        \E ph \in PhaseNames : dq[ph][a[1]].holds = a[2]

\* A job durably further along when a take began is not handed out by it:
\* locate visits the phases in the direction jobs move, so it cannot miss one
\* that moves under it, and a leftover record of an earlier phase is refused as
\* ambiguous instead of being dispatched or quarantined again.
TakenIsCurrent ==
    \A p \in DqProcs :
      dp[p].pc = "hold" => dp[p].past <= PhaseRank(FromPhase(dp[p].op))

\* Quarantine is final, and a durable record is only ever removed behind a
\* durable record of the same job further along, unless a transition of the id
\* relied on a record its writer had not synced: neither a power loss nor the
\* clean-up of a failed write ever takes away what was once durable.
RecordsMoveForward ==
    \A i \in DqIds : \A r \in 1..3 :
      LET file == dq[Phases3[r]][i]
          later == {dq'[Phases3[s]][i] : s \in (r+1)..3}
      IN  IsDurable(file) /\ dq'[Phases3[r]][i].holds # file.holds =>
            /\ r < 3 /\ dq'[Phases3[r]][i].holds = "absent"
            /\ \/ i \in dh'.early
               \/ \E next \in later : IsDurable(next) /\ next.holds = file.holds

DqSafe == JobIsNeverLost /\ TakenIsCurrent
=============================================================================
