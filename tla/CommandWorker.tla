---------------------------- MODULE CommandWorker ----------------------------
(***************************************************************************)
(* The single-run command worker (apps/bullet-runner/src/bin/              *)
(* bullet-command-worker): every invocation resumes the retained claim or  *)
(* acquires one, runs the component child if its run root is empty,        *)
(* retains the receipt, settles the command UNKNOWN and records the        *)
(* settlement, with the worker killed between any two steps or inside a    *)
(* write, and answers of the Kernel lost.                                  *)
(*                                                                         *)
(* One worker per runner incarnation, with a state directory of its own.   *)
(* The Kernel's half of every call is the action of CommandDispatch.  An   *)
(* error ends the process; a supervisor starts it again (pc "off").        *)
(***************************************************************************)
EXTENDS CommandDispatch

CONSTANTS
    MaxCrashes,     \* bound: workers killed
    MaxLost         \* bound: requests or answers lost

VARIABLES
    pc,         \* what the worker does next
    job,        \* the command of the claim it holds in memory
    current,    \* current.json
    retained,   \* state-receipt-retained.json of each claim: its admission time
    material,   \* the claim's run root: "none", "partial", or the receipt in it
    kids,       \* children of each claim: 0 of the live worker, n of the n-th killed
    torn,       \* immutable state files <<command, stage>> a kill cut short
    clock,      \* wall clock of receipt admissions; moves on with every crash
    lost        \* calls lost so far

worker == <<pc, job, current, retained, material, kids, torn, clock, lost>>
vars == <<tables, worker>>

Steps == {"off", "readback", "claim", "reread", "begin", "run", "child", "observe",
          "retain", "publish", "settle", "close"}
Times == 0..MaxCrashes

Stages == {"Claimed", "ReceiptRetained", "SettledUnknown"}
WorkerState == [cmd : Commands, stage : Stages,
                receipt : Receipts \cup {None}]
Child == {"gone", "young", "working"}

ASSUME WorkerConstants ==
    /\ MaxCrashes \in Nat /\ MaxLost \in Nat
    /\ "none" \notin Receipts /\ "partial" \notin Receipts
    /\ None \notin Times /\ None \notin WorkerState

WorkerTypeOK ==
    /\ TypeOK
    /\ pc \in [Owners -> Steps]
    /\ job \in [Owners -> Commands \cup {None}]
    /\ current \in [Owners -> WorkerState \cup {None}]
    /\ retained \in [Commands -> Times \cup {None}]
    /\ material \in [Commands -> Receipts \cup {"none", "partial"}]
    /\ kids \in [Commands -> [Times -> Child]]
    /\ torn \subseteq Commands \X Stages
    /\ clock \in Times /\ lost \in 0..MaxLost

WorkerInit ==
    /\ Init
    /\ pc = [o \in Owners |-> "off"]
    /\ job = [o \in Owners |-> None]
    /\ current = [o \in Owners |-> None]
    /\ retained = [c \in Commands |-> None]
    /\ material = [c \in Commands |-> "none"]
    /\ kids = [c \in Commands |-> [n \in Times |-> "gone"]]
    /\ torn = {} /\ clock = 0 /\ lost = 0
-----------------------------------------------------------------------------
(* The worker process.                                                      *)

Goto(o, step) == pc' = [pc EXCEPT ![o] = step]
Take(o, c, step) == pc' = [pc EXCEPT ![o] = step] /\ job' = [job EXCEPT ![o] = c]
Quit(o) == Take(o, None, "off")
Files == <<current, retained, material, kids, torn, clock>>
Lose == lost < MaxLost /\ lost' = lost + 1

\* run_once: resume an unsettled retained claim, otherwise look for one.  A
\* retained receipt is read back and compared before it is settled.
StartFresh(o) ==
    /\ pc[o] = "off"
    /\ Goto(o, "readback") /\ UNCHANGED job
    /\ UNCHANGED <<tables, Files, lost>>

Start(o) ==
    /\ pc[o] = "off"
    /\ IF current[o] # None /\ current[o].stage # "SettledUnknown"
       THEN Take(o, current[o].cmd,
                 IF current[o].stage = "Claimed" THEN "run" ELSE "settle")
       ELSE Goto(o, "readback") /\ UNCHANGED job
    /\ UNCHANGED <<tables, Files, lost>>

\* readback_command_dispatch, before and after the claim.
ReadBackForgets(o) ==
    /\ pc[o] \in {"readback", "reread"}
    /\ \/ /\ IF pc[o] = "readback" THEN Goto(o, "claim") /\ UNCHANGED job ELSE Quit(o)
          /\ UNCHANGED lost
       \/ Quit(o) /\ Lose
    /\ UNCHANGED <<tables, Files>>

ReadBack(o) ==
    /\ pc[o] \in {"readback", "reread"}
    /\ \/ /\ \E c \in OpenClaims(o) : Take(o, c, "begin")
          /\ UNCHANGED lost
       \/ /\ OpenClaims(o) = {}
          /\ IF pc[o] = "readback" THEN Goto(o, "claim") /\ UNCHANGED job ELSE Quit(o)
          /\ UNCHANGED lost
       \/ Quit(o) /\ Lose
    /\ UNCHANGED <<tables, Files>>

\* claim_command_dispatch: answered, answered with nothing to do, or lost
\* before or after it was served.
Claim(o) ==
    /\ pc[o] = "claim"
    /\ \/ \E c \in Commands : ClaimCommand(o, c) /\ Take(o, c, "begin") /\ UNCHANGED lost
       \/ \E c \in Commands : RefuseUnsupported(o, c) /\ Quit(o) /\ UNCHANGED lost
       \/ Queued = {} /\ Quit(o) /\ UNCHANGED <<tables, lost>>
       \/ /\ \/ \E c \in Commands : ClaimCommand(o, c) \/ RefuseUnsupported(o, c)
             \/ UNCHANGED tables
          /\ Goto(o, "reread") /\ UNCHANGED job
          /\ Lose
    /\ UNCHANGED Files

\* write_immutable refuses a file that a killed worker left half written.
Writable(c, stage) == <<c, stage>> \notin torn

\* StateStore::begin: the claim's files hold no time and are rewritten alike.
Begin(o) ==
    /\ pc[o] = "begin"
    /\ IF Writable(job[o], "Claimed")
       THEN /\ current' = [current EXCEPT ![o] =
                             [cmd |-> job[o], stage |-> "Claimed", receipt |-> None]]
            /\ Goto(o, "run") /\ UNCHANGED job
       ELSE Quit(o) /\ UNCHANGED current
    /\ UNCHANGED <<tables, retained, material, kids, torn, clock, lost>>

UntouchedRoots(c) == c \in Coding \/ material[c] = "none"

\* child_material_exists, and whether what exists is an admissible receipt.
Untouched(c) == material[c] = "none"
Admissible(c) == material[c] \in Receipts

\* admit_or_execute: the child runs only over an empty run root; anything else
\* in it must be an admissible receipt.
Run(o) ==
    /\ pc[o] = "run"
    /\ IF Untouched(job[o])
       THEN kids' = [kids EXCEPT ![job[o]][0] = "young"] /\ Goto(o, "child") /\ UNCHANGED job
       ELSE /\ IF Admissible(job[o]) THEN Goto(o, "retain") /\ UNCHANGED job
               ELSE Quit(o)
            /\ UNCHANGED kids
    /\ UNCHANGED <<tables, current, retained, material, torn, clock, lost>>

\* wait_with_output: the child has gone, or is killed at its deadline.  A
\* demo child must have succeeded and left an admissible receipt; a coding
\* child's output must have been drained within its limits, whatever its exit
\* code.  Otherwise the worker ends and leaves the run root as it is.
Await(o) ==
    /\ pc[o] = "child"
    /\ LET c == job[o] IN
       \/ /\ kids[c][0] = "gone"
          /\ \/ c \in Coding /\ Goto(o, "observe") /\ UNCHANGED job
             \/ c \notin Coding /\ Admissible(c) /\ Goto(o, "retain") /\ UNCHANGED job
             \/ Quit(o)
          /\ UNCHANGED kids
       \/ /\ kids[c][0] # "gone"
          /\ kids' = [kids EXCEPT ![c][0] = "gone"]
          /\ Quit(o)
    /\ UNCHANGED <<tables, current, retained, material, torn, clock, lost>>

\* write_coding_observation: truncate, write and sync the receipt file.  One
\* of the three may fail, and leaves the file empty, half written or whole.
Observe(o) ==
    /\ pc[o] = "observe"
    /\ \/ /\ \E r \in Receipts : material' = [material EXCEPT ![job[o]] = r]
          /\ Goto(o, "retain") /\ UNCHANGED job
       \/ /\ \E m \in Receipts \cup {"none", "partial"} :
               material' = [material EXCEPT ![job[o]] = m]
          /\ Quit(o)
    /\ UNCHANGED <<tables, current, retained, kids, torn, clock, lost>>

\* persist of the retained receipt, first half: write_immutable of a state that
\* holds the time of admission.
RetainLate(o) ==
    /\ pc[o] = "retain"
    /\ retained' = [retained EXCEPT ![job[o]] = clock + 1]
    /\ Goto(o, "publish") /\ UNCHANGED job
    /\ UNCHANGED <<tables, current, material, kids, torn, clock, lost>>

Retain(o) ==
    /\ pc[o] = "retain"
    /\ IF Writable(job[o], "ReceiptRetained") /\ retained[job[o]] \in {None, clock}
       THEN /\ retained' = [retained EXCEPT ![job[o]] = clock]
            /\ Goto(o, "publish") /\ UNCHANGED job
       ELSE Quit(o) /\ UNCHANGED retained
    /\ UNCHANGED <<tables, current, material, kids, torn, clock, lost>>

\* Second half: rename over current.json.
Publish(o) ==
    /\ pc[o] = "publish"
    /\ current' = [current EXCEPT ![o] =
          [cmd |-> job[o], stage |-> "ReceiptRetained", receipt |-> material[job[o]]]]
    /\ Goto(o, "settle")
    /\ UNCHANGED <<tables, job, retained, material, kids, torn, clock, lost>>

\* settle_retained, answered, refused, or lost before or after it was served.
Settle(o) ==
    /\ pc[o] = "settle"
    /\ LET c == job[o]
           r == material[c]
       IN \/ SettleCommand(o, c, r) /\ Goto(o, "close") /\ UNCHANGED <<job, lost>>
          \/ /\ SettlementReplays(o, c, r)
             /\ Goto(o, "close") /\ UNCHANGED <<tables, job, lost>>
          \/ /\ ~Settleable(o, c) /\ ~SettlementReplays(o, c, r)
             /\ Quit(o) /\ UNCHANGED <<tables, lost>>
          \/ (SettleCommand(o, c, r) \/ UNCHANGED tables) /\ Quit(o) /\ Lose
    /\ UNCHANGED Files

\* persist of the settled state.
Close(o) ==
    /\ pc[o] = "close"
    /\ IF Writable(job[o], "SettledUnknown")
       THEN current' = [current EXCEPT ![o].stage = "SettledUnknown"]
       ELSE UNCHANGED current
    /\ Quit(o)
    /\ UNCHANGED <<tables, retained, material, kids, torn, clock, lost>>

\* The state file a worker is in the middle of creating.
Writing(o) ==
    CASE pc[o] = "begin" -> {<<job[o], "Claimed">>}
      [] pc[o] = "retain" /\ retained[job[o]] = None -> {<<job[o], "ReceiptRetained">>}
      [] pc[o] = "close" -> {<<job[o], "SettledUnknown">>}
      [] OTHER -> {}

\* The worker is killed.  A child it was waiting for lives on, the state file
\* it was creating may be cut short, and so may a coding observation.
Crash(o) ==
    /\ pc[o] # "off" /\ clock < MaxCrashes
    /\ clock' = clock + 1
    /\ kids' = IF pc[o] = "child"
               THEN [kids EXCEPT ![job[o]] = [@ EXCEPT ![0] = "gone", ![clock + 1] = kids[job[o]][0]]]
               ELSE kids
    /\ \E files \in {{}, Writing(o)} : torn' = torn \cup files
    /\ \/ UNCHANGED material
       \/ pc[o] = "observe" /\ material' = [material EXCEPT ![job[o]] = "partial"]
    /\ Quit(o)
    /\ UNCHANGED <<tables, current, retained, lost>>
-----------------------------------------------------------------------------
(* The component child.                                                     *)

\* A demo child creates its data and artifact roots, or dies because they exist.
ChildEnters(c, k) ==
    /\ c \notin Coding /\ kids[c][k] = "young"
    /\ IF material[c] = "none"
       THEN /\ material' = [material EXCEPT ![c] = "partial"]
            /\ kids' = [kids EXCEPT ![c][k] = "working"]
       ELSE /\ kids' = [kids EXCEPT ![c][k] = "gone"]
            /\ UNCHANGED material
    /\ UNCHANGED <<tables, pc, job, current, retained, torn, clock, lost>>

\* A demo child may write its receipt and exits.  A coding child, the runner,
\* keeps to its own journal directory: it leaves nothing the worker looks at.
ChildExits(c, k) ==
    /\ kids[c][k] = IF c \in Coding THEN "young" ELSE "working"
    /\ kids' = [kids EXCEPT ![c][k] = "gone"]
    /\ \/ /\ c \notin Coding
          /\ \E r \in Receipts : material' = [material EXCEPT ![c] = r]
       \/ UNCHANGED material
    /\ UNCHANGED <<tables, pc, job, current, retained, torn, clock, lost>>
-----------------------------------------------------------------------------
Work(o) ==
    \/ Start(o) \/ ReadBack(o) \/ Claim(o) \/ Begin(o) \/ Run(o) \/ Await(o) \/ Observe(o)
    \/ Retain(o) \/ Publish(o) \/ Settle(o) \/ Close(o)

WorkerNext ==
    \/ \E c \in Commands : (SubmitCommand(c) \/ IssueNonce(c)) /\ UNCHANGED worker
    \/ MoveAuthority /\ UNCHANGED worker
    \/ \E o \in Owners : Work(o) \/ Crash(o)
    \/ \E c \in Commands, k \in Times : ChildEnters(c, k) \/ ChildExits(c, k)

WorkerSpec == WorkerInit /\ [][WorkerNext]_vars

\* The supervisor starts a worker that is off, a started worker takes its next
\* step, and a child goes on until it ends.  Nothing is assumed of submissions,
\* authority moves, crashes, losses, or of a child being in time.
FairWorkerSpec ==
    /\ WorkerSpec
    /\ \A o \in Owners : WF_vars(Work(o))
    /\ \A c \in Commands, k \in Times : WF_vars(ChildEnters(c, k) \/ ChildExits(c, k))
-----------------------------------------------------------------------------
(* Properties.                                                              *)

Settled(c) == claims[c] # None /\ claims[c].disposition = "UNKNOWN"

\* The outcome the Kernel recorded is the receipt in the claim's run root, and
\* the worker's own records hold the claim: a restart can always resume or
\* repeat the settlement, never present another receipt.
SettledIsRetained ==
    \A c \in Commands : Settled(c) =>
      /\ material[c] = claims[c].completion
      /\ retained[c] # None
      /\ LET state == current[claims[c].owner]
         IN  state # None /\ (state.cmd = c => state.stage # "Claimed"
                                              /\ state.receipt = claims[c].completion)

\* A worker with an unsettled claim on disk works for no other command, the
\* claim on disk is the Kernel's claim of this very incarnation, and while it
\* is on disk the Kernel holds no other open claim for it.
CustodyFollowsClaim ==
    \A o \in Owners :
      LET held == current[o] # None /\ current[o].stage # "SettledUnknown"
      IN  /\ held /\ job[o] # None => job[o] = current[o].cmd
          /\ held => claims[current[o].cmd] # None /\ claims[current[o].cmd].owner = o
          /\ held => OpenClaims(o) \subseteq {current[o].cmd}

\* The worker's files, the Kernel's claims and the run roots tell one story.
CustodyIsKept == SettledIsRetained /\ CustodyFollowsClaim

\* A receipt, once it is in the run root, is never replaced: neither by a
\* restarted worker, which may run a coding child again beside the one a killed
\* worker left, nor by a demo child that outlived a killed worker.
ReceiptIsStable ==
    [][\A c \in Commands : material[c] \in Receipts => material'[c] = material[c]]_vars

\* No later invocation can go on with the claim: its run root holds less than a
\* receipt and nobody is at work on it, a state file is cut short, or its
\* receipt was retained under another time than an invocation would write now.
Wedged(c) ==
    \/ material[c] = "partial" /\ \A k \in Times : kids[c][k] = "gone"
    \/ \E stage \in Stages : <<c, stage>> \in torn
    \/ \E o \in Owners : /\ pc[o] = "off" /\ retained[c] # None
                        /\ current[o] # None /\ current[o].cmd = c /\ current[o].stage = "Claimed"

\* A run of the command's child ends with nothing in the run root.
RunComesToNothing(c) ==
    \E o \in Owners : /\ job[o] = c /\ pc[o] \in {"child", "observe"} /\ pc'[o] = "off"
                     /\ material'[c] = "none"

\* However workers are killed and calls are lost, every claimed command is
\* settled or abandoned by an authority move, or its claim is wedged, or it is
\* run over and over and every run comes to nothing.
ClaimIsConcluded ==
    \A c \in Commands :
      \/ claims[c] # None ~>
           (claims[c] # None /\ claims[c].disposition # "CLAIMED") \/ Wedged(c)
      \/ []<><<RunComesToNothing(c)>>_vars

\* "Restart-safe command claim, component execution, and UNKNOWN settlement"
\* (worker.rs:1): a receipt left by a component is settled, however often the
\* worker is killed, unless an authority move abandons its claim.
ReceiptIsSettled ==
    \A c \in Commands :
      material[c] \in Receipts ~> claims[c] # None /\ claims[c].disposition # "CLAIMED"
=============================================================================
