------------------------- MODULE CommandWorkerProofs -------------------------
(***************************************************************************)
(* Proofs about the command worker, for any number of commands, workers,   *)
(* kills and lost calls: what a worker does is a step of the command queue *)
(* (so the theorems of CommandDispatchProofs hold of it), its files, the   *)
(* Kernel's claims and the run roots agree, and a receipt is never         *)
(* replaced.                                                               *)
(***************************************************************************)
EXTENDS CommandWorker, CommandDispatchProofs

Idle == {"off", "readback", "claim", "reread"}

\* current.json names a claim that is not settled.
Held(o) == current[o] # None /\ current[o].stage # "SettledUnknown"

\* The command has a claim of o, and it is open or abandoned.
Unsettled(c) == claims[c].disposition \in {"CLAIMED", "INVALIDATED"}
Claimed(o, c) == claims[c] # None /\ claims[c].owner = o

\* What the files of a worker say.
FilesInv(o) ==
    /\ current[o] # None =>
         LET c == current[o].cmd IN
         /\ Claimed(o, c)
         /\ current[o].stage = "Claimed" => Unsettled(c)
         /\ current[o].stage # "Claimed" =>
              /\ material[c] \in Receipts /\ current[o].receipt = material[c]
              /\ retained[c] # None
    /\ Held(o) => OpenClaims(o) \subseteq {current[o].cmd}
    /\ \A c, d \in OpenClaims(o) : c = d

\* A coding run whose observation is not yet written.
Unobserved(o) == pc[o] \in {"child", "observe"} /\ job[o] \in Coding

\* Where a worker is, and what it then has in memory and on disk.
PlaceInv(o) ==
    /\ pc[o] \in Idle => job[o] = None
    /\ pc[o] \in (Idle \ {"off"}) \cup {"begin"} => ~Held(o)
    /\ pc[o] \notin Idle => job[o] \in Commands /\ Claimed(o, job[o])
    /\ pc[o] = "begin" => Unsettled(job[o]) /\ OpenClaims(o) \subseteq {job[o]}
    /\ pc[o] \in {"run", "child", "observe", "retain", "publish"} =>
         current[o] # None /\ current[o].cmd = job[o] /\ current[o].stage = "Claimed"
    /\ pc[o] \in {"settle", "close"} =>
         current[o] # None /\ current[o].cmd = job[o] /\ current[o].stage = "ReceiptRetained"
    /\ pc[o] \in {"retain", "publish"} => material[job[o]] \in Receipts
    /\ pc[o] = "publish" => retained[job[o]] # None
    /\ pc[o] = "observe" => job[o] \in Coding
    /\ Unobserved(o) => material[job[o]] \notin Receipts

\* What the Kernel has settled, the worker has on disk.
RootInv(c) ==
    Settled(c) => /\ claims[c].completion = material[c] /\ material[c] \in Receipts
                  /\ retained[c] # None /\ current[claims[c].owner] # None

\* Where children write receipts, one child at a time has the run root.
KidsInv(c) ==
    c \notin Coding =>
      \A k \in Times : kids[c][k] = "working" =>
        /\ material[c] = "partial"
        /\ \A j \in Times : kids[c][j] = "working" => j = k

WInv ==
    /\ WorkerTypeOK
    /\ \A o \in Owners : FilesInv(o) /\ PlaceInv(o)
    /\ \A c \in Commands : RootInv(c) /\ KidsInv(c)
-----------------------------------------------------------------------------
(* Frames: what a step leaves alone.                                        *)

\* Leaves name a prover only where the default does not find the proof.
USE SMTT(20), ZenonT(20)

LEMMA WorkerInitInv == WorkerInit => IInv /\ WInv
<1> SUFFICES ASSUME WorkerInit PROVE IInv /\ WInv
  BY Zenon
<1>1. IInv /\ \A c \in Commands : claims[c] = None
  BY InitInv, Zenon DEF WorkerInit, Init
<1>2. WorkerTypeOK
  BY <1>1, WorkerConstants DEF WorkerInit, WorkerTypeOK, IInv, Steps, Stages, Times, Child
<1>3. \A o \in Owners : FilesInv(o) /\ PlaceInv(o)
  BY <1>1, Zenon DEF WorkerInit, FilesInv, PlaceInv, Unobserved, OpenClaims, Held, Idle
<1>4. \A c \in Commands : RootInv(c) /\ KidsInv(c)
  BY <1>1, Zenon DEF WorkerInit, RootInv, KidsInv, Settled
<1> QED BY <1>1, <1>2, <1>3, <1>4, Zenon DEF WInv

\* A step of somebody else: o's process and its current.json stay.
Kept(o) == pc'[o] = pc[o] /\ job'[o] = job[o] /\ current'[o] = current[o]

\* Receipts stay where they are, on disk and in the run roots.
RootsKept ==
    \A c \in Commands :
      /\ material[c] \in Receipts => material'[c] = material[c]
      /\ retained[c] # None => retained'[c] # None

\* The claims of o stay as they are, and it gets no other.
ClaimsKept(o) ==
    \A c \in Commands : /\ Claimed(o, c) => claims'[c] = claims[c]
                        /\ Claimed(o, c)' => Claimed(o, c)

LEMMA OpenClaimsKept ==
  ASSUME NEW o \in Owners, ClaimsKept(o)
  PROVE  OpenClaims(o)' = OpenClaims(o)
<1> QED BY Zenon DEF ClaimsKept, Claimed, OpenClaims

\* The types of a worker's memory and files.
LEMMA WorkerTypes ==
  ASSUME WInv, NEW o \in Owners
  PROVE  /\ pc[o] \in Steps
         /\ job[o] \in Commands \cup {None}
         /\ current[o] # None => current[o] \in WorkerState /\ current[o].cmd \in Commands
<1> QED BY Zenon DEF WInv, WorkerTypeOK, WorkerState

LEMMA Bystander ==
  ASSUME WInv, NEW o \in Owners, Kept(o), RootsKept, ClaimsKept(o),
         Unobserved(o) => material'[job[o]] \notin Receipts
  PROVE  FilesInv(o)' /\ PlaceInv(o)'
<1>1. /\ FilesInv(o) /\ PlaceInv(o) /\ pc[o] \in Steps
      /\ current[o] # None => current[o].cmd \in Commands
  BY WorkerTypes, Zenon DEF WInv
<1>2. OpenClaims(o)' = OpenClaims(o)
  BY OpenClaimsKept, Zenon
<1>3. \A c \in Commands : Claimed(o, c) => Claimed(o, c)' /\ (Unsettled(c) => Unsettled(c)')
  BY Zenon DEF ClaimsKept, Claimed, Unsettled
<1>4. FilesInv(o)'
  BY <1>1, <1>2, <1>3, Zenon DEF FilesInv, Kept, RootsKept, Held
<1>5. PlaceInv(o)'
  BY <1>1, <1>2, <1>3, Zenon DEF PlaceInv, Unobserved, Kept, RootsKept, Held, Steps, Idle
<1> QED BY <1>4, <1>5, Zenon

\* A step of o alone, on its own files: the claims and the run roots stay.
LEMMA LocalStep ==
  ASSUME WInv, NEW o \in Owners, UNCHANGED <<claims, material>>,
         \A c \in Commands : retained[c] # None => retained'[c] # None,
         \A u \in Owners \ {o} : Kept(u),
         current[o] # None => current'[o] # None,
         \A c \in Commands : KidsInv(c)',
         WorkerTypeOK', FilesInv(o)', PlaceInv(o)'
  PROVE  WInv'
<1>1. RootsKept /\ \A u \in Owners : ClaimsKept(u)
  BY Zenon DEF RootsKept, ClaimsKept, Claimed
<1>2. \A u \in Owners \ {o} : FilesInv(u)' /\ PlaceInv(u)'
  <2> SUFFICES ASSUME NEW u \in Owners \ {o} PROVE FilesInv(u)' /\ PlaceInv(u)'
    BY Zenon
  <2>1. Unobserved(u) => material'[job[u]] \notin Receipts
    BY Zenon DEF WInv, PlaceInv, Unobserved
  <2> QED BY <1>1, <2>1, Bystander, Zenon
<1>3. \A c \in Commands : RootInv(c)'
  <2> SUFFICES ASSUME NEW c \in Commands, Settled(c)' PROVE RootInv(c)'
    BY Zenon DEF RootInv
  <2>1. Settled(c) /\ RootInv(c) /\ claims[c].owner \in Owners
    BY Zenon DEF WInv, Settled, WorkerTypeOK, TypeOK, ClaimRow
  <2>2. \A u \in Owners : current[u] # None => current'[u] # None
    BY Zenon DEF Kept
  <2> QED BY <2>1, <2>2, Zenon DEF RootInv
<1> QED BY <1>2, <1>3, Zenon DEF WInv

LEMMA KidsKept ==
  ASSUME WInv, UNCHANGED <<kids, material>>
  PROVE  \A c \in Commands : KidsInv(c)'
<1> QED BY Zenon DEF WInv, KidsInv

\* FilesInv reads the claims, the run roots and o's files, and nothing else.
LEMMA FilesKept ==
  ASSUME WInv, NEW o \in Owners, UNCHANGED <<claims, material, retained>>,
         current'[o] = current[o]
  PROVE  FilesInv(o)' /\ (Held(o)' <=> Held(o)) /\ OpenClaims(o)' = OpenClaims(o)
<1> QED BY DEF WInv, FilesInv, Held, OpenClaims, Claimed, Unsettled
-----------------------------------------------------------------------------
(* The steps of a worker that leave the tables and the run roots alone.     *)

LEMMA StartStep ==
  ASSUME IInv, WInv, IInv', NEW o \in Owners, Start(o)
  PROVE  WInv'
<1>1. UNCHANGED <<claims, material, retained, kids, current, torn, clock, lost>>
  BY Zenon DEF Start, tables, Files
<1>2. /\ \A u \in Owners \ {o} : Kept(u)
      /\ FilesInv(o)' /\ (Held(o)' <=> Held(o))
      /\ \A c \in Commands : KidsInv(c)'
  <2>1. \A u \in Owners \ {o} : pc'[u] = pc[u] /\ job'[u] = job[u]
    BY Zenon DEF Start, Take, Goto, WInv, WorkerTypeOK
  <2> QED BY <1>1, <2>1, FilesKept, KidsKept, Zenon DEF Kept
<1>3. FilesInv(o) /\ PlaceInv(o) /\ pc[o] = "off" /\ job[o] = None
  BY Zenon DEF Start, WInv, PlaceInv, Unobserved, Idle
<1>4. CASE Held(o)
  <2>1. /\ pc'[o] = IF current[o].stage = "Claimed" THEN "run" ELSE "settle"
        /\ job'[o] = current[o].cmd
        /\ pc' \in [Owners -> Steps] /\ job' \in [Owners -> Commands \cup {None}]
        /\ current[o] \in WorkerState
    BY <1>4, WorkerTypes, ZenonT(40) DEF Start, Take, Held, WInv, WorkerTypeOK, Steps
  <2>2. current[o].stage \in {"Claimed", "ReceiptRetained"}
    BY <1>4, <2>1, Zenon DEF Held, WorkerState, Stages
  <2>3. PlaceInv(o)'
    BY <1>1, <1>3, <1>4, <2>1, <2>2, WorkerTypes, Zenon
       DEF PlaceInv, Unobserved, FilesInv, Idle, Held, Claimed, Unsettled
  <2>4. WorkerTypeOK'
    BY <1>1, <2>1, Zenon DEF WInv, WorkerTypeOK, IInv
  <2> QED BY <1>1, <1>2, <2>3, <2>4, LocalStep, Zenon
<1>5. CASE ~Held(o)
  <2>1. /\ pc'[o] = "readback" /\ job'[o] = None
        /\ pc' \in [Owners -> Steps] /\ job' \in [Owners -> Commands \cup {None}]
    BY <1>3, <1>5, Zenon DEF Start, Goto, Held, WInv, WorkerTypeOK, Steps
  <2>2. PlaceInv(o)'
    BY <1>2, <1>5, <2>1, Zenon DEF PlaceInv, Unobserved, Idle
  <2>3. WorkerTypeOK'
    BY <1>1, <2>1, Zenon DEF WInv, WorkerTypeOK, IInv
  <2> QED BY <1>1, <1>2, <2>2, <2>3, LocalStep, Zenon
<1> QED BY <1>4, <1>5, Zenon

\* A worker that stops keeps its files.
LEMMA QuitStep ==
  ASSUME IInv, WInv, IInv', NEW o \in Owners, Quit(o),
         UNCHANGED <<claims, material, retained, current>>,
         torn' \subseteq Commands \X Stages, clock' \in Times, lost' \in 0..MaxLost,
         kids' \in [Commands -> [Times -> Child]],
         \A c \in Commands : KidsInv(c)'
  PROVE  WInv'
<1>1. /\ \A u \in Owners \ {o} : Kept(u)
      /\ FilesInv(o)' /\ (Held(o)' <=> Held(o))
  <2>1. \A u \in Owners \ {o} : pc'[u] = pc[u] /\ job'[u] = job[u]
    BY Zenon DEF Quit, Take, WInv, WorkerTypeOK
  <2> QED BY <2>1, FilesKept, Zenon DEF Kept
<1>2. /\ pc'[o] = "off" /\ job'[o] = None
      /\ pc' \in [Owners -> Steps] /\ job' \in [Owners -> Commands \cup {None}]
  BY Zenon DEF Quit, Take, WInv, WorkerTypeOK, Steps
<1>3. PlaceInv(o)'
  BY <1>2, Zenon DEF PlaceInv, Unobserved, Idle
<1>4. WorkerTypeOK'
  BY <1>2, Zenon DEF WInv, WorkerTypeOK, IInv
<1> QED BY <1>1, <1>3, <1>4, LocalStep, Zenon

LEMMA ReadBackStep ==
  ASSUME IInv, WInv, IInv', NEW o \in Owners, ReadBack(o)
  PROVE  WInv'
<1>1. UNCHANGED <<claims, material, retained, kids, current, torn, clock>>
  BY Zenon DEF ReadBack, tables, Files
<1>2. /\ FilesInv(o)' /\ (Held(o)' <=> Held(o)) /\ OpenClaims(o)' = OpenClaims(o)
      /\ \A c \in Commands : KidsInv(c)'
  BY <1>1, FilesKept, KidsKept, Zenon
<1>3. /\ FilesInv(o) /\ PlaceInv(o) /\ pc[o] \in {"readback", "reread"} /\ job[o] = None
      /\ ~Held(o) /\ lost' \in 0..MaxLost
  BY WorkerConstants DEF ReadBack, WInv, PlaceInv, Unobserved, Idle, Lose, WorkerTypeOK
<1>4. CASE \E c \in OpenClaims(o) : Take(o, c, "begin")
  <2>1. PICK c \in OpenClaims(o) : Take(o, c, "begin")
    BY <1>4, Zenon
  <2>2. c \in Commands /\ Claimed(o, c) /\ Unsettled(c)
    BY Zenon DEF OpenClaims, Claimed, Unsettled
  <2>3. /\ pc'[o] = "begin" /\ job'[o] = c
        /\ pc' \in [Owners -> Steps] /\ job' \in [Owners -> Commands \cup {None}]
        /\ \A u \in Owners \ {o} : Kept(u)
    BY <1>1, <2>1, <2>2, Zenon DEF Take, WInv, WorkerTypeOK, Steps, Kept
  <2>4. OpenClaims(o) \subseteq {c}
    BY <1>3, Zenon DEF FilesInv
  <2>5. PlaceInv(o)'
    BY <1>1, <1>2, <1>3, <2>2, <2>3, <2>4, Zenon DEF PlaceInv, Unobserved, Idle, Claimed, Unsettled
  <2>6. WorkerTypeOK'
    BY <1>1, <1>3, <2>3, Zenon DEF WInv, WorkerTypeOK, IInv
  <2> QED BY <1>1, <1>2, <2>3, <2>5, <2>6, LocalStep, Zenon
<1>5. CASE Goto(o, "claim") /\ UNCHANGED job
  <2>1. /\ pc'[o] = "claim" /\ job'[o] = None
        /\ pc' \in [Owners -> Steps] /\ job' \in [Owners -> Commands \cup {None}]
        /\ \A u \in Owners \ {o} : Kept(u)
    BY <1>1, <1>3, <1>5, Zenon DEF Goto, WInv, WorkerTypeOK, Steps, Kept
  <2>2. PlaceInv(o)'
    BY <1>2, <1>3, <2>1, Zenon DEF PlaceInv, Unobserved, Idle
  <2>3. WorkerTypeOK'
    BY <1>1, <1>3, <2>1, Zenon DEF WInv, WorkerTypeOK, IInv
  <2> QED BY <1>1, <1>2, <2>1, <2>2, <2>3, LocalStep, Zenon
<1>6. CASE Quit(o)
  BY <1>1, <1>2, <1>3, <1>6, QuitStep, Zenon DEF WInv, WorkerTypeOK
<1> QED BY <1>4, <1>5, <1>6, Zenon DEF ReadBack

LEMMA BeginStep ==
  ASSUME IInv, WInv, IInv', NEW o \in Owners, Begin(o)
  PROVE  WInv'
<1> SUFFICES ASSUME Writable(job[o], "Claimed") PROVE WInv'
  <2> SUFFICES ASSUME ~Writable(job[o], "Claimed") PROVE WInv'
    BY Zenon
  <2>1. Quit(o) /\ UNCHANGED <<claims, material, retained, kids, current, torn, clock, lost>>
    BY Zenon DEF Begin, tables
  <2> QED BY <2>1, KidsKept, QuitStep, Zenon DEF WInv, WorkerTypeOK
<1> DEFINE file == [cmd |-> job[o], stage |-> "Claimed", receipt |-> None]
<1>1. /\ UNCHANGED <<claims, material, retained, kids, torn, clock, lost, job>>
      /\ current' = [current EXCEPT ![o] = file]
      /\ pc' = [pc EXCEPT ![o] = "run"]
  BY Zenon DEF Begin, tables, Goto
<1>2. /\ FilesInv(o) /\ PlaceInv(o) /\ pc[o] = "begin"
      /\ job[o] \in Commands /\ Claimed(o, job[o]) /\ Unsettled(job[o])
      /\ OpenClaims(o) \subseteq {job[o]}
  BY Zenon DEF Begin, WInv, PlaceInv, Unobserved, Idle
<1>3. /\ file \in WorkerState /\ file.cmd = job[o] /\ file.stage = "Claimed"
  BY <1>2, Zenon DEF WorkerState, Stages
<1>4. file # None
  BY <1>3, WorkerConstants, Zenon
<1> HIDE DEF file
<1>5. /\ pc' \in [Owners -> Steps] /\ pc'[o] = "run" /\ current'[o] = file
      /\ current' \in [Owners -> WorkerState \cup {None}]
      /\ \A u \in Owners \ {o} : Kept(u)
  BY <1>1, <1>3, Zenon DEF WInv, WorkerTypeOK, Steps, Kept
<1>6. OpenClaims(o)' = OpenClaims(o)
  BY <1>1, Zenon DEF OpenClaims
<1>7. FilesInv(o)'
  BY <1>1, <1>2, <1>3, <1>4, <1>5, <1>6 DEF FilesInv, Held, Claimed, Unsettled
<1>8. PlaceInv(o)'
  BY <1>1, <1>2, <1>3, <1>4, <1>5, Zenon DEF PlaceInv, Unobserved, Idle, Claimed
<1>9. WorkerTypeOK'
  BY <1>1, <1>5, Zenon DEF WInv, WorkerTypeOK, IInv
<1> QED BY <1>1, <1>4, <1>5, <1>7, <1>8, <1>9, KidsKept, LocalStep, Zenon

\* No child starts to work.
LEMMA KidsShrink ==
  ASSUME WInv, UNCHANGED material,
         \A c \in Commands, k \in Times : kids'[c][k] = "working" => kids[c][k] = "working"
  PROVE  \A c \in Commands : KidsInv(c)'
<1> QED BY DEF WInv, KidsInv

\* A worker that goes on to another step with the same command and files.
LEMMA GotoStep ==
  ASSUME IInv, WInv, IInv', NEW o \in Owners, NEW step \in Steps, Goto(o, step),
         UNCHANGED <<claims, material, current, job, torn, clock, lost>>,
         retained' \in [Commands -> Times \cup {None}],
         \A c \in Commands : retained[c] # None => retained'[c] # None,
         kids' \in [Commands -> [Times -> Child]], \A c \in Commands : KidsInv(c)',
         pc'[o] = step => PlaceInv(o)'
  PROVE  WInv'
<1>1. /\ pc'[o] = step /\ pc' \in [Owners -> Steps]
      /\ \A u \in Owners \ {o} : Kept(u)
  BY Zenon DEF Goto, WInv, WorkerTypeOK, Kept
<1>2. FilesInv(o)'
  <2>1. FilesInv(o) /\ OpenClaims(o)' = OpenClaims(o)
        /\ (current[o] # None => current[o].cmd \in Commands)
    BY WorkerTypes, Zenon DEF WInv, OpenClaims
  <2> QED BY <2>1, Zenon DEF FilesInv, Held, Claimed, Unsettled
<1>3. WorkerTypeOK'
  BY <1>1, Zenon DEF WInv, WorkerTypeOK, IInv
<1> QED BY <1>1, <1>2, <1>3, LocalStep, Zenon

LEMMA RunStep ==
  ASSUME IInv, WInv, IInv', NEW o \in Owners, Run(o)
  PROVE  WInv'
<1>1. /\ UNCHANGED <<claims, material, retained, current, torn, clock, lost>>
      /\ clock \in Times /\ lost \in 0..MaxLost /\ torn \subseteq Commands \X Stages
      /\ kids \in [Commands -> [Times -> Child]]
      /\ retained \in [Commands -> Times \cup {None}]
  BY Zenon DEF Run, tables, WInv, WorkerTypeOK
<1>2. /\ PlaceInv(o) /\ pc[o] = "run" /\ job[o] \in Commands /\ Claimed(o, job[o])
      /\ current[o] # None /\ current[o].cmd = job[o] /\ current[o].stage = "Claimed"
  BY Zenon DEF Run, WInv, PlaceInv, Unobserved, Idle
<1>3. CASE Untouched(job[o])
  <2>1. /\ kids' = [kids EXCEPT ![job[o]][0] = "young"] /\ Goto(o, "child") /\ UNCHANGED job
        /\ material[job[o]] = "none"
    BY <1>3, Zenon DEF Run, Untouched
  <2>2. 0 \in Times
    BY WorkerConstants DEF Times
  <2>3. /\ kids' \in [Commands -> [Times -> Child]]
        /\ \A c \in Commands, k \in Times : kids'[c][k] = "working" => kids[c][k] = "working"
    BY <1>1, <1>2, <2>1, <2>2, Zenon DEF Child
  <2>4. pc'[o] = "child" => PlaceInv(o)'
    BY <1>1, <1>2, <2>1, WorkerConstants, Zenon DEF PlaceInv, Unobserved, Idle, Claimed
  <2>5. "child" \in Steps
    BY Zenon DEF Steps
  <2> QED BY <1>1, <2>1, <2>3, <2>4, <2>5, KidsShrink, GotoStep, Zenon
<1>4. CASE ~Untouched(job[o]) /\ Admissible(job[o])
  <2>1. UNCHANGED kids /\ Goto(o, "retain") /\ UNCHANGED job /\ material[job[o]] \in Receipts
    BY <1>4, Zenon DEF Run, Admissible
  <2>2. pc'[o] = "retain" => PlaceInv(o)'
    BY <1>1, <1>2, <2>1, Zenon DEF PlaceInv, Unobserved, Idle, Claimed
  <2>3. "retain" \in Steps
    BY Zenon DEF Steps
  <2> QED BY <1>1, <2>1, <2>2, <2>3, KidsKept, GotoStep, Zenon
<1>5. CASE ~Untouched(job[o]) /\ ~Admissible(job[o])
  <2>1. UNCHANGED kids /\ Quit(o)
    BY <1>5, Zenon DEF Run
  <2> QED BY <1>1, <2>1, KidsKept, QuitStep, Zenon
<1> QED BY <1>3, <1>4, <1>5, Zenon

LEMMA RetainStep ==
  ASSUME IInv, WInv, IInv', NEW o \in Owners, Retain(o)
  PROVE  WInv'
<1>1. /\ UNCHANGED <<claims, material, kids, current, torn, clock, lost>>
      /\ clock \in Times /\ lost \in 0..MaxLost /\ torn \subseteq Commands \X Stages
      /\ kids \in [Commands -> [Times -> Child]]
      /\ retained \in [Commands -> Times \cup {None}]
  BY Zenon DEF Retain, tables, WInv, WorkerTypeOK
<1>2. /\ PlaceInv(o) /\ pc[o] = "retain" /\ job[o] \in Commands /\ Claimed(o, job[o])
      /\ current[o] # None /\ current[o].cmd = job[o] /\ current[o].stage = "Claimed"
      /\ material[job[o]] \in Receipts
  BY Zenon DEF Retain, WInv, PlaceInv, Unobserved, Idle
<1>3. CASE Writable(job[o], "ReceiptRetained") /\ retained[job[o]] \in {None, clock}
  <2>1. /\ retained' = [retained EXCEPT ![job[o]] = clock]
        /\ Goto(o, "publish") /\ UNCHANGED job
    BY <1>3, Zenon DEF Retain
  <2>2. clock # None
    BY <1>1, WorkerConstants, Zenon
  <2>3. /\ retained' \in [Commands -> Times \cup {None}] /\ retained'[job[o]] # None
        /\ \A c \in Commands : retained[c] # None => retained'[c] # None
    BY <1>1, <1>2, <2>1, <2>2, Zenon
  <2>4. pc'[o] = "publish" => PlaceInv(o)'
    BY <1>1, <1>2, <2>1, <2>3, Zenon DEF PlaceInv, Unobserved, Idle, Claimed
  <2>5. "publish" \in Steps
    BY Zenon DEF Steps
  <2> QED BY <1>1, <2>1, <2>3, <2>4, <2>5, KidsKept, GotoStep, Zenon
<1>4. CASE ~(Writable(job[o], "ReceiptRetained") /\ retained[job[o]] \in {None, clock})
  <2>1. Quit(o) /\ UNCHANGED retained
    BY <1>4, Zenon DEF Retain
  <2> QED BY <1>1, <2>1, KidsKept, QuitStep, Zenon
<1> QED BY <1>3, <1>4, Zenon

LEMMA PublishStep ==
  ASSUME IInv, WInv, IInv', NEW o \in Owners, Publish(o)
  PROVE  WInv'
<1> DEFINE file == [cmd |-> job[o], stage |-> "ReceiptRetained", receipt |-> material[job[o]]]
<1>1. /\ UNCHANGED <<claims, material, retained, kids, torn, clock, lost, job>>
      /\ current' = [current EXCEPT ![o] = file]
      /\ pc' = [pc EXCEPT ![o] = "settle"]
  BY Zenon DEF Publish, tables, Goto
<1>2. /\ FilesInv(o) /\ PlaceInv(o) /\ pc[o] = "publish"
      /\ job[o] \in Commands /\ Claimed(o, job[o])
      /\ current[o] # None /\ current[o].cmd = job[o] /\ current[o].stage = "Claimed"
      /\ material[job[o]] \in Receipts /\ retained[job[o]] # None
  BY Zenon DEF Publish, WInv, PlaceInv, Unobserved, Idle
<1>3. OpenClaims(o) \subseteq {job[o]}
  BY <1>2, Zenon DEF FilesInv, Held
<1>4. /\ file \in WorkerState /\ file.cmd = job[o] /\ file.stage = "ReceiptRetained"
      /\ file.receipt = material[job[o]]
  BY <1>2, Zenon DEF WorkerState, Stages
<1>5. file # None
  BY <1>4, WorkerConstants, Zenon
<1> HIDE DEF file
<1>6. /\ pc' \in [Owners -> Steps] /\ pc'[o] = "settle" /\ current'[o] = file
      /\ current' \in [Owners -> WorkerState \cup {None}]
      /\ \A u \in Owners \ {o} : Kept(u)
  BY <1>1, <1>4, Zenon DEF WInv, WorkerTypeOK, Steps, Kept
<1>7. OpenClaims(o)' = OpenClaims(o)
  BY <1>1, Zenon DEF OpenClaims
<1>8. FilesInv(o)'
  <2>1. /\ current'[o].cmd = job[o] /\ current'[o].stage # "Claimed"
        /\ current'[o].receipt = material'[job[o]] /\ material'[job[o]] \in Receipts
        /\ retained'[job[o]] # None
    BY <1>1, <1>2, <1>4, <1>6, Zenon
  <2>2. claims'[job[o]] # None /\ claims'[job[o]].owner = o
    BY <1>1, <1>2, Zenon DEF Claimed
  <2>3. OpenClaims(o)' \subseteq {job[o]}
    BY <1>3, <1>7, Zenon
  <2> QED BY <2>1, <2>2, <2>3, Zenon DEF FilesInv, Claimed
<1>9. PlaceInv(o)'
  BY <1>1, <1>2, <1>4, <1>5, <1>6, Zenon DEF PlaceInv, Unobserved, Idle, Claimed
<1>10. WorkerTypeOK'
  BY <1>1, <1>6, Zenon DEF WInv, WorkerTypeOK, IInv
<1> QED BY <1>1, <1>5, <1>6, <1>8, <1>9, <1>10, KidsKept, LocalStep, Zenon

LEMMA CloseStep ==
  ASSUME IInv, WInv, IInv', NEW o \in Owners, Close(o)
  PROVE  WInv'
<1> SUFFICES ASSUME Writable(job[o], "SettledUnknown") PROVE WInv'
  <2> SUFFICES ASSUME ~Writable(job[o], "SettledUnknown") PROVE WInv'
    BY Zenon
  <2>1. Quit(o) /\ UNCHANGED <<claims, material, retained, kids, current, torn, clock, lost>>
    BY Zenon DEF Close, tables
  <2> QED BY <2>1, KidsKept, QuitStep, Zenon DEF WInv, WorkerTypeOK
<1> DEFINE file == [current[o] EXCEPT !.stage = "SettledUnknown"]
<1>1. /\ UNCHANGED <<claims, material, retained, kids, torn, clock, lost>>
      /\ current' = [current EXCEPT ![o] = file]
      /\ pc' = [pc EXCEPT ![o] = "off"] /\ job' = [job EXCEPT ![o] = None]
  BY Zenon DEF Close, tables, Quit, Take
<1>2. /\ FilesInv(o) /\ PlaceInv(o) /\ pc[o] = "close"
      /\ current[o] # None /\ current[o].cmd = job[o] /\ current[o].stage = "ReceiptRetained"
      /\ current[o] \in WorkerState
  BY WorkerTypes, Zenon DEF Close, WInv, PlaceInv, Unobserved, Idle
<1>3. /\ file \in WorkerState /\ file.cmd = current[o].cmd /\ file.stage = "SettledUnknown"
      /\ file.receipt = current[o].receipt
  BY <1>2, Zenon DEF WorkerState, Stages
<1>4. file # None
  BY <1>3, WorkerConstants, Zenon
<1> HIDE DEF file
<1>5. /\ pc' \in [Owners -> Steps] /\ pc'[o] = "off" /\ current'[o] = file
      /\ job' \in [Owners -> Commands \cup {None}] /\ job'[o] = None
      /\ current' \in [Owners -> WorkerState \cup {None}]
      /\ \A u \in Owners \ {o} : Kept(u)
  BY <1>1, <1>3, Zenon DEF WInv, WorkerTypeOK, Steps, Kept
<1>6. OpenClaims(o)' = OpenClaims(o)
  BY <1>1, Zenon DEF OpenClaims
<1>7. FilesInv(o)'
  BY <1>1, <1>2, <1>3, <1>5, <1>6 DEF FilesInv, Held, Claimed
<1>8. PlaceInv(o)'
  BY <1>5, Zenon DEF PlaceInv, Unobserved, Idle
<1>9. WorkerTypeOK'
  BY <1>1, <1>5, Zenon DEF WInv, WorkerTypeOK, IInv
<1> QED BY <1>1, <1>4, <1>5, <1>7, <1>8, <1>9, KidsKept, LocalStep, Zenon

LEMMA AwaitStep ==
  ASSUME IInv, WInv, IInv', NEW o \in Owners, Await(o)
  PROVE  WInv'
<1> DEFINE c == job[o]
<1>1. /\ UNCHANGED <<claims, material, retained, current, torn, clock, lost>>
      /\ clock \in Times /\ lost \in 0..MaxLost /\ torn \subseteq Commands \X Stages
      /\ kids \in [Commands -> [Times -> Child]]
      /\ retained \in [Commands -> Times \cup {None}]
  BY Zenon DEF Await, tables, WInv, WorkerTypeOK
<1>2. /\ PlaceInv(o) /\ pc[o] = "child" /\ c \in Commands /\ Claimed(o, c)
      /\ current[o] # None /\ current[o].cmd = c /\ current[o].stage = "Claimed"
      /\ c \in Coding => material[c] \notin Receipts
  BY Zenon DEF Await, WInv, PlaceInv, Unobserved, Idle
<1>3. ASSUME c \in Coding, Goto(o, "observe"), UNCHANGED <<job, kids>>
      PROVE  WInv'
  <2>1. pc'[o] = "observe" => PlaceInv(o)'
    BY <1>1, <1>2, <1>3, Zenon DEF PlaceInv, Unobserved, Idle, Claimed
  <2>2. "observe" \in Steps
    BY Zenon DEF Steps
  <2> QED BY <1>1, <1>3, <2>1, <2>2, KidsKept, GotoStep, Zenon
<1>4. ASSUME Admissible(c), Goto(o, "retain"), UNCHANGED <<job, kids>>
      PROVE  WInv'
  <2>1. pc'[o] = "retain" => PlaceInv(o)'
    BY <1>1, <1>2, <1>4, Zenon DEF PlaceInv, Unobserved, Idle, Claimed, Admissible
  <2>2. "retain" \in Steps
    BY Zenon DEF Steps
  <2> QED BY <1>1, <1>4, <2>1, <2>2, KidsKept, GotoStep, Zenon
<1>5. ASSUME Quit(o), UNCHANGED kids
      PROVE  WInv'
  BY <1>1, <1>5, KidsKept, QuitStep, Zenon
<1>6. ASSUME kids' = [kids EXCEPT ![c][0] = "gone"], Quit(o)
      PROVE  WInv'
  <2>1. 0 \in Times
    BY WorkerConstants DEF Times
  <2>2. /\ kids' \in [Commands -> [Times -> Child]]
        /\ \A d \in Commands, k \in Times : kids'[d][k] = "working" => kids[d][k] = "working"
    BY <1>1, <1>2, <1>6, <2>1, Zenon DEF Child
  <2> QED BY <1>1, <1>6, <2>2, KidsShrink, QuitStep, Zenon
<1> HIDE DEF c
<1> QED BY <1>3, <1>4, <1>5, <1>6, Zenon DEF Await, c

\* A worker writes a coding observation, as a whole or in part, over nothing.
LEMMA ObservedStep ==
  ASSUME IInv, WInv, IInv', NEW o \in Owners, NEW c \in Commands, c = job[o], pc[o] = "observe",
         NEW m \in Receipts \cup {"none", "partial"}, material' = [material EXCEPT ![c] = m],
         \/ Goto(o, "retain") /\ UNCHANGED job /\ m \in Receipts
         \/ Quit(o),
         UNCHANGED <<claims, retained, current, kids, torn, lost>>, clock' \in Times
  PROVE  WInv'
<1>1. /\ FilesInv(o) /\ PlaceInv(o) /\ Claimed(o, c) /\ c \in Coding
      /\ current[o] # None /\ current[o].cmd = c /\ current[o].stage = "Claimed"
      /\ material[c] \notin Receipts
  BY Zenon DEF WInv, PlaceInv, Unobserved, Idle
<1>2. /\ \/ pc'[o] = "retain" /\ job'[o] = c /\ m \in Receipts
         \/ pc'[o] = "off" /\ job'[o] = None
      /\ pc' \in [Owners -> Steps] /\ job' \in [Owners -> Commands \cup {None}]
      /\ \A u \in Owners \ {o} : Kept(u)
      /\ material' \in [Commands -> Receipts \cup {"none", "partial"}]
      /\ material'[c] = m /\ \A d \in Commands \ {c} : material'[d] = material[d]
  BY <1>1, Zenon DEF Goto, Quit, Take, WInv, WorkerTypeOK, Kept, Steps
<1>3. RootsKept /\ \A u \in Owners : ClaimsKept(u)
  BY <1>1, <1>2, Zenon DEF RootsKept, ClaimsKept, Claimed
<1>4. \A u \in Owners \ {o} : FilesInv(u)' /\ PlaceInv(u)'
  <2> SUFFICES ASSUME NEW u \in Owners \ {o} PROVE FilesInv(u)' /\ PlaceInv(u)'
    BY Zenon
  <2>1. Unobserved(u) => job[u] \in Commands /\ Claimed(u, job[u])
    <3>1. PlaceInv(u) /\ (Unobserved(u) => pc[u] \notin Idle)
      BY Zenon DEF WInv, Unobserved, Idle
    <3> QED BY <3>1, Zenon DEF PlaceInv
  <2>2. Unobserved(u) => material'[job[u]] \notin Receipts
    <3>1. Unobserved(u) => job[u] # c /\ material[job[u]] \notin Receipts
      BY <1>1, <2>1, ZenonT(40) DEF WInv, PlaceInv, Claimed
    <3> QED BY <1>2, <2>1, <3>1, Zenon
  <2> QED BY <1>2, <1>3, <2>2, Bystander, Zenon
<1>5. FilesInv(o)'
  <2>1. OpenClaims(o)' = OpenClaims(o)
    BY Zenon DEF OpenClaims
  <2> QED BY <1>1, <2>1, Zenon DEF FilesInv, Held, Claimed, Unsettled
<1>6. PlaceInv(o)'
  BY <1>1, <1>2, Zenon DEF PlaceInv, Unobserved, Idle, Claimed
<1>7. \A d \in Commands : RootInv(d)'
  <2> SUFFICES ASSUME NEW d \in Commands, Settled(d)' PROVE RootInv(d)'
    BY Zenon DEF RootInv
  <2>1. Settled(d) /\ RootInv(d)
    BY Zenon DEF WInv, Settled
  <2>2. d # c
    BY <1>1, <2>1, Zenon DEF RootInv
  <2> QED BY <1>2, <2>1, <2>2, Zenon DEF RootInv
<1>8. \A d \in Commands : KidsInv(d)'
  BY <1>1, <1>2 DEF WInv, KidsInv
<1>9. WorkerTypeOK'
  BY <1>2, Zenon DEF WInv, WorkerTypeOK, IInv
<1> QED BY <1>4, <1>5, <1>6, <1>7, <1>8, <1>9, Zenon DEF WInv

LEMMA ObserveStep ==
  ASSUME IInv, WInv, IInv', NEW o \in Owners, Observe(o)
  PROVE  WInv'
<1>1. /\ UNCHANGED <<claims, retained, current, kids, torn, lost>> /\ clock' \in Times
      /\ pc[o] = "observe" /\ job[o] \in Commands
  BY Zenon DEF Observe, tables, WInv, WorkerTypeOK, PlaceInv, Idle
<1>2. PICK m \in Receipts \cup {"none", "partial"} :
        /\ material' = [material EXCEPT ![job[o]] = m]
        /\ \/ Goto(o, "retain") /\ UNCHANGED job /\ m \in Receipts
           \/ Quit(o)
  BY Zenon DEF Observe
<1> QED BY <1>1, <1>2, ObservedStep, Zenon

\* A killed worker leaves its child behind under a number of its own, and what
\* it was writing in part.
LEMMA CrashStep ==
  ASSUME IInv, WInv, IInv', NEW o \in Owners, Crash(o)
  PROVE  WInv'
<1>1. /\ UNCHANGED <<claims, retained, current, lost>> /\ Quit(o)
      /\ clock \in Times /\ clock < MaxCrashes /\ clock' = clock + 1
      /\ lost \in 0..MaxLost /\ kids \in [Commands -> [Times -> Child]]
      /\ PlaceInv(o)
  BY Zenon DEF Crash, tables, WInv, WorkerTypeOK
<1>2. 0 \in Times /\ clock' \in Times /\ clock + 1 \in Times /\ clock + 1 # 0
  BY <1>1, WorkerConstants DEF Times
<1>3. torn' \subseteq Commands \X Stages /\ (pc[o] = "observe" => torn' = torn)
  <2>1. PICK files \in {{}, Writing(o)} : torn' = torn \cup files
    BY Zenon DEF Crash
  <2>2. Writing(o) \subseteq Commands \X Stages /\ (pc[o] = "observe" => Writing(o) = {})
    <3>1. pc[o] \in {"begin", "retain", "close"} => job[o] \in Commands
      BY <1>1, Zenon DEF PlaceInv, Idle
    <3> QED BY <3>1, SMT DEF Writing, Stages
  <2> QED BY <2>1, <2>2, Zenon DEF WInv, WorkerTypeOK
<1>4. CASE pc[o] = "child"
  <2>1. PICK c \in Commands : c = job[o]
    BY <1>1, <1>4, Zenon DEF PlaceInv, Idle
  <2> DEFINE mine == [kids[c] EXCEPT ![0] = "gone", ![clock + 1] = kids[c][0]]
  <2>2. kids' = [kids EXCEPT ![c] = mine] /\ UNCHANGED material
    BY <1>4, <2>1, Zenon DEF Crash
  <2>3. /\ mine \in [Times -> Child] /\ mine[0] = "gone" /\ mine[clock + 1] = kids[c][0]
        /\ \A k \in Times \ {0, clock + 1} : mine[k] = kids[c][k]
    BY <1>1, <1>2, <2>1, Zenon DEF Child
  <2> HIDE DEF mine
  <2>4. /\ kids' \in [Commands -> [Times -> Child]] /\ kids'[c] = mine
        /\ \A d \in Commands \ {c} : kids'[d] = kids[d]
    BY <1>1, <2>1, <2>2, <2>3, Zenon
  <2>5. KidsInv(c)'
    <3> SUFFICES ASSUME c \notin Coding, NEW k \in Times, mine[k] = "working"
                 PROVE  /\ material[c] = "partial"
                        /\ \A j \in Times : mine[j] = "working" => j = k
      BY <2>2, <2>4, Zenon DEF KidsInv
    <3>1. \A j \in Times : mine[j] = "working" =>
            \/ j = clock + 1 /\ kids[c][0] = "working"
            \/ j \notin {0, clock + 1} /\ kids[c][j] = "working"
      BY <2>3, Zenon
    <3>2. KidsInv(c)
      BY <2>1, Zenon DEF WInv
    <3> QED BY <1>2, <3>1, <3>2, Zenon DEF KidsInv
  <2>6. \A d \in Commands : KidsInv(d)'
    <3>1. \A d \in Commands \ {c} : KidsInv(d)'
      BY <2>2, <2>4 DEF WInv, KidsInv
    <3> QED BY <2>5, <3>1, Zenon
  <2> QED BY <1>1, <1>2, <1>3, <2>2, <2>4, <2>6, QuitStep, Zenon
<1>5. CASE pc[o] # "child" /\ UNCHANGED material
  <2>1. UNCHANGED kids
    BY <1>5, Zenon DEF Crash
  <2> QED BY <1>1, <1>2, <1>3, <1>5, <2>1, KidsKept, QuitStep, Zenon
<1>6. CASE pc[o] = "observe" /\ material' = [material EXCEPT ![job[o]] = "partial"]
  <2>1. UNCHANGED <<kids, torn>> /\ job[o] \in Commands
    BY <1>1, <1>3, <1>6, Zenon DEF Crash, PlaceInv, Idle
  <2> QED BY <1>1, <1>2, <1>6, <2>1, ObservedStep, Zenon
<1> QED BY <1>4, <1>5, <1>6, Zenon DEF Crash
-----------------------------------------------------------------------------
(* The steps of the children: all they change is their own run root.        *)

\* A run root that holds no receipt changes, and with it no worker's view.
LEMMA RootStep ==
  ASSUME IInv, WInv, IInv', NEW c \in Commands, material[c] \notin Receipts,
         UNCHANGED <<claims, pc, job, current, retained, torn, clock, lost>>,
         material' \in [Commands -> Receipts \cup {"none", "partial"}],
         \A d \in Commands \ {c} : material'[d] = material[d],
         c \in Coding => material'[c] \notin Receipts,
         kids' \in [Commands -> [Times -> Child]],
         \A d \in Commands : KidsInv(d)'
  PROVE  WInv'
<1>1. RootsKept /\ \A u \in Owners : ClaimsKept(u) /\ Kept(u)
  BY Zenon DEF RootsKept, ClaimsKept, Claimed, Kept
<1>2. \A u \in Owners : FilesInv(u)' /\ PlaceInv(u)'
  <2> SUFFICES ASSUME NEW u \in Owners PROVE FilesInv(u)' /\ PlaceInv(u)'
    BY Zenon
  <2>1. Unobserved(u) =>
          job[u] \in Commands /\ material[job[u]] \notin Receipts
    BY Zenon DEF WInv, PlaceInv, Unobserved, Idle
  <2>2. Unobserved(u) => material'[job[u]] \notin Receipts
    BY <2>1, Zenon DEF Unobserved
  <2> QED BY <1>1, <2>2, Bystander, Zenon
<1>3. \A d \in Commands : RootInv(d)'
  <2> SUFFICES ASSUME NEW d \in Commands, Settled(d)' PROVE RootInv(d)'
    BY Zenon DEF RootInv
  <2>1. Settled(d) /\ RootInv(d)
    BY Zenon DEF WInv, Settled
  <2> QED BY <2>1, Zenon DEF RootInv
<1>4. WorkerTypeOK'
  BY Zenon DEF WInv, WorkerTypeOK, IInv
<1> QED BY <1>2, <1>3, <1>4, Zenon DEF WInv

\* Only the children change.
LEMMA StillStep ==
  ASSUME IInv, WInv, IInv',
         UNCHANGED <<claims, pc, job, current, retained, material, torn, clock, lost>>,
         kids' \in [Commands -> [Times -> Child]],
         \A d \in Commands : KidsInv(d)'
  PROVE  WInv'
<1>1. \A u \in Owners : FilesInv(u)' /\ PlaceInv(u)'
  <2> SUFFICES ASSUME NEW u \in Owners PROVE FilesInv(u)' /\ PlaceInv(u)'
    BY Zenon
  <2>1. RootsKept /\ ClaimsKept(u) /\ Kept(u)
    BY Zenon DEF RootsKept, ClaimsKept, Claimed, Kept
  <2>2. Unobserved(u) => material'[job[u]] \notin Receipts
    BY Zenon DEF WInv, PlaceInv, Unobserved
  <2> QED BY <2>1, <2>2, Bystander, Zenon
<1>2. \A d \in Commands : RootInv(d)'
  BY Zenon DEF WInv, RootInv, Settled
<1>3. WorkerTypeOK'
  BY Zenon DEF WInv, WorkerTypeOK, IInv
<1> QED BY <1>1, <1>2, <1>3, Zenon DEF WInv

LEMMA ChildEntersStep ==
  ASSUME IInv, WInv, IInv', NEW c \in Commands, NEW k \in Times, ChildEnters(c, k)
  PROVE  WInv'
<1>1. /\ UNCHANGED <<claims, pc, job, current, retained, torn, clock, lost>>
      /\ kids \in [Commands -> [Times -> Child]]
      /\ material \in [Commands -> Receipts \cup {"none", "partial"}]
      /\ kids[c][k] = "young"
  BY Zenon DEF ChildEnters, tables, WInv, WorkerTypeOK
<1>2. CASE material[c] = "none"
  <2>1. /\ material' = [material EXCEPT ![c] = "partial"]
        /\ kids' = [kids EXCEPT ![c][k] = "working"]
    BY <1>2, Zenon DEF ChildEnters
  <2>2. /\ material' \in [Commands -> Receipts \cup {"none", "partial"}]
        /\ material'[c] = "partial"
        /\ \A d \in Commands \ {c} : material'[d] = material[d]
        /\ material[c] \notin Receipts /\ material'[c] \notin Receipts
    BY <1>1, <1>2, <2>1, WorkerConstants, Zenon
  <2>3. /\ kids' \in [Commands -> [Times -> Child]]
        /\ \A d \in Commands \ {c} : kids'[d] = kids[d]
        /\ \A j \in Times \ {k} : kids'[c][j] = kids[c][j]
    BY <1>1, <2>1, Zenon DEF Child
  <2>4. \A d \in Commands : KidsInv(d)'
    <3>1. KidsInv(c)'
      BY <1>2, <2>2, <2>3 DEF WInv, KidsInv
    <3>2. \A d \in Commands \ {c} : KidsInv(d)'
      BY <2>2, <2>3 DEF WInv, KidsInv
    <3> QED BY <3>1, <3>2, Zenon
  <2> QED BY <1>1, <2>2, <2>3, <2>4, RootStep, Zenon
<1>3. CASE material[c] # "none"
  <2>1. kids' = [kids EXCEPT ![c][k] = "gone"] /\ UNCHANGED material
    BY <1>3, Zenon DEF ChildEnters
  <2>2. /\ kids' \in [Commands -> [Times -> Child]]
        /\ \A d \in Commands, j \in Times : kids'[d][j] = "working" => kids[d][j] = "working"
    BY <1>1, <2>1, Zenon DEF Child
  <2>3. \A d \in Commands : KidsInv(d)'
    BY <2>1, <2>2, KidsShrink, Zenon
  <2> QED BY <1>1, <2>1, <2>2, <2>3, StillStep, Zenon
<1> QED BY <1>2, <1>3, Zenon

LEMMA ChildExitsStep ==
  ASSUME IInv, WInv, IInv', NEW c \in Commands, NEW k \in Times, ChildExits(c, k)
  PROVE  WInv'
<1>1. /\ UNCHANGED <<claims, pc, job, current, retained, torn, clock, lost>>
      /\ kids \in [Commands -> [Times -> Child]]
      /\ material \in [Commands -> Receipts \cup {"none", "partial"}]
      /\ c \notin Coding => kids[c][k] = "working"
      /\ kids' = [kids EXCEPT ![c][k] = "gone"]
  BY Zenon DEF ChildExits, tables, WInv, WorkerTypeOK
<1>2. /\ kids' \in [Commands -> [Times -> Child]]
      /\ \A d \in Commands, j \in Times : kids'[d][j] = "working" => kids[d][j] = "working"
      /\ kids'[c][k] = "gone"
  BY <1>1, Zenon DEF Child
<1>3. CASE UNCHANGED material
  BY <1>1, <1>2, <1>3, KidsShrink, StillStep, Zenon
<1>4. CASE c \notin Coding /\ \E r \in Receipts : material' = [material EXCEPT ![c] = r]
  <2>1. PICK r \in Receipts : material' = [material EXCEPT ![c] = r]
    BY <1>4, Zenon
  <2>2. c \notin Coding /\ KidsInv(c)
    BY <1>4, Zenon DEF WInv
  <2>3. /\ material[c] = "partial" /\ material[c] \notin Receipts
        /\ \A j \in Times : kids[c][j] = "working" => j = k
    BY <1>1, <2>2, WorkerConstants, Zenon DEF KidsInv
  <2>4. /\ material' \in [Commands -> Receipts \cup {"none", "partial"}]
        /\ \A d \in Commands \ {c} : material'[d] = material[d]
    BY <1>1, <2>1, Zenon
  <2>5. KidsInv(c)'
    BY <1>2, <2>3, Zenon DEF KidsInv
  <2>6. \A d \in Commands \ {c} : KidsInv(d)'
    BY <1>2, <2>4 DEF WInv, KidsInv
  <2>7. \A d \in Commands : KidsInv(d)'
    BY <2>5, <2>6, Zenon
  <2> QED BY <1>1, <1>2, <2>2, <2>3, <2>4, <2>7, RootStep, Zenon
<1> QED BY <1>3, <1>4, Zenon DEF ChildExits
-----------------------------------------------------------------------------
(* The steps that change the tables.                                        *)

\* A worker that gets a claim, in memory or in an answer that is lost.
LEMMA GrantStep ==
  ASSUME IInv, WInv, IInv', NEW o \in Owners, NEW c \in Commands, pc[o] = "claim",
         ClaimCommand(o, c), UNCHANGED Files, lost' \in 0..MaxLost,
         \/ Take(o, c, "begin")
         \/ Goto(o, "reread") /\ UNCHANGED job
  PROVE  WInv'
<1> DEFINE row == [owner |-> o, epoch |-> epoch, disposition |-> "CLAIMED", completion |-> None]
<1>1. /\ UNCHANGED <<current, retained, material, kids, torn, clock>>
      /\ claims' = [claims EXCEPT ![c] = row] /\ claims[c] = None /\ OpenClaims(o) = {}
  BY Zenon DEF Files, ClaimCommand, Claimable
<1>2. row \in ClaimRow /\ row.owner = o /\ row.disposition = "CLAIMED"
  BY Zenon DEF ClaimRow, Dispositions, IInv, TypeOK
<1>3. row # None
  BY <1>2, NoneIsNoRow, Zenon
<1> HIDE DEF row
<1>4. /\ claims'[c] = row /\ \A d \in Commands \ {c} : claims'[d] = claims[d]
  BY <1>1, Zenon DEF IInv, TypeOK
<1>5. FilesInv(o) /\ PlaceInv(o) /\ ~Held(o) /\ job[o] = None
  BY Zenon DEF WInv, PlaceInv, Unobserved, Idle
<1>6. /\ \A u \in Owners \ {o} : Kept(u)
      /\ \/ pc'[o] = "begin" /\ job'[o] = c
         \/ pc'[o] = "reread" /\ job'[o] = None
      /\ pc' \in [Owners -> Steps] /\ job' \in [Owners -> Commands \cup {None}]
  BY <1>1, <1>5, ZenonT(40) DEF Take, Goto, WInv, WorkerTypeOK, Steps, Kept
<1>7. OpenClaims(o)' = {c}
  BY <1>1, <1>2, <1>3, <1>4 DEF OpenClaims
<1>8. FilesInv(o)' /\ ~Held(o)'
  <2>1. current[o] # None => current[o].cmd \in Commands /\ current[o].cmd # c
    BY <1>1, <1>5, WorkerTypes, Zenon DEF FilesInv, Claimed
  <2> QED BY <1>1, <1>4, <1>5, <1>7, <2>1, ZenonT(40) DEF FilesInv, Held, Claimed, Unsettled
<1>9. PlaceInv(o)'
  BY <1>2, <1>3, <1>4, <1>6, <1>7, <1>8, Zenon DEF PlaceInv, Unobserved, Idle, Claimed, Unsettled
<1>10. \A u \in Owners \ {o} : FilesInv(u)' /\ PlaceInv(u)'
  <2> SUFFICES ASSUME NEW u \in Owners \ {o} PROVE FilesInv(u)' /\ PlaceInv(u)'
    BY Zenon
  <2>1. RootsKept /\ ClaimsKept(u)
    BY <1>1, <1>2, <1>4, Zenon DEF RootsKept, ClaimsKept, Claimed
  <2>2. Unobserved(u) => material'[job[u]] \notin Receipts
    BY <1>1, Zenon DEF WInv, PlaceInv, Unobserved
  <2> QED BY <1>6, <2>1, <2>2, Bystander, Zenon
<1>11. \A d \in Commands : RootInv(d)'
  <2>1. ~Settled(c)'
    BY <1>2, <1>4, Zenon DEF Settled
  <2>2. \A d \in Commands \ {c} : RootInv(d)'
    BY <1>1, <1>4, ZenonT(40) DEF WInv, RootInv, Settled
  <2> QED BY <2>1, <2>2, Zenon DEF RootInv
<1>12. WorkerTypeOK'
  BY <1>1, <1>6, Zenon DEF WInv, WorkerTypeOK, IInv
<1> QED BY <1>1, <1>8, <1>9, <1>10, <1>11, <1>12, KidsKept, Zenon DEF WInv

\* A claim that is no worker's to settle: the Kernel refused the command.
LEMMA RefusedStep ==
  ASSUME IInv, WInv, IInv', NEW o \in Owners, NEW c \in Commands, pc[o] = "claim",
         RefuseUnsupported(o, c), UNCHANGED Files, lost' \in 0..MaxLost,
         \/ Quit(o)
         \/ Goto(o, "reread") /\ UNCHANGED job
  PROVE  WInv'
<1> DEFINE row == [owner |-> o, epoch |-> epoch, disposition |-> "FAILED", completion |-> "refused"]
<1>1. /\ UNCHANGED <<current, retained, material, kids, torn, clock>>
      /\ claims' = [claims EXCEPT ![c] = row] /\ claims[c] = None /\ OpenClaims(o) = {}
  BY Zenon DEF Files, RefuseUnsupported, Claimable
<1>2. row.owner = o /\ row.disposition = "FAILED"
  BY Zenon
<1> HIDE DEF row
<1>3. /\ claims'[c] = row /\ \A d \in Commands \ {c} : claims'[d] = claims[d]
  BY <1>1, Zenon DEF IInv, TypeOK
<1>4. FilesInv(o) /\ PlaceInv(o) /\ ~Held(o) /\ job[o] = None
  BY Zenon DEF WInv, PlaceInv, Unobserved, Idle
<1>5. /\ \A u \in Owners \ {o} : Kept(u)
      /\ pc'[o] \in {"off", "reread"} /\ job'[o] = None
      /\ pc' \in [Owners -> Steps] /\ job' \in [Owners -> Commands \cup {None}]
  BY <1>1, <1>4, Zenon DEF Quit, Take, Goto, WInv, WorkerTypeOK, Steps, Kept
<1>6. OpenClaims(o)' = {}
  BY <1>1, <1>2, <1>3, ZenonT(40) DEF OpenClaims
<1>7. FilesInv(o)' /\ ~Held(o)'
  <2>1. current[o] # None => current[o].cmd \in Commands /\ current[o].cmd # c
    BY <1>1, <1>4, WorkerTypes, Zenon DEF FilesInv, Claimed
  <2> QED BY <1>1, <1>3, <1>4, <1>6, <2>1, ZenonT(40) DEF FilesInv, Held, Claimed, Unsettled
<1>8. PlaceInv(o)'
  BY <1>5, <1>7, Zenon DEF PlaceInv, Unobserved, Idle
<1>9. \A u \in Owners \ {o} : FilesInv(u)' /\ PlaceInv(u)'
  <2> SUFFICES ASSUME NEW u \in Owners \ {o} PROVE FilesInv(u)' /\ PlaceInv(u)'
    BY Zenon
  <2>1. RootsKept /\ ClaimsKept(u)
    BY <1>1, <1>2, <1>3, Zenon DEF RootsKept, ClaimsKept, Claimed
  <2>2. Unobserved(u) => material'[job[u]] \notin Receipts
    BY <1>1, Zenon DEF WInv, PlaceInv, Unobserved
  <2> QED BY <1>5, <2>1, <2>2, Bystander, Zenon
<1>10. \A d \in Commands : RootInv(d)'
  <2>1. ~Settled(c)'
    BY <1>2, <1>3, Zenon DEF Settled
  <2>2. \A d \in Commands \ {c} : RootInv(d)'
    BY <1>1, <1>3, ZenonT(40) DEF WInv, RootInv, Settled
  <2> QED BY <2>1, <2>2, Zenon DEF RootInv
<1>11. WorkerTypeOK'
  BY <1>1, <1>5, Zenon DEF WInv, WorkerTypeOK, IInv
<1> QED BY <1>1, <1>7, <1>8, <1>9, <1>10, <1>11, KidsKept, Zenon DEF WInv

LEMMA WorkerClaimStep ==
  ASSUME IInv, WInv, IInv', NEW o \in Owners, Claim(o)
  PROVE  WInv'
<1>1. /\ pc[o] = "claim" /\ UNCHANGED Files
      /\ UNCHANGED <<material, retained, kids, current, torn, clock>>
      /\ clock' \in Times /\ lost' \in 0..MaxLost /\ torn' \subseteq Commands \X Stages
      /\ kids' \in [Commands -> [Times -> Child]]
      /\ retained' \in [Commands -> Times \cup {None}]
      /\ \A c \in Commands : KidsInv(c)'
  <2>1. pc[o] = "claim" /\ UNCHANGED Files /\ UNCHANGED <<material, retained, kids, current, torn, clock>>
    BY Zenon DEF Claim, Files
  <2>2. lost' \in 0..MaxLost
    BY WorkerConstants DEF Claim, Lose, WInv, WorkerTypeOK
  <2> QED BY <2>1, <2>2, KidsKept, Zenon DEF WInv, WorkerTypeOK
<1>2. PlaceInv(o) /\ job[o] = None /\ ~Held(o)
  BY <1>1, Zenon DEF WInv, PlaceInv, Unobserved, Idle
<1>3. ASSUME NEW c \in Commands, ClaimCommand(o, c), Take(o, c, "begin") PROVE WInv'
  BY <1>1, <1>3, GrantStep, Zenon
<1>4. ASSUME NEW c \in Commands, ClaimCommand(o, c), Goto(o, "reread"), UNCHANGED job PROVE WInv'
  BY <1>1, <1>4, GrantStep, Zenon
<1>5. ASSUME NEW c \in Commands, RefuseUnsupported(o, c), Quit(o) PROVE WInv'
  BY <1>1, <1>5, RefusedStep, Zenon
<1>6. ASSUME NEW c \in Commands, RefuseUnsupported(o, c), Goto(o, "reread"), UNCHANGED job PROVE WInv'
  BY <1>1, <1>6, RefusedStep, Zenon
<1>7. ASSUME UNCHANGED tables, Quit(o) PROVE WInv'
  <2>1. UNCHANGED claims
    BY <1>7, Zenon DEF tables
  <2> QED BY <1>1, <1>7, <2>1, QuitStep, Zenon
<1>8. ASSUME UNCHANGED tables, Goto(o, "reread"), UNCHANGED job PROVE WInv'
  <2>1. UNCHANGED claims
    BY <1>8, Zenon DEF tables
  <2>2. /\ \A u \in Owners \ {o} : Kept(u)
        /\ pc'[o] = "reread" /\ job'[o] = None
        /\ pc' \in [Owners -> Steps] /\ job' \in [Owners -> Commands \cup {None}]
    BY <1>1, <1>2, <1>8, Zenon DEF Goto, WInv, WorkerTypeOK, Steps, Kept
  <2>3. FilesInv(o)' /\ (Held(o)' <=> Held(o))
    BY <1>1, <2>1, FilesKept, Zenon
  <2>4. PlaceInv(o)'
    BY <1>2, <2>2, <2>3, Zenon DEF PlaceInv, Unobserved, Idle
  <2>5. WorkerTypeOK'
    BY <1>1, <2>2, Zenon DEF WInv, WorkerTypeOK, IInv
  <2> QED BY <1>1, <2>1, <2>2, <2>3, <2>4, <2>5, LocalStep, Zenon
<1> QED BY <1>3, <1>4, <1>5, <1>6, <1>7, <1>8, Zenon DEF Claim

\* What a settling worker presents is the receipt it retained.
LEMMA SettlesRetained ==
  ASSUME IInv, WInv, NEW o \in Owners, pc[o] = "settle"
  PROVE  /\ job[o] \in Commands /\ Claimed(o, job[o])
         /\ current[o] # None /\ current[o].cmd = job[o] /\ current[o].stage = "ReceiptRetained"
         /\ material[job[o]] \in Receipts /\ current[o].receipt = material[job[o]]
         /\ retained[job[o]] # None
<1>1. FilesInv(o) /\ PlaceInv(o)
  BY Zenon DEF WInv
<1> QED BY <1>1, Zenon DEF FilesInv, PlaceInv, Unobserved, Idle

LEMMA SettledStep ==
  ASSUME IInv, WInv, IInv', NEW o \in Owners, pc[o] = "settle",
         NEW c \in Commands, c = job[o], NEW r \in Receipts, r = material[c],
         SettleCommand(o, c, r), UNCHANGED Files, lost' \in 0..MaxLost,
         \/ Goto(o, "close") /\ UNCHANGED job
         \/ Quit(o)
  PROVE  WInv'
<1> DEFINE row == [claims[c] EXCEPT !.disposition = "UNKNOWN", !.completion = r]
<1>1. /\ UNCHANGED <<current, retained, material, kids, torn, clock>>
      /\ claims' = [claims EXCEPT ![c] = row] /\ claims[c] # None /\ claims[c].owner = o
  BY Zenon DEF Files, SettleCommand, Settleable
<1>2. /\ row \in ClaimRow /\ row.owner = o /\ row.disposition = "UNKNOWN" /\ row.completion = r
  BY <1>1, RowTypes, Zenon DEF ClaimRow, Dispositions, Responses
<1>3. row # None
  BY <1>2, NoneIsNoRow, Zenon
<1> HIDE DEF row
<1>4. /\ claims'[c] = row /\ \A d \in Commands \ {c} : claims'[d] = claims[d]
  BY <1>1, Zenon DEF IInv, TypeOK
<1>5. /\ FilesInv(o) /\ PlaceInv(o)
      /\ current[o] # None /\ current[o].cmd = c /\ current[o].stage = "ReceiptRetained"
      /\ current[o].receipt = material[c] /\ retained[c] # None
  BY SettlesRetained, Zenon DEF WInv
<1>6. /\ \A u \in Owners \ {o} : Kept(u)
      /\ \/ pc'[o] = "close" /\ job'[o] = c
         \/ pc'[o] = "off" /\ job'[o] = None
      /\ pc' \in [Owners -> Steps] /\ job' \in [Owners -> Commands \cup {None}]
  BY <1>1, Zenon DEF Quit, Take, Goto, WInv, WorkerTypeOK, Steps, Kept
<1>7. OpenClaims(o)' \subseteq OpenClaims(o)
  BY <1>1, <1>2, <1>4, Zenon DEF OpenClaims
<1>8. FilesInv(o)'
  BY <1>1, <1>2, <1>3, <1>4, <1>5, <1>7, Zenon DEF FilesInv, Held, Claimed
<1>9. PlaceInv(o)'
  BY <1>1, <1>2, <1>3, <1>4, <1>5, <1>6, Zenon DEF PlaceInv, Unobserved, Idle, Claimed
<1>10. \A u \in Owners \ {o} : FilesInv(u)' /\ PlaceInv(u)'
  <2> SUFFICES ASSUME NEW u \in Owners \ {o} PROVE FilesInv(u)' /\ PlaceInv(u)'
    BY Zenon
  <2>1. RootsKept /\ ClaimsKept(u)
    BY <1>1, <1>2, <1>4, Zenon DEF RootsKept, ClaimsKept, Claimed
  <2>2. Unobserved(u) => material'[job[u]] \notin Receipts
    BY <1>1, Zenon DEF WInv, PlaceInv, Unobserved
  <2> QED BY <1>6, <2>1, <2>2, Bystander, Zenon
<1>11. \A d \in Commands : RootInv(d)'
  <2>1. RootInv(c)'
    BY <1>1, <1>2, <1>4, <1>5, Zenon DEF RootInv
  <2>2. \A d \in Commands \ {c} : RootInv(d)'
    BY <1>1, <1>4, ZenonT(40) DEF WInv, RootInv, Settled
  <2> QED BY <2>1, <2>2, Zenon
<1>12. WorkerTypeOK'
  BY <1>1, <1>6, Zenon DEF WInv, WorkerTypeOK, IInv
<1> QED BY <1>1, <1>8, <1>9, <1>10, <1>11, <1>12, KidsKept, Zenon DEF WInv

LEMMA WorkerSettleStep ==
  ASSUME IInv, WInv, IInv', NEW o \in Owners, Settle(o)
  PROVE  WInv'
<1>1. /\ pc[o] = "settle" /\ UNCHANGED Files
      /\ UNCHANGED <<material, retained, kids, current, torn, clock>>
      /\ clock' \in Times /\ lost' \in 0..MaxLost /\ torn' \subseteq Commands \X Stages
      /\ kids' \in [Commands -> [Times -> Child]]
      /\ retained' \in [Commands -> Times \cup {None}]
      /\ \A c \in Commands : KidsInv(c)'
  <2>1. pc[o] = "settle" /\ UNCHANGED Files /\ UNCHANGED <<material, retained, kids, current, torn, clock>>
    BY Zenon DEF Settle, Files
  <2>2. lost' \in 0..MaxLost
    BY WorkerConstants DEF Settle, Lose, WInv, WorkerTypeOK
  <2> QED BY <2>1, <2>2, KidsKept, Zenon DEF WInv, WorkerTypeOK
<1>2. PICK c \in Commands, r \in Receipts : c = job[o] /\ r = material[c]
  BY <1>1, SettlesRetained, Zenon
<1>3. ASSUME SettleCommand(o, c, r), Goto(o, "close"), UNCHANGED job PROVE WInv'
  BY <1>1, <1>2, <1>3, SettledStep, Zenon
<1>4. ASSUME SettleCommand(o, c, r), Quit(o) PROVE WInv'
  BY <1>1, <1>2, <1>4, SettledStep, Zenon
<1>5. ASSUME UNCHANGED tables, Quit(o) PROVE WInv'
  <2>1. UNCHANGED claims
    BY <1>5, Zenon DEF tables
  <2> QED BY <1>1, <1>5, <2>1, QuitStep, Zenon
<1>6. ASSUME UNCHANGED tables, Goto(o, "close"), UNCHANGED <<job, lost>> PROVE WInv'
  <2>1. UNCHANGED claims
    BY <1>6, Zenon DEF tables
  <2>2. pc'[o] = "close" => PlaceInv(o)'
    BY <1>1, <1>6, <2>1, SettlesRetained, Zenon DEF PlaceInv, Unobserved, Idle, Claimed
  <2>3. "close" \in Steps
    BY Zenon DEF Steps
  <2> QED BY <1>1, <1>6, <2>1, <2>2, <2>3, GotoStep, Zenon
<1> QED BY <1>2, <1>3, <1>4, <1>5, <1>6, Zenon DEF Settle

\* The trigger of migration 0021 abandons the open claims and changes no other.
LEMMA WorkerMoveStep ==
  ASSUME IInv, WInv, IInv', MoveAuthority, UNCHANGED worker
  PROVE  WInv'
<1>1. /\ UNCHANGED <<pc, job, current, retained, material, kids, torn, clock, lost>>
      /\ claims' = [c \in Commands |-> Invalidated(c)]
  BY Zenon DEF worker, MoveAuthority
<1>2. \A c \in Commands :
        /\ claims[c] = None => claims'[c] = None
        /\ claims[c] # None =>
             /\ claims'[c] # None /\ claims'[c].owner = claims[c].owner
             /\ claims'[c].completion = claims[c].completion
             /\ claims'[c].disposition # "CLAIMED"
             /\ claims'[c].disposition =
                  IF claims[c].disposition = "CLAIMED" THEN "INVALIDATED"
                  ELSE claims[c].disposition
  <2> SUFFICES ASSUME NEW c \in Commands, claims[c] # None
               PROVE  /\ claims'[c] # None /\ claims'[c].owner = claims[c].owner
                      /\ claims'[c].completion = claims[c].completion
                      /\ claims'[c].disposition # "CLAIMED"
                      /\ claims'[c].disposition =
                           IF claims[c].disposition = "CLAIMED" THEN "INVALIDATED"
                           ELSE claims[c].disposition
    BY <1>1, Zenon DEF Invalidated
  <2> DEFINE row == [claims[c] EXCEPT !.disposition = "INVALIDATED"]
  <2>1. claims[c] \in ClaimRow
    BY RowTypes, Zenon
  <2>2. /\ row \in ClaimRow /\ row.owner = claims[c].owner
        /\ row.completion = claims[c].completion /\ row.disposition = "INVALIDATED"
    BY <2>1, Zenon DEF ClaimRow, Dispositions
  <2>3. claims'[c] = IF claims[c].disposition = "CLAIMED" THEN row ELSE claims[c]
    BY <1>1, Zenon DEF Invalidated
  <2>4. row # None
    BY <2>2, NoneIsNoRow, Zenon
  <2> HIDE DEF row
  <2> QED BY <2>2, <2>3, <2>4, Zenon
<1>3. \A o \in Owners : OpenClaims(o)' = {}
  BY <1>2, Zenon DEF OpenClaims
<1>4. \A o \in Owners : FilesInv(o)'
  <2> SUFFICES ASSUME NEW o \in Owners PROVE FilesInv(o)'
    BY Zenon
  <2>1. FilesInv(o) /\ (current[o] # None => current[o].cmd \in Commands)
    BY WorkerTypes, Zenon DEF WInv
  <2> QED BY <1>1, <1>2, <1>3, <2>1, Zenon DEF FilesInv, Held, Claimed, Unsettled
<1>5. \A o \in Owners : PlaceInv(o)'
  <2> SUFFICES ASSUME NEW o \in Owners PROVE PlaceInv(o)'
    BY Zenon
  <2>1. PlaceInv(o)
    BY Zenon DEF WInv
  <2> QED BY <1>1, <1>2, <1>3, <2>1, Zenon DEF PlaceInv, Unobserved, Held, Claimed, Unsettled, Idle
<1>6. \A c \in Commands : RootInv(c)'
  BY <1>1, <1>2, Zenon DEF WInv, RootInv, Settled
<1>7. WorkerTypeOK'
  BY <1>1, Zenon DEF WInv, WorkerTypeOK, IInv
<1> QED BY <1>1, <1>4, <1>5, <1>6, <1>7, KidsKept, Zenon DEF WInv
-----------------------------------------------------------------------------
(* Every step of the workers, and what follows.                             *)

\* The Kernel's half of a worker's step is a step of the command queue.
LEMMA WorkerTables ==
  ASSUME IInv, WInv, [WorkerNext]_vars
  PROVE  [Next]_tables
<1>1. ASSUME NEW o \in Owners, Work(o) \/ Crash(o) PROVE [Next]_tables
  <2>1. ASSUME Claim(o) PROVE [Next]_tables
    BY <2>1, Zenon DEF Claim, Next
  <2>2. ASSUME Settle(o) PROVE [Next]_tables
    <3>1. job[o] \in Commands /\ material[job[o]] \in Receipts
      BY <2>2, SettlesRetained, Zenon DEF Settle
    <3>2. ASSUME NEW c \in Commands, NEW r \in Receipts, SettleCommand(o, c, r) PROVE Next
      BY <3>2, Zenon DEF Next
    <3> QED BY <2>2, <3>1, <3>2, Zenon DEF Settle
  <2>3. ASSUME ~Claim(o), ~Settle(o) PROVE UNCHANGED tables
    BY <1>1, <2>3, Zenon DEF Work, Start, ReadBack, Begin, Run, Await, Observe, Retain,
       Publish, Close, Crash
  <2> QED BY <2>1, <2>2, <2>3, Zenon
<1>2. ASSUME NEW c \in Commands, NEW k \in Times, ChildEnters(c, k) \/ ChildExits(c, k)
      PROVE  UNCHANGED tables
  BY <1>2, Zenon DEF ChildEnters, ChildExits
<1>3. ASSUME NEW c \in Commands, SubmitCommand(c) \/ IssueNonce(c) PROVE Next
  BY <1>3, Zenon DEF Next
<1>4. MoveAuthority => Next
  BY Zenon DEF Next
<1>5. UNCHANGED vars => UNCHANGED tables
  BY Zenon DEF vars
<1> QED BY <1>1, <1>2, <1>3, <1>4, <1>5, Zenon DEF WorkerNext

LEMMA WorkerStepInv ==
  ASSUME IInv, WInv, [WorkerNext]_vars
  PROVE  IInv' /\ WInv'
<1>1. IInv'
  BY WorkerTables, StepInv, Zenon
<1>2. ASSUME UNCHANGED claims, UNCHANGED worker PROVE WInv'
  <2>1. /\ UNCHANGED <<pc, job, current, retained, material, kids, torn, clock, lost>>
        /\ kids' \in [Commands -> [Times -> Child]]
    BY <1>2, Zenon DEF worker, WInv, WorkerTypeOK
  <2> QED BY <1>1, <1>2, <2>1, KidsKept, StillStep, Zenon
<1>3. ASSUME NEW c \in Commands, SubmitCommand(c) \/ IssueNonce(c), UNCHANGED worker PROVE WInv'
  BY <1>2, <1>3, Zenon DEF SubmitCommand, IssueNonce
<1>4. ASSUME NEW o \in Owners, Work(o) PROVE WInv'
  BY <1>1, <1>4, StartStep, ReadBackStep, WorkerClaimStep, BeginStep, RunStep, AwaitStep, ObserveStep,
     RetainStep, PublishStep, WorkerSettleStep, CloseStep, Zenon DEF Work
<1>5. ASSUME NEW o \in Owners, Crash(o) PROVE WInv'
  BY <1>1, <1>5, CrashStep, Zenon
<1>6. ASSUME NEW c \in Commands, NEW k \in Times, ChildEnters(c, k) \/ ChildExits(c, k) PROVE WInv'
  BY <1>1, <1>6, ChildEntersStep, ChildExitsStep, Zenon
<1>7. ASSUME MoveAuthority, UNCHANGED worker PROVE WInv'
  BY <1>1, <1>7, WorkerMoveStep, Zenon
<1>8. ASSUME UNCHANGED vars PROVE WInv'
  BY <1>2, <1>8, Zenon DEF vars, tables
<1>9. WInv'
  BY <1>3, <1>4, <1>5, <1>6, <1>7, <1>8, Zenon DEF WorkerNext
<1> QED BY <1>1, <1>9, Zenon

LEMMA WorkerInductive == WorkerSpec => [](IInv /\ WInv)
<1>1. IInv /\ WInv /\ [WorkerNext]_vars => (IInv /\ WInv)'
  BY WorkerStepInv, Zenon
<1> QED BY <1>1, WorkerInitInv, PTL DEF WorkerSpec

\* The worker's memory, its files, the run roots and the tables have their types.
THEOREM WorkerTypesHold == WorkerSpec => []WorkerTypeOK
<1>1. WInv => WorkerTypeOK
  BY Zenon DEF WInv
<1> QED BY <1>1, WorkerInductive, PTL

\* However often workers are killed between two steps and answers are lost: a
\* settlement the Kernel recorded is of the receipt in the claim's run root, the
\* worker that owns it has it on disk and can repeat it, and a worker with an
\* unsettled claim on disk works for no other command.
THEOREM CustodyAlwaysKept == WorkerSpec => []CustodyIsKept
<1>1. WInv => CustodyIsKept
  <2> SUFFICES ASSUME WInv PROVE CustodyIsKept
    BY Zenon
  <2>1. ASSUME NEW c \in Commands, Settled(c)
        PROVE  /\ material[c] = claims[c].completion /\ retained[c] # None
               /\ LET state == current[claims[c].owner]
                  IN  state # None /\ (state.cmd = c => state.stage # "Claimed"
                                        /\ state.receipt = claims[c].completion)
    <3>1. RootInv(c) /\ claims[c].owner \in Owners
      BY <2>1, Zenon DEF WInv, Settled, WorkerTypeOK, TypeOK, ClaimRow
    <3>2. FilesInv(claims[c].owner)
      BY <3>1, Zenon DEF WInv
    <3> QED BY <2>1, <3>1, <3>2, Zenon DEF RootInv, FilesInv, Settled, Unsettled
  <2>2. ASSUME NEW o \in Owners, Held(o)
        PROVE  /\ job[o] # None => job[o] = current[o].cmd
               /\ claims[current[o].cmd] # None /\ claims[current[o].cmd].owner = o
               /\ OpenClaims(o) \subseteq {current[o].cmd}
    <3>1. FilesInv(o) /\ PlaceInv(o) /\ pc[o] \in Steps
      BY WorkerTypes, Zenon DEF WInv
    <3>2. job[o] # None => job[o] = current[o].cmd
      BY <2>2, <3>1, Zenon DEF PlaceInv, Unobserved, Idle, Steps
    <3> QED BY <2>2, <3>1, <3>2, Zenon DEF FilesInv, Claimed, Held
  <2> QED BY <2>1, <2>2, Zenon DEF CustodyIsKept, SettledIsRetained, CustodyFollowsClaim, Held
<1> QED BY <1>1, WorkerInductive, PTL

\* No step of a worker, of its child or of a child that outlived a killed worker
\* replaces a receipt that is in a run root.
THEOREM ReceiptStaysStable == WorkerSpec => ReceiptIsStable
<1> DEFINE Stable == \A c \in Commands : material[c] \in Receipts => material'[c] = material[c]
<1>1. ASSUME WInv, [WorkerNext]_vars PROVE Stable
  <2>1. ASSUME NEW o \in Owners, Observe(o) \/ Crash(o) PROVE Stable
    <3>1. /\ pc[o] = "observe" => job[o] \in Commands /\ material[job[o]] \notin Receipts
          /\ material \in [Commands -> Receipts \cup {"none", "partial"}]
      BY <1>1, Zenon DEF WInv, WorkerTypeOK, PlaceInv, Unobserved, Idle
    <3>2. \/ UNCHANGED material
          \/ pc[o] = "observe" /\ \E m : material' = [material EXCEPT ![job[o]] = m]
      BY <2>1, Zenon DEF Observe, Crash
    <3> QED BY <3>1, <3>2, Zenon
  <2>2. ASSUME NEW c \in Commands, NEW k \in Times, ChildEnters(c, k) PROVE Stable
    BY <1>1, <2>2, WorkerConstants, Zenon DEF ChildEnters, WInv, WorkerTypeOK
  <2>3. ASSUME NEW c \in Commands, NEW k \in Times, ChildExits(c, k) PROVE Stable
    <3>1. KidsInv(c) /\ (c \notin Coding => kids[c][k] = "working")
      BY <1>1, <2>3, Zenon DEF ChildExits, WInv
    <3>2. c \notin Coding => material[c] \notin Receipts
      BY <3>1, WorkerConstants, Zenon DEF KidsInv
    <3> QED BY <1>1, <2>3, <3>2, Zenon DEF ChildExits, WInv, WorkerTypeOK
  <2>4. ASSUME NEW o \in Owners, Work(o), ~Observe(o) PROVE UNCHANGED material
    BY <2>4, Zenon DEF Work, Start, ReadBack, Claim, Begin, Run, Await, Retain, Publish,
       Settle, Close, Files
  <2>5. UNCHANGED worker \/ UNCHANGED vars => UNCHANGED material
    BY Zenon DEF worker, vars
  <2> HIDE DEF Stable
  <2>6. UNCHANGED material => Stable
    BY Zenon DEF Stable
  <2> QED BY <1>1, <2>1, <2>2, <2>3, <2>4, <2>5, <2>6, Zenon DEF WorkerNext
<1>2. WInv /\ [WorkerNext]_vars => [Stable]_vars
  BY <1>1, Zenon
<1> QED BY <1>2, WorkerInductive, PTL DEF WorkerSpec, ReceiptIsStable

\* What the workers and their children do, with kills and lost answers, is a
\* behaviour of the command queue; so every theorem about the queue holds of it.
THEOREM WorkersDriveTheQueue == WorkerSpec => Spec
<1>1. WorkerInit => Init
  BY Zenon DEF WorkerInit
<1>2. IInv /\ WInv /\ [WorkerNext]_vars => [Next]_tables
  BY WorkerTables, Zenon
<1> QED BY <1>1, <1>2, WorkerInductive, PTL DEF WorkerSpec, Spec
=============================================================================
