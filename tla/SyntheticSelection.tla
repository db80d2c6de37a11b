------------------------- MODULE SyntheticSelection -------------------------
(***************************************************************************)
(* The synthetic two-lane selection (apps/bullet/src/bin/                  *)
(* transaction_offline/synthetic_selection): two lanes prepare a Candidate *)
(* each under a lease of their own, one is selected blindly, a third       *)
(* Attempt verifies and delivers it under the next fence of the author's   *)
(* variant, and two receipts are created once.                             *)
(*                                                                         *)
(* The driver is one sequential task.  Beside it the lease may run out,    *)
(* any signed call may be refused or lose its answer after it took effect, *)
(* any named fault may be armed, and another process may put a file of its *)
(* own at the path of a receipt.  Object ids and digests are small numbers *)
(* with their order; the base, the gates and the scope are the same in     *)
(* both lanes by construction of the plan.                                 *)
(***************************************************************************)
EXTENDS Naturals, Sequences, FiniteSets, States

CONSTANTS
  SelFaults,     \* the fault points of fault.rs that a run may arm
  SelContents    \* the trees, patch digests and heads a Candidate may have

Lanes == {"a", "b"}
Receipts == {"selection", "effect"}
Replies == {"ok", "refused", "lost"}
RunDone == <<"run", "done">>
RunFailed == <<"run", "failed">>

VARIABLES
  selAt,         \* where the driver is
  selFault,      \* the fault armed for this run, or "none"
  selLedger,     \* attempts, leases, fences and settlement rows
  selLane,       \* lane -> its participant and its journal
  selEffect,     \* EffectAuthority
  selContent,    \* lane -> the Candidate's tree, patch and head
  selChosen,     \* the selection receipt's body
  selForge,      \* how far the selected Candidate was delivered
  selFile,       \* receipt -> what stands at its path
  selForeign     \* paths another process has taken

selVars == <<selAt, selFault, selLedger, selLane, selEffect, selContent,
             selChosen, selForge, selFile, selForeign>>

FreshParty == [phase |-> "Fresh", current |-> "absent", settlement |-> "none"]

SelectionInit ==
  /\ selAt = <<"run", "preflight">>
  /\ selFault \in SelFaults \cup {<<"none">>}
  /\ selLedger = [state   |-> [x \in Lanes \cup {"e"} |-> "absent"],
                  settled |-> [x \in Lanes \cup {"e"} |-> "none"],
                  holder  |-> [l \in Lanes |-> "none"],
                  fence   |-> [l \in Lanes |-> 0]]
  /\ selLane = [l \in Lanes |-> [party |-> FreshParty, memory |-> <<>>,
                                 file |-> <<>>, failed |-> FALSE]]
  /\ selEffect = [party |-> FreshParty, variant |-> "none"]
  /\ selContent = [l \in Lanes |-> "none"]
  /\ selChosen = "none"
  /\ selForge = "none"
  /\ selFile \in [Receipts -> {"absent", "foreign"}]
  /\ selForeign = {k \in Receipts : selFile[k] = "foreign"}

-----------------------------------------------------------------------------
(* The signed lease service, as the driver meets it.                       *)

MayAcquire(v, x) == selLedger.holder[v] = "none" /\ selLedger.state[x] = "absent"

CallAcquire(v, x, r) ==
  \/ r = "refused" /\ UNCHANGED selLedger
  \/ /\ r # "refused" /\ MayAcquire(v, x)
     /\ selLedger' = [selLedger EXCEPT !.state[x] = "Starting", !.holder[v] = x,
                                       !.fence[v] = @ + 1]

MayRelease(v, x, s) ==
  selLedger.holder[v] = x /\ <<selLedger.state[x], s>> \in AttemptTransition

\* A release settles once; the same release is answered from its row.
CallRelease(v, x, s, r) ==
  \/ r = "refused" /\ UNCHANGED selLedger
  \/ r # "refused" /\ selLedger.settled[x] = s /\ UNCHANGED selLedger
  \/ /\ r # "refused" /\ MayRelease(v, x, s)
     /\ selLedger' = [selLedger EXCEPT !.state[x] = s, !.settled[x] = s,
                                       !.holder[v] = "none"]

CallAdvance(v, x, s, r) ==
  \/ r = "refused" /\ UNCHANGED selLedger
  \/ /\ r # "refused" /\ selLedger.holder[v] = x
     /\ <<selLedger.state[x], s>> \in AttemptTransition
     /\ selLedger' = [selLedger EXCEPT !.state[x] = s]

\* The reaper takes a lease that was not renewed in time.
LeaseRunsOut(v) ==
  /\ selAt \notin {RunDone, RunFailed}
  /\ selLedger.holder[v] # "none"
  /\ selLedger' = [selLedger EXCEPT !.state[selLedger.holder[v]] = "Crashed",
                                    !.holder[v] = "none"]
  /\ UNCHANGED <<selAt, selFault, selLane, selEffect, selContent, selChosen,
                 selForge, selFile, selForeign>>

-----------------------------------------------------------------------------
(* The participant of a lane and its journal.                              *)

Party(l) == selLane[l].party
SetParty(l, p) == selLane' = [selLane EXCEPT ![l].party = p]

\* What a release as s leaves, whatever was answered: abort_primed_failed keeps
\* its request, release keeps only that of a success.
SettleParty(p, s, r, kept) ==
  [p EXCEPT !.phase = IF r = "ok" THEN "Terminal" ELSE "Unknown",
            !.current = IF r = "ok" THEN s ELSE @,
            !.settlement = kept]

\* append, with a write that may fail short; record keeps that it did.
Journal(rec, tag, written) ==
  IF written THEN [rec EXCEPT !.file = Append(@, tag), !.memory = Append(@, tag)]
  ELSE [rec EXCEPT !.file = Append(@, "torn"), !.failed = TRUE]

\* reopen: no append ever failed, and the file holds what was appended.
Reopened(rec) == ~rec.failed /\ rec.file = rec.memory

\* require_journal.
JournalIsTerminal(entries) ==
  /\ \E i \in DOMAIN entries : entries[i] = "candidate_prepared"
  /\ \E i \in DOMAIN entries : entries[i] = "released superseded"
  /\ entries # <<>> /\ entries[Len(entries)] = "terminated"

\* preflight and admit_synthetic_selection_paths: both receipts are absent.
Preflight(ok) ==
  /\ selAt = <<"run", "preflight">>
  /\ selAt' = IF ok /\ \A k \in Receipts : selFile[k] = "absent"
              THEN <<"a", "acquire">> ELSE RunFailed
  /\ UNCHANGED <<selFault, selLedger, selLane, selEffect, selContent, selChosen,
                 selForge, selFile, selForeign>>

\* pre_acquire: the grant must be exactly what was asked, at fence 1.
PreAcquire(l, r, exact) ==
  /\ selAt = <<l, "acquire">>
  /\ Party(l).phase = "Fresh"
  /\ CallAcquire(l, l, r)
  /\ IF r = "ok" /\ exact
     THEN /\ SetParty(l, [FreshParty EXCEPT !.phase = "Primed", !.current = "Starting"])
          /\ selAt' = <<l, "setup">>
     ELSE /\ SetParty(l, [FreshParty EXCEPT !.phase = "Unknown"])
          /\ selAt' = IF r = "ok" THEN <<l, "refuse">> ELSE RunFailed
  /\ UNCHANGED <<selFault, selEffect, selContent, selChosen, selForge, selFile, selForeign>>

\* A grant that is not is released as Failed; the phase stays Unknown.
RefuseGrant(l, r) ==
  /\ selAt = <<l, "refuse">>
  /\ CallRelease(l, l, "Failed", r)
  /\ selAt' = RunFailed
  /\ UNCHANGED <<selFault, selLane, selEffect, selContent, selChosen, selForge,
                 selFile, selForeign>>

\* Setup under the primed heartbeat; it fails when a fault is armed, when
\* the heartbeat froze or when the Candidate source is refused.
SetupLane(l, ok) ==
  /\ selAt = <<l, "setup">>
  /\ LET armed == selFault = <<l, "after_acquire">> IN
     IF ok /\ ~armed
     THEN /\ selAt' = <<l, "advance", "Running">>
          /\ SetParty(l, [Party(l) EXCEPT !.phase = "Running"])
     ELSE selAt' = <<l, "abort">> /\ UNCHANGED selLane
  /\ UNCHANGED <<selFault, selLedger, selEffect, selContent, selChosen, selForge,
                 selFile, selForeign>>

\* abort_primed: the participant releases Failed; when that is answered, a
\* recovered client replays it and the ledger is read back.
AbortPrimed(l, r) ==
  /\ selAt = <<l, "abort">>
  /\ Party(l).phase = "Primed" /\ Party(l).current = "Starting"
  /\ CallRelease(l, l, "Failed", r)
  /\ SetParty(l, SettleParty(Party(l), "Failed", r, "Failed"))
  /\ selAt' = RunFailed
  /\ UNCHANGED <<selFault, selEffect, selContent, selChosen, selForge, selFile, selForeign>>

\* run_attempt's advances through the participant.
AdvanceLane(l, s, r) ==
  /\ selAt = <<l, "advance", s>>
  /\ Party(l).phase = "Running" /\ <<Party(l).current, s>> \in AttemptTransition
  /\ CallAdvance(l, l, s, r)
  /\ IF r = "ok"
     THEN /\ SetParty(l, [Party(l) EXCEPT !.current = s])
          /\ selAt' = IF s = "Running" THEN <<l, "advance", "Preparing">> ELSE <<l, "prepare">>
     ELSE selAt' = <<l, "release", "Failed">> /\ UNCHANGED selLane
  /\ UNCHANGED <<selFault, selEffect, selContent, selChosen, selForge, selFile, selForeign>>

\* The runner prepares and preserves the Candidate, or the Attempt fails.
PrepareLane(l, ok, written) ==
  /\ selAt = <<l, "prepare">>
  /\ IF ok
     THEN /\ \E c \in SelContents : selContent' = [selContent EXCEPT ![l] = c]
          /\ selLane' = [selLane EXCEPT ![l] = Journal(@, "candidate_prepared", written)]
          /\ selAt' = <<l, "release", "Succeeded">>
     ELSE selAt' = <<l, "release", "Failed">> /\ UNCHANGED <<selContent, selLane>>
  /\ UNCHANGED <<selFault, selLedger, selEffect, selChosen, selForge, selFile, selForeign>>

\* release: Succeeded is admitted from Preparing and sent as Superseded with
\* requeue, so that the variant can be leased again.
ReleaseLane(l, outcome, r, written) ==
  LET s == IF outcome = "Succeeded" THEN "Superseded" ELSE "Failed"
      kept == IF outcome = "Succeeded" THEN s ELSE "none"
  IN
  /\ selAt = <<l, "release", outcome>>
  /\ Party(l).phase = "Running"
  /\ outcome = "Succeeded" => Party(l).current = "Preparing"
  /\ CallRelease(l, l, s, r)
  /\ selLane' = [selLane EXCEPT ![l] =
       LET settled == [@ EXCEPT !.party = SettleParty(@, s, r, kept)] IN
       IF r = "ok" /\ outcome = "Succeeded"
       THEN Journal(Journal(settled, "released superseded", written), "terminated", written)
       ELSE settled]
  /\ selAt' = IF r = "ok" /\ outcome = "Succeeded" THEN <<l, "replay">> ELSE RunFailed
  /\ UNCHANGED <<selFault, selEffect, selContent, selChosen, selForge, selFile, selForeign>>

\* A recovered client replays the release, then close_lane reads the journal,
\* the preserved repository and the ledger back.
CloseLane(l, r) ==
  /\ selAt = <<l, "replay">>
  /\ CallRelease(l, l, Party(l).settlement, r)
  /\ selAt' = IF /\ r = "ok"
                 /\ Reopened(selLane[l]) /\ JournalIsTerminal(selLane[l].memory)
                 /\ selLedger'.state[l] = "Superseded"
                 /\ selLedger'.holder[l] # l
                 /\ selLedger'.settled[l] = "Superseded"
              THEN IF l = "a" THEN <<"b", "acquire">> ELSE <<"run", "select">>
              ELSE RunFailed
  /\ UNCHANGED <<selFault, selLane, selEffect, selContent, selChosen, selForge,
                 selFile, selForeign>>

-----------------------------------------------------------------------------
(* Selection.                                                              *)

\* blinded_view: the content under a salted handle.
View(l, handle) == [handle |-> handle[l], content |-> selContent[l]]

\* The order of (tree, patch, head, handle).
Before(x, y) ==
  LET u == Append(x.content, x.handle)
      w == Append(y.content, y.handle)
  IN \E i \in 1..4 : u[i] < w[i] /\ \A j \in 1..(i - 1) : u[j] = w[j]

\* select_exact_pair, of the two views in the order of the lanes.
SelectExactPair(x, y) == IF Before(y, x) THEN y.handle ELSE x.handle

\* rederive_lane: the ledger and the retained artifacts are read again.
LaneIsDurable(l) ==
  /\ selLedger.state[l] = "Superseded" /\ selLedger.holder[l] = "none"
  /\ selLedger.fence[l] = 1 /\ selLedger.settled[l] = "Superseded"
  /\ selContent[l] # "none" /\ JournalIsTerminal(selLane[l].file)

\* receipt::create up to its bytes.  The handles come from a random salt.
SelectCandidate(ok) ==
  /\ selAt = <<"run", "select">>
  /\ IF ok /\ selFault # <<"run", "before_selection">> /\ \A l \in Lanes : LaneIsDurable(l)
     THEN /\ \E handle \in {h \in [Lanes -> 1..2] : h["a"] # h["b"]} :
               LET selected == SelectExactPair(View("a", handle), View("b", handle)) IN
               selChosen' = [handle |-> handle, selected |-> selected,
                             lane |-> CHOOSE l \in Lanes : handle[l] = selected]
          /\ selAt' = IF selFault = <<"run", "before_receipt">> THEN RunFailed ELSE <<"selection", "open">>
     ELSE selAt' = RunFailed /\ UNCHANGED selChosen
  /\ UNCHANGED <<selFault, selLedger, selLane, selEffect, selContent, selForge,
                 selFile, selForeign>>

-----------------------------------------------------------------------------
(* receipt_storage: a file created once.                                   *)

\* admit_parent, require_absent and the exclusive open.
OpenReceipt(k) ==
  /\ selAt = <<k, "open">>
  /\ IF selFile[k] = "absent"
     THEN selFile' = [selFile EXCEPT ![k] = "torn"] /\ selAt' = <<k, "write">>
     ELSE UNCHANGED selFile /\ selAt' = RunFailed
  /\ UNCHANGED <<selFault, selLedger, selLane, selEffect, selContent, selChosen,
                 selForge, selForeign>>

\* The write goes to the descriptor: a path taken meanwhile stays as it is.
WriteReceipt(k, ok) ==
  /\ selAt = <<k, "write">>
  /\ selFile' = [selFile EXCEPT ![k] = IF ok /\ @ = "torn" THEN "whole" ELSE @]
  /\ selAt' = IF ok THEN <<k, "confirm">> ELSE RunFailed
  /\ UNCHANGED <<selFault, selLedger, selLane, selEffect, selContent, selChosen,
                 selForge, selForeign>>

AfterReceipt(k) == IF k = "selection" THEN <<"run", "seal">> ELSE RunDone

\* Path identity, parent sync, path identity, and reopen_exact; then the
\* fault that follows the receipt.
ConfirmReceipt(k) ==
  /\ selAt = <<k, "confirm">>
  /\ selAt' = IF selFile[k] # "whole" \/ selFault = <<k, "after_receipt">>
              THEN RunFailed ELSE AfterReceipt(k)
  /\ UNCHANGED <<selFault, selLedger, selLane, selEffect, selContent, selChosen,
                 selForge, selFile, selForeign>>

\* Another process renames what is at the path away and puts its own there.
TakePath(k) ==
  /\ selAt # RunDone /\ selFile[k] # "foreign"
  /\ selFile' = [selFile EXCEPT ![k] = "foreign"]
  /\ selForeign' = selForeign \cup {k}
  /\ UNCHANGED <<selAt, selFault, selLedger, selLane, selEffect, selContent,
                 selChosen, selForge>>

-----------------------------------------------------------------------------
(* The effect Attempt.                                                     *)

Effect == selEffect.party
Author == selEffect.variant
SetEffect(p) == selEffect' = [selEffect EXCEPT !.party = p]

\* seal and validate_origin_receipt: the decision is derived again from the
\* receipt, and the unblinded handle must name the selected Candidate.
SealSubject ==
  /\ selAt = <<"run", "seal">>
  /\ LET h == selChosen.handle
         l == selChosen.lane IN
     IF /\ SelectExactPair(View("a", h), View("b", h)) = selChosen.selected
        /\ h[l] = selChosen.selected
        /\ \A x \in Lanes : LaneIsDurable(x)
     THEN selAt' = <<"effect", "acquire">> /\ selEffect' = [selEffect EXCEPT !.variant = l]
     ELSE selAt' = RunFailed /\ UNCHANGED selEffect
  /\ UNCHANGED <<selFault, selLedger, selLane, selContent, selChosen, selForge,
                 selFile, selForeign>>

\* acquire: Unknown until the successor fence of the author is confirmed; a
\* grant that is not the successor is released as Failed.
AcquireEffect(r, exact) ==
  /\ selAt = <<"effect", "acquire">> /\ Effect.phase = "Fresh"
  /\ CallAcquire(Author, "e", r)
  /\ IF r = "ok" /\ exact
     THEN /\ SetEffect([Effect EXCEPT !.phase = "Acquired", !.current = "Starting"])
          /\ selAt' = <<"effect", "readback">>
     ELSE /\ SetEffect([Effect EXCEPT !.phase = "Unknown"])
          /\ selAt' = IF r = "ok" THEN <<"effect", "refuse">> ELSE RunFailed
  /\ UNCHANGED <<selFault, selLane, selContent, selChosen, selForge, selFile, selForeign>>

\* grant: the readback is the grant, unless a fault says otherwise.
ReadBackGrant(ok) ==
  /\ selAt = <<"effect", "readback">>
  /\ selAt' = IF ok THEN <<"effect", "activate">> ELSE <<"effect", "cleanup">>
  /\ UNCHANGED <<selFault, selLedger, selLane, selEffect, selContent, selChosen,
                 selForge, selFile, selForeign>>

Activate(r) ==
  /\ selAt = <<"effect", "activate">> /\ Effect.phase = "Acquired"
  /\ CallAdvance(Author, "e", "Running", r)
  /\ IF r = "ok"
     THEN /\ SetEffect([Effect EXCEPT !.phase = "Active", !.current = "Running"])
          /\ selAt' = <<"effect", "heartbeat">>
     ELSE SetEffect([Effect EXCEPT !.phase = "Unknown"]) /\ selAt' = <<"effect", "cleanup">>
  /\ UNCHANGED <<selFault, selLane, selContent, selChosen, selForge, selFile, selForeign>>

\* heartbeat: one before the work, none during it.
HeartbeatEffect(r) ==
  /\ selAt = <<"effect", "heartbeat">>
  /\ r = "ok" => selLedger.holder[Author] = "e"
  /\ IF r = "ok" THEN selAt' = <<"effect", "verify">> /\ UNCHANGED selEffect
     ELSE SetEffect([Effect EXCEPT !.phase = "Unknown"]) /\ selAt' = <<"effect", "cleanup">>
  /\ UNCHANGED <<selFault, selLedger, selLane, selContent, selChosen, selForge,
                 selFile, selForeign>>

\* What each step of execute leaves at the forge, and what follows it.
Work == [verify    |-> <<"verified", "authorize">>,
         authorize |-> <<"authorized", "dispatch">>,
         dispatch  |-> <<"unknown", "reconcile">>,
         reconcile |-> <<"adopted", "integrate">>,
         integrate |-> <<"integrated", "settle">>]

\* execute: verification, proposal and authorization under the lease, the
\* push whose answer is lost, its reconciliation, and integration.  Only the
\* authorization asks the ledger for the lease; a failed push may have landed.
EffectWork(w, ok) ==
  /\ selAt = <<"effect", w>>
  /\ w = "authorize" /\ ok => selLedger.holder[Author] = "e"
  /\ IF ok /\ selFault # <<"before", w>>
     THEN selForge' = Work[w][1] /\ selAt' = <<"effect", Work[w][2]>>
     ELSE /\ selForge' \in {selForge} \cup (IF w = "dispatch" THEN {"unknown"} ELSE {})
          /\ selAt' = <<"effect", "cleanup">>
  /\ UNCHANGED <<selFault, selLedger, selLane, selEffect, selContent, selChosen,
                 selFile, selForeign>>

\* EffectAuthority::release.
SettleEffect(p, s, r) ==
  [p EXCEPT !.phase = IF r = "ok" THEN "Terminal" ELSE "Unknown",
            !.current = IF r = "ok" THEN s ELSE @,
            !.settlement = s]

\* The release of a grant that is not the successor's, cleanup_failed after an
\* error, and settle_superseded after the work.  The last two release nothing
\* once the authority is Unknown.
ReleaseEffect(s, r) ==
  /\ <<selAt, s>> \in {<<<<"effect", "refuse">>, "Failed">>,
                      <<<<"effect", "cleanup">>, "Failed">>,
                      <<<<"effect", "settle">>, "Superseded">>}
  /\ IF selAt = <<"effect", "refuse">> \/ Effect.phase \in {"Acquired", "Active"}
     THEN /\ CallRelease(Author, "e", s, r)
          /\ SetEffect(SettleEffect(Effect, s, r))
          /\ selAt' = IF s = "Superseded" /\ r = "ok" THEN <<"run", "receipt">> ELSE RunFailed
     ELSE r = "refused" /\ UNCHANGED <<selLedger, selEffect>> /\ selAt' = RunFailed
  /\ UNCHANGED <<selFault, selLane, selContent, selChosen, selForge, selFile, selForeign>>

\* effect_receipt::create up to its bytes: the terminal state is read again.
DeriveEffectReceipt(ok) ==
  /\ selAt = <<"run", "receipt">> /\ Effect.phase = "Terminal"
  /\ selAt' = IF /\ ok /\ selFault # <<"run", "before_effect_receipt">>
                 /\ selLedger.state["e"] = "Superseded"
                 /\ selLedger.settled["e"] = Effect.settlement
                 /\ selLedger.holder[Author] = "none"
                 /\ selForge = "integrated"
              THEN <<"effect", "open">> ELSE RunFailed
  /\ UNCHANGED <<selFault, selLedger, selLane, selEffect, selContent, selChosen,
                 selForge, selFile, selForeign>>

SelectionNext ==
  \/ \E ok \in BOOLEAN : Preflight(ok) \/ SelectCandidate(ok) \/ ReadBackGrant(ok)
                           \/ DeriveEffectReceipt(ok)
  \/ \E l \in Lanes, r \in Replies :
       \/ RefuseGrant(l, r) \/ AbortPrimed(l, r) \/ CloseLane(l, r)
       \/ \E exact \in BOOLEAN : PreAcquire(l, r, exact)
  \/ \E l \in Lanes, ok \in BOOLEAN : SetupLane(l, ok)
  \/ \E l \in Lanes, s \in {"Running", "Preparing"}, r \in Replies : AdvanceLane(l, s, r)
  \/ \E l \in Lanes, ok, written \in BOOLEAN : PrepareLane(l, ok, written)
  \/ \E l \in Lanes, o \in {"Succeeded", "Failed"}, r \in Replies, written \in BOOLEAN :
       ReleaseLane(l, o, r, written)
  \/ \E l \in Lanes : LeaseRunsOut(l)
  \/ \E k \in Receipts : OpenReceipt(k) \/ ConfirmReceipt(k) \/ TakePath(k)
                           \/ \E ok \in BOOLEAN : WriteReceipt(k, ok)
  \/ SealSubject
  \/ \E r \in Replies : Activate(r) \/ HeartbeatEffect(r)
                        \/ \E exact \in BOOLEAN : AcquireEffect(r, exact)
  \/ \E w \in DOMAIN Work, ok \in BOOLEAN : EffectWork(w, ok)
  \/ \E s \in {"Failed", "Superseded"}, r \in Replies : ReleaseEffect(s, r)

-----------------------------------------------------------------------------
\* What the driver says is so in the ledger and on disk.  A participant or
\* the effect authority is Terminal only when the ledger has settled it as it
\* says and its lease is gone.  A selection receipt stands only over two
\* lanes settled as Superseded, and names a Candidate no other precedes.  An
\* effect receipt stands only when that Candidate was integrated under the
\* second fence and the Attempt that did it has settled.  A file somebody
\* else put at a receipt's path is never written over, and a run that ends
\* well ends with its own effect receipt at the path.
SelectionIsTruthful ==
  /\ \A l \in Lanes : Party(l).phase = "Terminal" =>
       /\ selLedger.state[l] = Party(l).current
       /\ Party(l).settlement \in {"none", Party(l).current}
       /\ selLedger.holder[l] # l
  /\ Effect.phase = "Terminal" =>
       selLedger.state["e"] = Effect.settlement /\ selLedger.holder[Author] # "e"
  /\ selFile["selection"] = "whole" =>
       /\ \A l \in Lanes : /\ selLedger.state[l] = "Superseded"
                           /\ selLedger.fence[l] >= 1
       /\ \A l \in Lanes :
            ~Before(View(l, selChosen.handle), View(selChosen.lane, selChosen.handle))
  /\ selFile["effect"] = "whole" =>
       /\ selForge = "integrated" /\ selLedger.state["e"] = "Superseded"
       /\ selLedger.fence[selChosen.lane] = 2
       /\ \A l \in Lanes : selLedger.holder[l] = "none"
  /\ \A k \in selForeign : selFile[k] = "foreign"
  /\ selAt = RunDone => selFile["effect"] = "whole"
=============================================================================
