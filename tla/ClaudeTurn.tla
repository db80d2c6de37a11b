----------------------------- MODULE ClaudeTurn -----------------------------
(***************************************************************************)
(* A Claude turn: the stream-JSON transcript in its two profiles           *)
(* (protocol.rs, parse.rs and its submodules), the two drivers that run    *)
(* one captured child through it (dispatch.rs for the frozen conformance   *)
(* profile, dogfood.rs for the read-only dogfood profile), and the session *)
(* that meters such turns against a grant (session.rs, session/turn.rs).   *)
(* `cl` is a turn, `cs` a session.  The child is not trusted: its frames   *)
(* are arbitrary, each with at most one "flaw", and `taken` remembers the  *)
(* flaws that were let through.                                            *)
(***************************************************************************)
EXTENDS Integers, FiniteSets

CONSTANTS
  ClFrames,      \* max_stream_json_frames of the profile
  ClMessages,    \* max_assistant_messages of the profile
  CsAllowance,   \* max_invocations of the grant
  CsBudget,      \* max_cost_micro_usd of the session
  CsExpiry,      \* expires_at_unix_ms of the grant
  CsHorizon      \* bound: the last instant a caller passes

ASSUME ClaudeBounds ==
  /\ {ClFrames, ClMessages, CsAllowance, CsBudget} \subseteq Nat \ {0}
  /\ {CsExpiry, CsHorizon} \subseteq Nat

VARIABLES cl, cs

claudeVars == <<cl, cs>>

ClTools == 1..2
ClCosts == {0, 1, 2}
NoCost == 99          \* no total_cost_usd was reported

NewTurn(profile) ==
  [profile |-> profile, stage |-> "idle", phase |-> "Absent", ok |-> TRUE, says |-> {},
   frames |-> 0, noted |-> {}, uuids |-> {}, ids |-> {}, last |-> 0, messages |-> 0,
   open |-> {}, refused |-> {}, used |-> {}, outcome |-> "none", ends |-> 0, usage |-> NoCost,
   cost |-> NoCost, exit |-> 0, timed |-> FALSE, result |-> "none",
   taken |-> {}, escaped |-> FALSE]

Dogfood(t) == t.profile = "dogfood"

-----------------------------------------------------------------------------
(* The transcript. *)

\* A poisoned transcript has no outcome, and no call reads the rest of it.
ClFail(t) ==
  [NewTurn(t.profile) EXCEPT
     !.phase = "Poisoned", !.ok = FALSE, !.stage = t.stage, !.exit = t.exit, !.timed = t.timed,
     !.cost = t.cost, !.escaped = t.escaped]

ClEvents(t, kinds) ==
  [t EXCEPT !.says = kinds, !.ends = @ + Cardinality(kinds \cap {"TurnCompleted", "TurnFailed"})]

ClNewFlaws == {"ids", "cwd", "version", "gateIds"}
ClNew(t, flaw) ==
  IF flaw \in ClNewFlaws THEN [t EXCEPT !.ok = FALSE] ELSE [t EXCEPT !.phase = "New"]

\* A call out of its phase poisons.
ClUserMessage(t, flaw) ==
  IF t.phase # "New" \/ flaw = "prompt" THEN ClFail(t)
  ELSE [t EXCEPT !.phase = "AwaitSessionInit"]

ClUnsupportedCancellation(t) == ClFail(t)

\* Every fact of the first frame is pinned.
InitFlaws == {"version", "cwd", "permissionMode", "outputStyle", "mcpServers", "skills", "tools",
              "model", "session"}
PinnedInit(t, f) == f.flaw \notin InitFlaws

FreshUuid(t, f) == f.uuid \notin t.uuids
Recorded(t, f) == [t EXCEPT !.uuids = @ \cup {f.uuid}]

ClSystemInit(t, f) ==
  IF t.phase # "AwaitSessionInit" \/ ~PinnedInit(t, f) \/ ~FreshUuid(t, f) THEN ClFail(t)
  ELSE ClEvents([Recorded(t, f) EXCEPT !.phase = "Active"],
                {"SessionIdentity", "SessionReady", "TurnStarted"})

AssistantFlaws == {"envelope", "session", "apiError", "subject", "messageModel", "stopReason",
                   "content"}
AssistantSubject(f) == f.flaw \notin AssistantFlaws

\* A tool outside the allowlist may be asked for, in the dogfood profile:
\* the request is noted as refused, and its result is held to that.
AdmitToolRequest(t, f) ==
  IF ~Dogfood(t) \/ f.flaw = "toolShape" \/ f.tool \in t.used THEN ClFail(t)
  ELSE [t EXCEPT !.used = @ \cup {f.tool}, !.open = @ \cup {f.tool},
                 !.refused = IF f.admitted THEN @ ELSE @ \cup {f.tool}]

ClAssistant(t, f) ==
  LET continuation == Dogfood(t) /\ t.last = f.msg
      named == [t EXCEPT !.ids = @ \cup {f.msg}, !.last = f.msg]
      asked == IF f.tool = 0 THEN named ELSE AdmitToolRequest(named, f)
  IN  IF \/ t.phase # "Active" \/ t.messages >= ClMessages \/ ~AssistantSubject(f)
         \/ ~continuation /\ f.msg \in t.ids
         \/ ~asked.ok \/ ~FreshUuid(t, f)
      THEN ClFail(t)
      ELSE ClEvents([Recorded(asked, f) EXCEPT
                       !.messages = IF continuation THEN @ ELSE @ + 1],
                    IF f.tool = 0 THEN {"TurnDelta"} ELSE {"ToolRequested"})

\* The results settle requests that are open; a refused tool that succeeded
\* is an escape.
UserFlaws == {"envelope", "session", "subject", "content"}

ClToolResult(t, f) ==
  LET settled == [Recorded(t, f) EXCEPT !.open = @ \ f.tools, !.refused = @ \ f.tools,
                                        !.escaped = @ \/ (~f.failed /\ f.tools \cap t.refused # {})]
  IN  CASE t.phase # "Active" \/ f.flaw \in UserFlaws -> ClFail(t)
        [] f.synthetic /\ f.tools = {} ->
             IF FreshUuid(t, f) THEN Recorded(t, f) ELSE ClFail(t)
        [] f.tools = {} \/ ~(f.tools \subseteq t.open) \/ ~FreshUuid(t, f) -> ClFail(t)
        [] f.tools \cap t.refused # {} /\ ~f.failed -> ClFail(t)
        [] OTHER -> ClEvents(settled, {IF f.failed THEN "ToolFailed" ELSE "ToolCompleted"})

TurnCount(t, f) ==
  IF Dogfood(t) THEN f.turns > 0 /\ f.turns <= t.frames ELSE f.turns = t.messages

SuccessFlaws == {"modelUsage", "isError", "resultStop", "resultShape", "proposal", "gateIds"}
HiddenWork == {"subagents", "queued"}

ClSuccess(t, f) ==
  IF \/ t.messages = 0 \/ t.open # {} \/ ~TurnCount(t, f) \/ f.flaw \in SuccessFlaws
     \/ Dogfood(t) /\ f.flaw \in HiddenWork
  THEN ClFail(t)
  ELSE ClEvents([t EXCEPT !.outcome = "Proposal", !.phase = "Terminal", !.usage = f.cost],
                {"UsageReported", "TurnCompleted"})

ClFailure(t, f) ==
  IF f.flaw \in {"subtype", "isError", "resultShape"} THEN ClFail(t)
  ELSE ClEvents([t EXCEPT !.outcome = "Failed", !.phase = "Terminal",
                          !.usage = IF Dogfood(t) THEN f.cost ELSE NoCost],
                {"TurnFailed"} \cup (IF Dogfood(t) THEN {"UsageReported"} ELSE {}))

ResultFlaws == {"session", "common"}

ClResult(t, f) ==
  IF t.phase # "Active" \/ f.flaw \in ResultFlaws \/ ~FreshUuid(t, f) THEN ClFail(t)
  ELSE IF f.success THEN ClSuccess(Recorded(t, f), f) ELSE ClFailure(Recorded(t, f), f)

\* A frame seen before is refused; of the frames that carry an event id the
\* ids are kept already, so only the others are remembered whole.
ClIngest(t, f) ==
  LET u == [t EXCEPT !.frames = @ + 1, !.says = {}, !.usage = NoCost,
                     !.noted = IF f.t = "telemetry" THEN @ \cup {f} ELSE @]
  IN  CASE t.phase = "Poisoned" -> [t EXCEPT !.ok = FALSE]
        [] t.phase = "Terminal" \/ f.flaw = "boundary" \/ t.frames >= ClFrames -> ClFail(t)
        [] f.flaw = "notStrict" \/ f \in t.noted -> ClFail(u)
        [] f.t = "init" -> ClSystemInit(u, f)
        [] f.t = "assistant" -> ClAssistant(u, f)
        [] f.t = "result" -> ClResult(u, f)
        [] f.t = "user" /\ Dogfood(t) -> ClToolResult(u, f)
        [] f.t = "telemetry" /\ Dogfood(t) -> u
        [] OTHER -> ClFail(u)

-----------------------------------------------------------------------------
(* The drivers. *)

\* dispatch_dogfood_turn refuses all of this before anything is spawned.
EnrolledFlaws == {"enrolledVersion", "relativePath", "digest", "argv"}
ClPrepared(t, flaw) ==
  IF flaw \in EnrolledFlaws THEN [t EXCEPT !.ok = FALSE]
  ELSE LET n == ClNew(t, flaw) IN IF n.ok THEN ClUserMessage(n, flaw) ELSE n

\* The conformance driver captures first, then builds the transcript.
ClBegin(flaw) ==
  /\ cl.stage = "idle"
  /\ LET t == IF Dogfood(cl) THEN ClPrepared(cl, flaw)
              ELSE IF flaw \in EnrolledFlaws THEN [cl EXCEPT !.ok = FALSE] ELSE cl
     IN  cl' = IF t.ok THEN [t EXCEPT !.stage = "capture"]
               ELSE [NewTurn(cl.profile) EXCEPT !.stage = "over", !.result = "beforeSpawn"]
  /\ UNCHANGED cs

ClCapture(exit, timed, available) ==
  /\ cl.stage = "capture"
  /\ LET t == IF Dogfood(cl) THEN cl ELSE ClUserMessage(ClNew(cl, "none"), "none")
     IN  cl' = IF available THEN [t EXCEPT !.stage = "lines", !.exit = exit, !.timed = timed]
               ELSE [cl EXCEPT !.stage = "over", !.result = "captureUnavailable"]
  /\ UNCHANGED cs

\* One captured line.  A refused line ends the turn; what the child is known
\* to have cost stays known.  The dogfood driver reads the cost as it goes.
ClLine(f) ==
  /\ cl.stage = "lines"
  /\ LET t == ClIngest(cl, f)
         told == "UsageReported" \in t.says /\ t.usage # NoCost
         seen == [t EXCEPT !.taken = @ \cup ({f.flaw} \ {"none", "cost"}), !.says = {},
                           !.usage = NoCost,
                           !.cost = IF told /\ f.flaw # "cost" THEN t.usage ELSE @]
     IN  cl' = IF ~t.ok \/ (told /\ Dogfood(cl) /\ f.flaw = "cost")
               THEN [t EXCEPT !.ok = TRUE, !.says = {}, !.stage = "over", !.result = "afterTurn"]
               ELSE seen
  /\ UNCHANGED cs

DogfoodVerdict(t, canary) ==
  IF t.timed \/ t.exit # 0 \/ t.phase # "Terminal" \/ t.outcome # "Proposal" \/ canary
  THEN "afterTurn" ELSE "ok"

LiveVerdict(t, canary) == IF t.phase # "Terminal" \/ canary THEN "afterTurn" ELSE "ok"

ClFinish(canary) ==
  /\ cl.stage = "lines"
  /\ cl' = [cl EXCEPT !.stage = "over",
                      !.result = IF Dogfood(cl) THEN DogfoodVerdict(cl, canary)
                                 ELSE LiveVerdict(cl, canary)]
  /\ UNCHANGED cs

\* Cancelling is not specified by the provider: the transcript gives up.
ClCancel ==
  /\ cl.stage = "lines"
  /\ cl' = [ClUnsupportedCancellation(cl) EXCEPT !.ok = TRUE]
  /\ UNCHANGED cs

-----------------------------------------------------------------------------
(* The session: calls are exclusive, so a send is one step.  `sent` is the *)
(* state in which the last child was dispatched.                           *)

NewSession(now) ==
  [phase |-> "Created", launched |-> FALSE, started |-> 0, turns |-> 0, now |-> now, spent |-> 0,
   unconfirmed |-> FALSE, slot |-> FALSE, sent |-> [now |-> 0, spent |-> 0, turn |-> 0],
   dirty |-> FALSE]

CsNewFlaws == {"config", "gates", "budget", "wall"}

RequireAuthority(s) == s.now < CsExpiry /\ s.started < CsAllowance /\ s.spent < CsBudget

CsNew(now, flaw) ==
  /\ cs.phase = "None"
  /\ flaw \notin CsNewFlaws /\ RequireAuthority(NewSession(now))
  /\ cs' = NewSession(now)
  /\ UNCHANGED cl

CsStart ==
  /\ ~cs.unconfirmed /\ cs.phase \notin {"None", "Terminated"}
  /\ cs' = IF cs.launched THEN cs ELSE [cs EXCEPT !.launched = TRUE, !.phase = "Started"]
  /\ UNCHANGED cl

\* Take the supervised pid and see it gone; or the session is over.
KillLive(s, gone, next) ==
  IF ~s.slot \/ gone THEN [s EXCEPT !.slot = FALSE, !.phase = next]
  ELSE [s EXCEPT !.slot = FALSE, !.phase = "Terminated", !.unconfirmed = TRUE]

CanBegin(s) == ~s.unconfirmed /\ s.phase \in {"Started", "Interrupted"} /\ s.started < CsAllowance

BeginTurn(s) == [s EXCEPT !.started = @ + 1, !.phase = "Turn"]

CsBeginTurn ==
  /\ CanBegin(cs)
  /\ cs' = BeginTurn(cs)
  /\ UNCHANGED cl

\* complete_turn: spend is charged before any verdict.
CompleteTurn(s, out, gone) ==
  LET cost == IF out.cost = NoCost THEN 0 ELSE out.cost
      charged == [s EXCEPT !.spent = @ + cost]
  IN  IF \/ charged.spent > CsBudget \/ out.timed \/ out.exit # 0 \/ out.proposals # 1
         \/ out.cost = NoCost
      THEN KillLive(charged, gone, "Started")
      ELSE [charged EXCEPT !.phase = "Started", !.turns = @ + 1,
                           !.dirty = @ \/ out.timed \/ out.exit # 0 \/ out.proposals # 1
                                       \/ out.cost = NoCost \/ s.spent + cost > CsBudget]

\* What a dispatched child may come back with; an error carries no cost.
CsOutcomes ==
  [ok : {TRUE}, timed : {FALSE}, exit : {0}, proposals : 0..2, cost : ClCosts \cup {NoCost}]
  \cup [ok : {TRUE}, timed : BOOLEAN, exit : 0..1, proposals : {1}, cost : {1}]
  \cup {[ok |-> FALSE, timed |-> FALSE, exit |-> 0, proposals |-> 0, cost |-> NoCost]}

CsSend(now, out, gone) ==
  LET seen == [cs EXCEPT !.now = IF now > @ THEN now ELSE @]
      begun == [BeginTurn(seen) EXCEPT
                  !.sent = [now |-> seen.now, spent |-> seen.spent, turn |-> seen.started + 1]]
  IN  /\ ~cs.unconfirmed /\ cs.phase # "None"
      /\ cs' = IF ~RequireAuthority(seen) \/ ~CanBegin(seen) THEN seen
               ELSE IF out.ok THEN CompleteTurn(begun, out, gone)
               ELSE KillLive(begun, gone, "Started")
      /\ UNCHANGED cl

CsInterrupt(gone) ==
  /\ ~cs.unconfirmed /\ cs.phase \in {"Started", "Turn"}
  /\ cs' = KillLive(cs, gone, "Interrupted")
  /\ UNCHANGED cl

CsTerminate(gone) ==
  /\ ~cs.unconfirmed /\ cs.phase \notin {"None", "Terminated"}
  /\ cs' = KillLive(cs, gone, "Terminated")
  /\ UNCHANGED cl

\* A supervised runner shares the slot.
CsPidFilled ==
  /\ cs.phase # "None" /\ ~cs.slot
  /\ cs' = [cs EXCEPT !.slot = TRUE]
  /\ UNCHANGED cl

-----------------------------------------------------------------------------
CommonFlaws == {"boundary", "notStrict"}

\* Event ids are fresh, but for an early one sent again.
NextUuids(t) == {1, Cardinality(t.uuids) + 1}

ClaudeFrames(t) ==
  [t : {"init"}, uuid : {1}, flaw : {"none"} \cup CommonFlaws \cup InitFlaws]
  \cup [t : {"assistant"}, uuid : NextUuids(t), msg : 1..2, tool : {0} \cup ClTools, admitted : BOOLEAN,
        flaw : {"none"}]
  \cup [t : {"assistant"}, uuid : NextUuids(t), msg : {1}, tool : {0, 1}, admitted : {TRUE},
        flaw : AssistantFlaws \cup CommonFlaws]
  \cup [t : {"assistant"}, uuid : NextUuids(t), msg : {1}, tool : {1}, admitted : {TRUE},
        flaw : {"toolShape"}]
  \cup [t : {"user"}, uuid : NextUuids(t), tools : SUBSET ClTools, failed : BOOLEAN,
        synthetic : {FALSE}, flaw : {"none"}]
  \cup [t : {"user"}, uuid : NextUuids(t), tools : {{}, {1}}, failed : {TRUE}, synthetic : BOOLEAN,
        flaw : {"none"} \cup UserFlaws]
  \cup [t : {"telemetry"}, flaw : {"none"}]
  \cup [t : {"result"}, uuid : NextUuids(t), success : BOOLEAN, turns : {0, 1, 2, 9}, cost : {1, NoCost},
        flaw : {"none"}]
  \cup [t : {"result"}, uuid : NextUuids(t), success : {TRUE}, turns : {1}, cost : {1},
        flaw : ResultFlaws \cup SuccessFlaws \cup {"cost"}]
  \cup [t : {"result"}, uuid : NextUuids(t), success : {FALSE}, turns : {1}, cost : {1},
        flaw : ResultFlaws \cup {"subtype", "isError", "resultShape", "cost"}]

DogfoodFrames(t) ==
  [t : {"result"}, uuid : NextUuids(t), success : {TRUE}, turns : {1}, cost : {1}, flaw : HiddenWork]

ClaudeInit ==
  /\ cl \in {NewTurn("v1"), NewTurn("dogfood")}
  /\ cs = [NewSession(0) EXCEPT !.phase = "None"]

TurnNext ==
  \/ \E flaw \in {"none", "prompt"} \cup ClNewFlaws \cup EnrolledFlaws : ClBegin(flaw)
  \/ \E exit \in 0..1, timed, available \in BOOLEAN : ClCapture(exit, timed, available)
  \/ \E f \in ClaudeFrames(cl) : ClLine(f)
  \/ Dogfood(cl) /\ \E f \in DogfoodFrames(cl) : ClLine(f)
  \/ \E canary \in BOOLEAN : ClFinish(canary)
  \/ ClCancel

SessionNext ==
  \/ \E now \in 0..CsHorizon, flaw \in {"none"} \cup CsNewFlaws : CsNew(now, flaw)
  \/ CsStart
  \/ CsBeginTurn
  \/ \E now \in 0..CsHorizon, out \in CsOutcomes, gone \in BOOLEAN : CsSend(now, out, gone)
  \/ \E gone \in BOOLEAN : CsInterrupt(gone) \/ CsTerminate(gone)
  \/ CsPidFilled

-----------------------------------------------------------------------------
\* A proposal is read from a Claude turn only when every frame behind it was
\* flawless, some message was seen, no tool request is open, and no tool
\* outside the allowlist ever reported success (parse/tools.rs:184-189); a
\* dogfood turn succeeds only if the child also exited cleanly in time
\* (dogfood.rs).
ClaudeTurnIsSound ==
  /\ ~cl.escaped
  /\ cl.phase = "Terminal" =>
       /\ cl.ends = 1 /\ cl.outcome # "none"
       /\ cl.taken = {}
       /\ cl.outcome = "Proposal" => cl.messages > 0 /\ cl.open = {} /\ cl.refused = {}
  /\ cl.messages <= ClMessages /\ cl.frames <= ClFrames
  /\ cl.result = "ok" => cl.phase = "Terminal"
  /\ cl.result = "ok" /\ Dogfood(cl) => cl.exit = 0 /\ ~cl.timed /\ cl.outcome = "Proposal"

\* A session dispatches a child only inside its grant: before it expires, no
\* more often than it allows, and with money left (session.rs:405-431); a
\* record is committed only for a clean turn within the budget
\* (session/turn.rs:228-266).
SessionIsBounded ==
  /\ cs.sent.turn > 0 =>
       cs.sent.now < CsExpiry /\ cs.sent.spent < CsBudget /\ cs.sent.turn <= CsAllowance
  /\ cs.started <= CsAllowance /\ cs.turns <= cs.started
  /\ ~cs.dirty
  /\ cs.unconfirmed => cs.phase = "Terminated"

\* A session whose kill could not be confirmed never does anything again, a
\* terminated one dispatches nothing, and its clock and its spend never run
\* backwards.
SessionIsFinal ==
  cs.phase # "None" =>
    /\ cs'.now >= cs.now /\ cs'.spent >= cs.spent
    /\ cs.unconfirmed => cs' \in {cs, [cs EXCEPT !.slot = TRUE]}
    /\ cs.phase = "Terminated" => cs'.phase = "Terminated" /\ cs'.started = cs.started

\* What every step of a Claude turn or session keeps.
ClaudeHolds == ClaudeTurnIsSound' /\ SessionIsBounded' /\ SessionIsFinal
=============================================================================
