------------------------- MODULE ProviderTranscript -------------------------
(***************************************************************************)
(* The transcripts that turn a provider's line protocol into at most one   *)
(* outcome: the Codex App Server (harness-codex), Cursor's ACP             *)
(* (harness-cursor) and Antigravity's one-line result                      *)
(* (harness-antigravity).  The provider is not trusted: it may send any    *)
(* frame at any moment, and the transcript accepts, refuses, or is         *)
(* poisoned for good.  A frame's "flaw" names the one fact of it that      *)
(* departs from what was asked for; `taken` remembers the flaws of the     *)
(* frames that were accepted.  Native ids are small numbers, 0 for none.   *)
(***************************************************************************)
EXTENDS Integers, FiniteSets

CONSTANTS
  TrFrames,      \* TRANSCRIPT_FRAME_LIMIT, MAX_INBOUND_FRAMES (128)
  TrItems,       \* ITEM_LIMIT (32)
  TrUpdates,     \* MAX_UPDATES (64)
  TrEarly        \* bound: frames refused because no thread is known yet

ASSUME TranscriptLimits == {TrFrames, TrItems, TrUpdates} \subseteq Nat \ {0}

VARIABLE tr

TrIds == 1..2
NoRequest == [id |-> 0, kind |-> "none"]
Unspoken == [said |-> 0, heard |-> 0]      \* by the response, by the notification
TurnClosers == {"TurnCompleted", "TurnFailed"}
TextDeltas == {"TurnDelta", "ThinkingDelta"}

NewTranscript(provider, live) ==
  [provider |-> provider, live |-> live, phase |-> "Absent", ok |-> TRUE, says |-> {},
   next |-> 1, pending |-> NoRequest, answered |-> {}, noted |-> {}, frames |-> 0,
   thread |-> Unspoken, turn |-> Unspoken, items |-> {}, final |-> 0, updates |-> 0, early |-> 0,
   cancel |-> "no", acked |-> FALSE, ended |-> FALSE, outcome |-> "none",
   closed |-> FALSE, ends |-> 0, strays |-> 0, done |-> FALSE, result |-> "none",
   taken |-> {}]

-----------------------------------------------------------------------------
(* What every transcript does. *)

\* An error that leaves the transcript as it was; an error that ends it.  In
\* a poisoned transcript no call reads any other field again, so they are
\* dropped.
TrRefuse(t) == [t EXCEPT !.ok = FALSE, !.says = {}]
TrFail(t) ==
  [NewTranscript(t.provider, t.live) EXCEPT
     !.phase = "Poisoned", !.ok = FALSE, !.outcome = t.outcome]
TrVoid(t) == [TrFail(t) EXCEPT !.outcome = "none"]

\* One event through the normaliser: a delta after the turn closed is an
\* anomaly, whatever the transcript meant it to be.
TrEvent(t, kind) ==
  LET stray == t.closed /\ kind \in TextDeltas
  IN  [t EXCEPT !.says = @ \cup {IF stray THEN "ProtocolError" ELSE kind},
                !.strays = IF stray THEN @ + 1 ELSE @,
                !.closed = \/ kind \in TurnClosers
                           \/ @ /\ kind # "TurnStarted",
                !.ends = IF kind \in TurnClosers THEN @ + 1 ELSE @]

TrRequest(t, kind) ==
  [t EXCEPT !.pending = [id |-> t.next, kind |-> kind], !.next = @ + 1]

\* A call is only legal in one phase: elsewhere it is refused, no more.
TrInPhase(t, phase, u) == IF t.phase = phase THEN u ELSE TrRefuse(t)

\* The facts a proposal must have before it is taken for one.
ProposalParse == {"notJson"}
ProposalOperations == {"operation"}
ProposalPaths == {"path"}
ProposalMetadata == {"metadata"}
ProposalGates == {"gateIds"}
ProposalFlaws ==
  ProposalParse \cup ProposalOperations \cup ProposalPaths \cup ProposalMetadata \cup ProposalGates
SoundProposal(f) == f.flaw \notin ProposalFlaws

-----------------------------------------------------------------------------
(* Codex: requests. *)

CodexNew(t, flaw) ==
  IF flaw \in {"version", "gateIds"} THEN TrRefuse(t) ELSE [t EXCEPT !.phase = "New"]

CodexInitialize(t) ==
  TrInPhase(t, "New", TrRequest([t EXCEPT !.phase = "Initializing"], "initialize"))

CodexInitialized(t) == TrInPhase(t, "AwaitInitialized", [t EXCEPT !.phase = "Initialized"])

CodexThreadStart(t, arg) ==
  TrInPhase(t, "Initialized",
    IF arg = "empty" THEN TrFail(t)
    ELSE TrRequest([t EXCEPT !.phase = "ThreadStarting"], "thread/start"))

CodexTurnStart(t, arg) ==
  TrInPhase(t, "ThreadReady",
    IF arg # "good" THEN TrFail(t)
    ELSE TrRequest([t EXCEPT !.phase = "TurnStarting"], "turn/start"))

CodexCancel(t, why) ==
  TrInPhase(t, "Active",
    TrRequest([t EXCEPT !.phase = "Interrupting", !.cancel = why], "turn/interrupt"))

-----------------------------------------------------------------------------
(* Codex: what it answers. *)

\* parse_frame: size, delimiters, strict JSON, no jsonrpc, a response or a
\* notification and nothing that asks the client for something.
FrameFlaws == {"boundary", "notStrict", "jsonrpc", "error", "serverRequest"}
CodexParses(f) == f.flaw \notin FrameFlaws

ThreadFlaws == {"sessionId", "cliVersion", "threadCwd", "ephemeral", "threadShape"}
ValidThread(f) == f.flaw \notin ThreadFlaws

\* never approved, read-only, where the client asked for it.
SubjectFlaws == {"approvalPolicy", "sandbox", "cwd", "model", "nativeId"}
ReadOnlySubject(f) == f.flaw \notin SubjectFlaws

FinishThreadStart(t) ==
  IF 0 \in {t.thread.said, t.thread.heard} THEN t
  ELSE IF t.thread.said # t.thread.heard THEN TrFail(t)
  ELSE TrEvent([t EXCEPT !.phase = "ThreadReady"], "SessionReady")

ThreadResponse(t, f) ==
  IF \/ t.phase # "ThreadStarting" \/ t.thread.said # 0
     \/ ~ReadOnlySubject(f) \/ ~ValidThread(f)
  THEN TrFail(t)
  ELSE LET u == FinishThreadStart([t EXCEPT !.thread.said = f.about])
       IN  IF u.ok THEN TrEvent(u, "SessionIdentity") ELSE u

ThreadStarted(t, f) ==
  IF t.phase # "ThreadStarting" \/ t.thread.heard # 0 \/ f.flaw = "nativeId" \/ ~ValidThread(f)
  THEN TrFail(t)
  ELSE FinishThreadStart([t EXCEPT !.thread.heard = f.about])

\* A mutant: the response alone is believed.
FinishTurnUnheard(t) ==
  IF t.turn.said = 0 THEN t ELSE TrEvent([t EXCEPT !.phase = "Active"], "TurnStarted")

FinishTurnStart(t) ==
  IF 0 \in {t.turn.said, t.turn.heard} THEN t
  ELSE IF t.turn.said # t.turn.heard THEN TrFail(t)
  ELSE TrEvent([t EXCEPT !.phase = "Active"], "TurnStarted")

TurnFlaws == {"nativeId", "turnSubject", "status"}

TurnResponse(t, f) ==
  IF t.phase # "TurnStarting" \/ t.turn.said # 0 \/ f.flaw \in TurnFlaws THEN TrFail(t)
  ELSE FinishTurnStart([t EXCEPT !.turn.said = f.about])

\* A frame about a thread: before there is one it is an error and no more.
ExactThread(t, f, u) ==
  IF t.thread.said = 0 THEN TrRefuse([t EXCEPT !.early = @ + 1])
  ELSE IF f.thread # t.thread.said THEN TrFail(t)
  ELSE u

TurnStarted(t, f) ==
  ExactThread(t, f,
    IF t.phase # "TurnStarting" \/ t.turn.heard # 0 \/ f.flaw \in TurnFlaws THEN TrFail(t)
    ELSE FinishTurnStart([t EXCEPT !.turn.heard = f.about]))

ActiveSubject(t, f, u) ==
  IF t.phase # "Active" THEN TrFail(t)
  ELSE ExactThread(t, f, IF f.turn # t.turn.said THEN TrFail(t) ELSE u)

CompletedItem(t, f) ==
  CASE f.kind = "agentMessage" /\ (t.final # 0 \/ f.flaw = "text") -> TrFail(t)
    [] f.kind = "agentMessage" -> TrEvent([t EXCEPT !.final = f.item], "TurnDelta")
    [] f.kind = "commandExecution" -> TrEvent(t, "ToolCompleted")
    [] OTHER -> t

ItemKinds == {"agentMessage", "reasoning", "commandExecution"}
ItemFlaws == {"itemId", "timestamp"}

ItemEvent(t, f) ==
  LET begun == {i \in t.items : i.id = f.item}
      fits == {i \in begun : ~i.done /\ i.kind = f.kind /\ i.at <= f.at}
  IN  ActiveSubject(t, f,
        CASE f.kind \notin ItemKinds \/ f.flaw \in ItemFlaws -> TrFail(t)
          [] f.t = "item/started" /\ begun = {} /\ Cardinality(t.items) < TrItems ->
               LET u == [t EXCEPT !.items = @ \cup {[id |-> f.item, kind |-> f.kind,
                                                     at |-> f.at, done |-> FALSE]}]
               IN  IF f.kind = "commandExecution" THEN TrEvent(u, "ToolStarted") ELSE u
          [] f.t = "item/completed" /\ fits # {} ->
               CompletedItem([t EXCEPT !.items = (@ \ fits) \cup {[i EXCEPT !.done = TRUE] : i \in fits}], f)
          [] OTHER -> TrFail(t))

TrDelta(t, f) ==
  ActiveSubject(t, f,
    IF \E i \in t.items : i.id = f.item /\ i.kind = f.kind /\ ~i.done
    THEN TrEvent(t, IF f.kind = "reasoning" THEN "ThinkingDelta" ELSE "TurnDelta")
    ELSE TrFail(t))

\* The terminal frame names every item that was observed, each completed,
\* the one agent message among them.
TerminalItemsMatch(t, f) ==
  /\ f.named = {i.id : i \in t.items}
  /\ \A i \in t.items : i.done
  /\ Cardinality({i \in t.items : i.kind = "agentMessage"}) = 1
  /\ f.flaw \notin {"itemKind", "itemText", "itemRepeated"}

CompletedTurn(t, f) ==
  IF t.final = 0 \/ ~TerminalItemsMatch(t, f) \/ ~SoundProposal(f) THEN TrFail(t)
  ELSE TrEvent([t EXCEPT !.outcome = "Proposal", !.phase = "Terminal"], "TurnCompleted")

InterruptedTurn(t) ==
  TrEvent([t EXCEPT !.outcome = IF t.cancel = "timeout" THEN "TimedOut" ELSE "Interrupted",
                    !.phase = IF t.acked THEN "Terminal" ELSE @], "TurnFailed")

FailedTurn(t) == TrEvent([t EXCEPT !.outcome = "Failed", !.phase = "Terminal"], "TurnFailed")

CodexTurnCompleted(t, f) ==
  LET u == [t EXCEPT !.ended = TRUE]
  IN  ExactThread(t, f,
        CASE \/ t.phase \notin {"Active", "Interrupting"} \/ t.ended
             \/ f.flaw = "turnSubject" \/ f.about # t.turn.said -> TrFail(t)
          [] f.status = "completed" /\ t.cancel = "no" -> CompletedTurn(u, f)
          [] f.status = "interrupted" /\ t.cancel # "no" -> InterruptedTurn(u)
          [] f.status = "failed" /\ t.cancel = "no" -> FailedTurn(u)
          [] OTHER -> TrFail(u))

InterruptResponse(t, f) ==
  IF t.phase # "Interrupting" \/ t.acked \/ f.flaw = "acknowledgement" THEN TrFail(t)
  ELSE TrEvent([t EXCEPT !.acked = TRUE, !.phase = IF t.ended THEN "Terminal" ELSE @],
               "InterruptAcknowledged")

CodexResponse(t, f) ==
  LET u == [t EXCEPT !.answered = @ \cup {f.id}, !.pending = NoRequest]
  IN  CASE f.id \in t.answered -> TrFail(t)
        [] t.pending = NoRequest \/ f.id # t.pending.id -> TrFail(u)
        [] t.pending.kind = "initialize" ->
             IF t.phase # "Initializing" \/ f.flaw = "initialize" THEN TrFail(u)
             ELSE TrEvent([u EXCEPT !.phase = "AwaitInitialized"], "SessionStarted")
        [] t.pending.kind = "thread/start" -> ThreadResponse(u, f)
        [] t.pending.kind = "turn/start" -> TurnResponse(u, f)
        [] t.pending.kind = "turn/interrupt" -> InterruptResponse(u, f)

CodexNotification(t, f) ==
  CASE f.t = "thread/started" -> ThreadStarted(t, f)
    [] f.t = "turn/started" -> TurnStarted(t, f)
    [] f.t \in {"item/started", "item/completed"} -> ItemEvent(t, f)
    [] f.t = "delta" -> TrDelta(t, f)
    [] f.t = "turn/completed" -> CodexTurnCompleted(t, f)
    [] OTHER -> TrFail(t)

CodexIngest(t, f) ==
  LET u == [t EXCEPT !.frames = @ + 1]
  IN  CASE t.phase = "Poisoned" -> TrRefuse(t)
        [] t.phase = "Terminal" \/ t.frames >= TrFrames -> TrFail(t)
        [] ~CodexParses(f) -> TrFail(u)
        [] f.t = "response" -> CodexResponse(u, f)
        [] f \in t.noted -> TrFail(u)
        [] OTHER -> CodexNotification([u EXCEPT !.noted = @ \cup {f}], f)

\* dispatch_live_turn: what the driver writes after each accepted line.
CodexDrive(t) ==
  LET greet == IF "SessionStarted" \in t.says
               THEN CodexThreadStart(CodexInitialized(t), "good") ELSE t
      ask == IF "SessionReady" \in t.says THEN CodexTurnStart(greet, "good") ELSE greet
  IN  IF ~t.ok THEN [t EXCEPT !.done = TRUE, !.result = "refused"]
      ELSE [ask EXCEPT !.done = @ \/ TurnClosers \cap t.says # {}]

-----------------------------------------------------------------------------
(* Cursor: every error poisons. *)

CursorNew(t, flaw) ==
  IF flaw \in {"version", "subjectDigest", "gateIds"} THEN TrRefuse(t)
  ELSE [t EXCEPT !.phase = "New"]

CursorInitialize(t) ==
  TrInPhase(t, "New", TrRequest([t EXCEPT !.phase = "Initializing"], "acp initialize"))

CursorAuthenticate(t) ==
  TrInPhase(t, "Initialized", TrRequest([t EXCEPT !.phase = "Authenticating"], "authenticate"))

CursorSessionNew(t, arg) ==
  TrInPhase(t, "Authenticated",
    IF arg = "empty" THEN TrFail(t)
    ELSE TrRequest([t EXCEPT !.phase = "SessionStarting"], "session/new"))

CursorPrompt(t, arg) ==
  TrInPhase(t, "Ready",
    IF arg # "good" THEN TrFail(t)
    ELSE TrRequest([t EXCEPT !.phase = "Prompting"], "session/prompt"))

\* No cancellation is specified: asking for one ends the transcript.
CursorCancel(t) == TrFail(t)

\* The agent may not offer what the client never granted: files, terminals.
CapabilityFlaws == {"capabilities"}
AgentFlaws == {"protocolVersion", "agentInfo", "authMethods"}
BindingFlaws == {"bindingMeta"}

CursorInitializeResponse(t, f) ==
  IF t.phase # "Initializing" \/ f.flaw \in AgentFlaws \cup CapabilityFlaws THEN TrFail(t)
  ELSE [t EXCEPT !.phase = "Initialized"]

CursorAuthenticateResponse(t, f) ==
  IF t.phase # "Authenticating" \/ f.flaw = "fields" THEN TrFail(t)
  ELSE [t EXCEPT !.phase = "Authenticated"]

CursorSessionResponse(t, f) ==
  IF t.phase # "SessionStarting" \/ f.flaw \in BindingFlaws \cup {"fields", "nativeId"} THEN TrFail(t)
  ELSE TrEvent([t EXCEPT !.phase = "Ready", !.thread.said = f.about], "SessionReady")

CursorPromptResponse(t, f) ==
  IF \/ t.phase # "Prompting" \/ f.flaw \in BindingFlaws \cup {"fields", "stopReason"}
     \/ ~SoundProposal(f)
  THEN TrFail(t)
  ELSE TrEvent([t EXCEPT !.outcome = "Proposal", !.phase = "Terminal"], "TurnCompleted")

CursorResponse(t, f) ==
  LET u == [t EXCEPT !.answered = @ \cup {f.id}, !.pending = NoRequest]
  IN  CASE f.id \in t.answered -> TrFail(t)
        [] t.pending = NoRequest \/ f.id # t.pending.id \/ f.flaw = "error" -> TrFail(u)
        [] t.pending.kind = "acp initialize" -> CursorInitializeResponse(u, f)
        [] t.pending.kind = "authenticate" -> CursorAuthenticateResponse(u, f)
        [] t.pending.kind = "session/new" -> CursorSessionResponse(u, f)
        [] t.pending.kind = "session/prompt" -> CursorPromptResponse(u, f)

CursorNotification(t, f) ==
  IF \/ t.phase # "Prompting" \/ f.flaw \in {"fields", "method", "toolUpdate", "content"}
     \/ f \in t.noted \/ t.updates >= TrUpdates \/ f.thread # t.thread.said
  THEN TrFail(t)
  ELSE TrEvent([t EXCEPT !.noted = @ \cup {f}, !.updates = @ + 1], "TurnDelta")

CursorIngest(t, f) ==
  LET u == [t EXCEPT !.frames = @ + 1]
  IN  CASE t.phase \in {"Terminal", "Poisoned"} -> TrFail(t)
        [] t.frames >= TrFrames \/ f.flaw \in {"boundary", "notStrict", "jsonrpc"} -> TrFail(u)
        [] f.t = "response" -> CursorResponse(u, f)
        [] OTHER -> CursorNotification(u, f)

-----------------------------------------------------------------------------
(* Antigravity: one argv, one line, and no outcome survives an error. *)

AgyNew(t, flaw) ==
  IF flaw \in {"ids", "cwd", "runtime", "prompt", "gateIds"} THEN TrRefuse(t)
  ELSE [t EXCEPT !.phase = "New"]

AgyTurnArgv(t, arg) ==
  IF t.phase # "New" \/ arg # "good" THEN TrVoid(t) ELSE [t EXCEPT !.phase = "AwaitResult"]

AgyCancel(t) == TrVoid(t)

AgyIngest(t, f) ==
  IF \/ t.phase # "AwaitResult" \/ f.flaw \in {"boundary", "notStrict", "fields"}
     \/ ~SoundProposal(f)
  THEN TrVoid(t)
  ELSE TrEvent([t EXCEPT !.outcome = "Proposal", !.phase = "Terminal"], "TurnCompleted")

-----------------------------------------------------------------------------
(* What a provider may send, and what a caller may ask. *)

GoodOr(flaws) == {"none"} \cup flaws

\* What can be wrong with the answer to a request.
AnswerFlaws(request) ==
  FrameFlaws \cup
    (CASE request = "initialize" -> {"initialize"}
       [] request = "thread/start" -> ThreadFlaws \cup SubjectFlaws
       [] request = "turn/start" -> TurnFlaws
       [] request = "turn/interrupt" -> {"acknowledgement"}
       [] request = "acp initialize" -> AgentFlaws \cup CapabilityFlaws
       [] request = "authenticate" -> {"fields"}
       [] request = "session/new" -> BindingFlaws \cup {"fields", "nativeId"}
       [] request = "session/prompt" -> BindingFlaws \cup ProposalFlaws \cup {"fields", "stopReason"}
       [] request = "none" -> {})

CodexFrames(request) ==
  [t : {"response"}, id : 1..5, about : TrIds, flaw : {"none"}]
  \cup [t : {"response"}, id : 1..4, about : {1}, flaw : AnswerFlaws(request)]
  \cup [t : {"thread/started"}, about : TrIds, flaw : GoodOr(ThreadFlaws \cup {"nativeId"})]
  \cup [t : {"turn/started"}, thread : {1}, about : TrIds, flaw : {"none"}]
  \cup [t : {"turn/started"}, thread : TrIds, about : {1}, flaw : TurnFlaws]
  \cup [t : {"item/started", "item/completed"}, thread : {1}, turn : {1}, item : {1},
        kind : {"agentMessage", "fileChange"}, at : 1..2, flaw : {"none"}]
  \cup [t : {"item/started", "item/completed"}, thread : {1}, turn : {1}, item : {2},
        kind : ItemKinds, at : {1}, flaw : {"none"}]
  \cup [t : {"item/started", "item/completed"}, thread : TrIds, turn : TrIds, item : {1},
        kind : {"agentMessage"}, at : {1}, flaw : ItemFlaws]
  \cup [t : {"item/completed"}, thread : TrIds, turn : TrIds, item : {1},
        kind : {"agentMessage"}, at : {1}, flaw : {"none", "text"}]
  \cup [t : {"delta"}, thread : {1}, turn : TrIds, item : {1},
        kind : {"agentMessage", "reasoning"}, flaw : {"none"}]
  \cup [t : {"turn/completed"}, thread : {1}, about : TrIds,
        status : {"completed"}, named : SUBSET TrIds, flaw : {"none"}]
  \cup [t : {"turn/completed"}, thread : TrIds, about : {1},
        status : {"interrupted", "failed"}, named : {{}}, flaw : {"none"}]
  \cup [t : {"turn/completed"}, thread : TrIds, about : {1}, status : {"completed"}, named : {{1}},
        flaw : ProposalFlaws \cup {"turnSubject", "itemKind", "itemText", "itemRepeated"}]

CursorFrames(request) ==
  [t : {"response"}, id : 1..5, about : TrIds, flaw : {"none"}]
  \cup [t : {"response"}, id : 1..4, about : {1},
        flaw : AnswerFlaws(request) \ {"serverRequest"}]
  \cup [t : {"session/update"}, thread : TrIds, n : 1..2,
        flaw : {"none", "fields", "method", "toolUpdate", "content"}]

AgyFrames == [t : {"result"}, flaw : GoodOr({"boundary", "notStrict", "fields"} \cup ProposalFlaws)]

BindFlaws == {"version", "subjectDigest", "gateIds", "ids", "cwd", "runtime", "prompt"}

Bound(t, flaw) ==
  CASE t.provider = "codex" -> CodexNew(t, flaw)
    [] t.provider = "cursor" -> CursorNew(t, flaw)
    [] t.provider = "agy" -> AgyNew(t, flaw)

Ingested(t, f) ==
  LET u == CASE t.provider = "codex" -> CodexIngest(t, f)
             [] t.provider = "cursor" -> CursorIngest(t, f)
             [] t.provider = "agy" -> AgyIngest(t, f)
  IN  IF u.ok THEN [u EXCEPT !.taken = @ \cup ({f.flaw} \ {"none"})] ELSE u

ProviderFrames(t) ==
  CASE t.provider = "codex" -> CodexFrames(t.pending.kind)
    [] t.provider = "cursor" -> CursorFrames(t.pending.kind)
    [] t.provider = "agy" -> AgyFrames

\* The calls a client of the transcript may make, in any phase.
Asked(t) ==
  CASE t.provider = "codex" ->
         {CodexInitialize(t), CodexInitialized(t)}
         \cup {CodexThreadStart(t, a) : a \in {"good", "empty"}}
         \cup {CodexTurnStart(t, a) : a \in {"good", "otherCwd"}}
         \cup {CodexCancel(t, why) : why \in {"interrupt", "timeout"}}
    [] t.provider = "cursor" ->
         {CursorInitialize(t), CursorAuthenticate(t), CursorCancel(t)}
         \cup {CursorSessionNew(t, a) : a \in {"good", "empty"}}
         \cup {CursorPrompt(t, a) : a \in {"good", "empty"}}
    [] t.provider = "agy" -> {AgyTurnArgv(t, "good"), AgyTurnArgv(t, "oversize"), AgyCancel(t)}

-----------------------------------------------------------------------------
\* `ok` and `says` are what one call returns: nothing is kept of them.
Returned(t) == [t EXCEPT !.ok = TRUE, !.says = {}]

TrBind(flaw) ==
  /\ tr.phase = "Absent"
  /\ LET u == Bound(tr, flaw)
     IN  tr' = Returned(IF u.phase = "New" /\ u.live THEN CodexInitialize(u) ELSE u)

TrAsk ==
  /\ tr.phase # "Absent" /\ ~tr.live
  /\ tr' \in {Returned(u) : u \in Asked(tr)}

TrHear(f) ==
  /\ tr.phase # "Absent" /\ ~tr.live
  /\ tr' = Returned(Ingested(tr, f))
  /\ tr'.early <= TrEarly

\* A line reaches the driver until it is done; then the provider is left to
\* exit, and the outcome is read.
TrDrive(f) ==
  /\ tr.phase # "Absent" /\ tr.live /\ ~tr.done
  /\ tr' = Returned(CodexDrive(Ingested(tr, f)))

TrConclude ==
  /\ tr.live /\ tr.phase # "Absent" /\ tr.result = "none"
  /\ tr' = [tr EXCEPT !.done = TRUE,
                      !.result = IF tr.phase = "Terminal" /\ tr.outcome # "none"
                                 THEN "turn" ELSE "refused"]

TranscriptInit ==
  tr \in {NewTranscript("codex", TRUE), NewTranscript("codex", FALSE),
          NewTranscript("cursor", FALSE), NewTranscript("agy", FALSE)}

TranscriptNext ==
  \/ \E flaw \in GoodOr(BindFlaws) : TrBind(flaw)
  \/ TrAsk
  \/ \E f \in ProviderFrames(tr) : TrHear(f) \/ TrDrive(f)
  \/ TrConclude

-----------------------------------------------------------------------------
Readable(t) == t.phase = "Terminal" /\ t.outcome # "none"

\* A proposal can be read from a transcript only if every frame behind it
\* was flawless, both voices named the same thread and turn, every item was
\* closed around exactly one agent message, and nobody had asked for the
\* turn to stop; a stopped turn can be read only after it was asked for,
\* acknowledged and seen to end.  The turn closes once, and no delta comes
\* after it (harness-codex parse.rs, protocol.rs; harness-cursor; agy).
TranscriptIsSound ==
  /\ tr.phase = "Terminal" => Readable(tr) /\ tr.ends = 1
  /\ Readable(tr) => tr.taken = {}
  /\ Readable(tr) /\ tr.outcome = "Proposal" =>
       /\ tr.cancel = "no"
       /\ tr.provider = "codex" =>
            /\ tr.thread.said = tr.thread.heard /\ tr.turn.said = tr.turn.heard
            /\ \A i \in tr.items : i.done
            /\ {i.id : i \in {j \in tr.items : j.kind = "agentMessage"}} = {tr.final}
  /\ Readable(tr) /\ tr.outcome \in {"Interrupted", "TimedOut"} =>
       tr.acked /\ tr.ended /\ (tr.outcome = "TimedOut" <=> tr.cancel = "timeout")
  /\ tr.strays = 0 /\ tr.ends <= 1
  /\ tr.frames <= TrFrames + 1 /\ tr.updates <= TrUpdates /\ Cardinality(tr.items) <= TrItems
  /\ tr.result = "turn" => Readable(tr)

\* A transcript that was poisoned stays so, and an outcome once readable is
\* never another: at worst a late frame takes it away.
TranscriptIsFinal ==
  /\ tr.phase = "Poisoned" => tr'.phase = "Poisoned"
  /\ Readable(tr) => tr'.phase = "Poisoned" \/ (Readable(tr') /\ tr'.outcome = tr.outcome)

\* What every step of a transcript keeps.
TranscriptHolds == TranscriptIsSound' /\ TranscriptIsFinal
=============================================================================
