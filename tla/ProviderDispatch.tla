-------------------------- MODULE ProviderDispatch --------------------------
(***************************************************************************)
(* One provider child under supervision: the bounded capture and the       *)
(* bounded exchange of harness-core/src/live/dispatch (supervision.rs,     *)
(* streams.rs), and the asynchronous runner of spawnrun.rs.  The child, a  *)
(* descendant in its process group, and a descendant that left the group   *)
(* and still holds the pipes are processes of their own; so are the reader *)
(* and the writer thread and whoever raises the stop signal.  A kill of    *)
(* the group is taken to reach every member of it, and no one else.        *)
(***************************************************************************)
EXTENDS Integers, Sequences, FiniteSets

LOCAL INSTANCE SequencesExt

CONSTANTS
  DpLines,      \* bound: the lines a child prints; the limit is one less
  DpQueue       \* WRITE_QUEUE_DEPTH

ASSUME DispatchBounds == {DpLines, DpQueue} \subseteq Nat \ {0}

VARIABLE dp

DpModes == {"capture", "interactive", "async"}
DpSignals == {"Cancelled", "HeartbeatFailed"}
DpLimit == DpLines - 1                 \* MAX_INTERACTIVE_LINES
DpLineKinds(mode) ==                   \* what tells one line from another
  CASE mode = "interactive" -> {"ask", "final", "canary", "refused", "unreadable"}
    [] mode = "capture" -> {"ask", "canary", "unreadable"}
    [] OTHER -> {"ask", "unreadable"}

NewDispatch(mode) ==
  [mode |-> mode, pc |-> "idle", signal |-> "none", spawned |-> FALSE,
   leader |-> "none", member |-> FALSE, stray |-> FALSE,
   printed |-> <<>>, read |-> 0, chan |-> <<>>, reader |-> "off",
   queue |-> 0, writer |-> "off", closed |-> FALSE,
   wall |-> FALSE, drain |-> FALSE, slot |-> FALSE,
   lines |-> <<>>, exit |-> FALSE, done |-> FALSE, stop |-> "none", error |-> FALSE,
   result |-> "none"]

\* Everyone who can keep a pipe open, and everyone a group kill reaches.
PipeHeld(d) == d.leader = "alive" \/ d.member \/ d.stray
GroupKilled(d) ==
  [d EXCEPT !.member = FALSE, !.leader = IF @ = "alive" THEN "dead" ELSE @]

-----------------------------------------------------------------------------
(* The child and those around it. *)

\* Bound: the pipe holds one line the reader has not taken.
DpPrint(kind) ==
  /\ dp.leader = "alive" /\ Len(dp.printed) < DpLines /\ dp.read = Len(dp.printed)
  /\ dp' = [dp EXCEPT !.printed = Append(@, kind)]

\* One descendant is enough: in the group, or outside it with the pipes.
DpFork ==
  /\ dp.leader = "alive" /\ ~dp.member /\ ~dp.stray
  /\ \/ dp' = [dp EXCEPT !.member = TRUE]
     \/ dp' = [dp EXCEPT !.stray = TRUE]

DpChildExits ==
  /\ dp.leader = "alive"
  /\ dp' = [dp EXCEPT !.leader = "dead"]

\* DispatchSignal, SupervisionSignal: the first request stands.
DpTrigger(why) ==
  /\ dp.pc # "returned"
  /\ dp' = IF dp.signal = "none" THEN [dp EXCEPT !.signal = why] ELSE dp

\* The wall clock passes the invocation's timeout, or a drain its two seconds.
DpWallElapses ==
  /\ dp.spawned /\ ~dp.wall /\ dp.pc \in {"wait", "poll", "decide", "receive"}
  /\ dp' = [dp EXCEPT !.wall = TRUE]

DpDrainElapses ==
  /\ ~dp.drain /\ dp.pc # "returned" /\ (dp.exit \/ dp.pc \in {"finish", "join"})
  /\ dp' = [dp EXCEPT !.drain = TRUE]

-----------------------------------------------------------------------------
(* The threads at the pipes. *)

\* read_lines keeps what it reads; the interactive reader hands each line
\* over a channel of one; a line that cannot be decoded, or end of file, is
\* the last thing either says.
DpRead ==
  /\ dp.reader = "reading" /\ dp.read < Len(dp.printed)
  /\ LET line == dp.printed[dp.read + 1]
         more == [dp EXCEPT !.read = @ + 1]
     IN  dp' = CASE line = "unreadable" /\ dp.mode # "interactive" -> [more EXCEPT !.reader = "failed"]
                 [] dp.mode = "capture" /\ Len(dp.lines) >= DpLimit -> [more EXCEPT !.reader = "failed"]
                 [] dp.mode # "interactive" -> [more EXCEPT !.lines = Append(@, line)]
                 [] dp.closed -> [more EXCEPT !.reader = "ended"]
                 [] OTHER -> [more EXCEPT !.chan = Append(@, line),
                                          !.reader = IF line = "unreadable" THEN "ended" ELSE @]
  /\ dp.mode = "interactive" => dp.closed \/ dp.chan = <<>>

DpReadEof ==
  /\ dp.reader = "reading" /\ dp.read = Len(dp.printed) /\ ~PipeHeld(dp)
  /\ dp.mode = "interactive" => dp.closed \/ dp.chan = <<>>
  /\ dp' = [dp EXCEPT !.reader = "ended",
                      !.chan = IF dp.mode = "interactive" /\ ~dp.closed THEN Append(@, "eof") ELSE @]

\* The child may leave its input unread for ever; once it is gone a write
\* fails.
DpWrite ==
  /\ dp.writer \in {"open", "closing"} /\ dp.queue > 0
  /\ \/ PipeHeld(dp) /\ dp' = [dp EXCEPT !.queue = @ - 1]
     \/ ~PipeHeld(dp) /\ dp' = [dp EXCEPT !.writer = "failed"]

-----------------------------------------------------------------------------
(* Before there is a child. *)

\* prepare looks at the signal before the factory runs and after.
DpPrepare(factoryRefuses) ==
  /\ dp.pc = "idle" /\ dp.mode # "async"
  /\ dp' = IF dp.signal # "none" THEN [dp EXCEPT !.pc = "returned", !.stop = dp.signal, !.result = "stopped"]
           ELSE IF factoryRefuses THEN [dp EXCEPT !.pc = "returned", !.result = "error"]
           ELSE [dp EXCEPT !.pc = "prepared"]

DpSpawn(fails) ==
  /\ dp.pc = IF dp.mode = "async" THEN "idle" ELSE "prepared"
  /\ dp' = CASE dp.mode # "async" /\ dp.signal # "none" ->
                  [dp EXCEPT !.pc = "returned", !.stop = dp.signal, !.result = "stopped"]
             [] fails -> [dp EXCEPT !.pc = "returned", !.result = "error"]
             [] OTHER ->
                  [dp EXCEPT !.spawned = TRUE, !.leader = "alive", !.reader = "reading",
                             !.pc = IF dp.mode = "interactive" THEN "poll" ELSE "wait",
                             !.writer = IF dp.mode = "interactive" THEN "open" ELSE "off",
                             !.queue = IF dp.mode = "interactive" THEN 1 ELSE 0,
                             !.slot = dp.mode = "async"]

-----------------------------------------------------------------------------
(* GuardedChild. *)

FinishExited(d) == [GroupKilled(d) EXCEPT !.leader = "reaped"]
\* A mutant: only the direct child is killed.
TerminatedAlone(d) == [d EXCEPT !.leader = "reaped"]
Terminated(d) == [GroupKilled(d) EXCEPT !.leader = "reaped"]

\* wait_until_stop: exit, then the signal, then the clock.
DpWaitUntilStop ==
  /\ dp.pc = "wait" /\ dp.mode = "capture"
  /\ \/ /\ dp.leader = "dead"
        /\ dp' = [FinishExited(dp) EXCEPT !.stop = "Exited", !.exit = TRUE, !.pc = "finish"]
     \/ /\ dp.leader = "alive" /\ dp.signal # "none"
        /\ dp' = [Terminated(dp) EXCEPT !.stop = dp.signal, !.pc = "finish"]
     \/ /\ dp.leader = "alive" /\ dp.signal = "none" /\ dp.wall
        /\ dp' = [Terminated(dp) EXCEPT !.stop = "TimedOut", !.pc = "finish"]

\* A failed wait drops the guard, and dropping it terminates.
DpWaitFails ==
  /\ dp.pc \in {"wait", "poll"} /\ dp.mode # "async" /\ ~dp.exit
  /\ dp' = [Terminated(dp) EXCEPT !.pc = "returned", !.result = "error"]

\* Both readers are given two seconds, and every line is inspected.
DpFinishCapture ==
  /\ dp.pc = "finish" /\ dp.mode = "capture"
  /\ \/ dp.reader \in {"ended", "failed"} /\ (dp.drain \/ ~PipeHeld(dp))
     \/ dp.reader = "reading" /\ dp.drain
  /\ dp' = [dp EXCEPT !.pc = "returned",
                      !.result = IF \/ dp.reader # "ended" \/ PipeHeld(dp)
                                    \/ \E i \in 1..Len(dp.lines) : dp.lines[i] = "canary"
                                 THEN "error" ELSE "capture"]

-----------------------------------------------------------------------------
(* The exchange: poll, then decide, then take one line. *)

\* Closing drops the sender; the thread writes out what was queued.
WriterClosed(d) == [d EXCEPT !.writer = IF @ = "open" THEN "closing" ELSE @]
WriterDone(d) == d.writer = "failed" \/ d.queue = 0

DpPoll ==
  /\ dp.pc = "poll"
  /\ dp' = IF dp.writer = "failed" THEN [dp EXCEPT !.error = TRUE, !.pc = "close"]
           ELSE LET d == IF ~dp.exit /\ dp.leader = "dead"
                         THEN [WriterClosed(FinishExited(dp)) EXCEPT !.exit = TRUE]
                         ELSE dp
                IN  [d EXCEPT !.pc = IF d.exit /\ d.done THEN "close" ELSE "decide"]

DpDecide ==
  /\ dp.pc = "decide"
  /\ dp' = CASE ~dp.exit /\ dp.signal # "none" -> [dp EXCEPT !.stop = dp.signal, !.pc = "close"]
             [] ~dp.exit /\ dp.signal = "none" /\ dp.wall -> [dp EXCEPT !.stop = "TimedOut", !.pc = "close"]
             [] dp.exit /\ dp.drain -> [dp EXCEPT !.error = TRUE, !.pc = "close"]
             [] dp.done -> [dp EXCEPT !.pc = "poll"]
             [] Len(dp.lines) >= DpLimit -> [dp EXCEPT !.error = TRUE, !.pc = "close"]
             [] OTHER -> [dp EXCEPT !.pc = "receive"]

\* queue_frames: a full queue, or a writer already closed, is an error.
QueueFrames(d) ==
  IF d.writer # "open" \/ d.queue >= DpQueue THEN [d EXCEPT !.error = TRUE, !.pc = "close"]
  ELSE [d EXCEPT !.queue = @ + 1]

\* A line is inspected, kept, and only then shown to the handler.
DpLineTaken(d, line) ==
  CASE line = "canary" -> [d EXCEPT !.error = TRUE, !.pc = "close"]
    [] line = "unreadable" -> [d EXCEPT !.error = TRUE, !.pc = "close"]
    [] line = "eof" -> [WriterClosed(d) EXCEPT !.done = TRUE]
    [] OTHER ->
         LET kept == [d EXCEPT !.lines = Append(@, line)]
         IN  CASE line = "refused" -> [kept EXCEPT !.error = TRUE, !.pc = "close"]
               [] line = "ask" -> QueueFrames(kept)
               [] line = "final" -> [WriterClosed(kept) EXCEPT !.done = TRUE]
               [] OTHER -> kept

DpReceive ==
  /\ dp.pc = "receive"
  /\ \/ /\ dp.chan # <<>>
        /\ dp' = DpLineTaken([dp EXCEPT !.chan = <<>>, !.pc = "poll"], Head(dp.chan))
     \/ /\ dp.chan = <<>>                                    \* recv_timeout
        /\ dp' = [dp EXCEPT !.pc = "poll"]

\* After the loop: the writer is closed, the child is certainly ended, and
\* the receiver is dropped.
DpClose ==
  /\ dp.pc = "close"
  /\ LET d == WriterClosed(IF dp.exit THEN dp ELSE Terminated(dp))
     IN  dp' = [d EXCEPT !.pc = "finish", !.closed = TRUE, !.chan = <<>>, !.drain = FALSE,
                         !.stop = IF dp.exit \/ @ = "none" THEN "Exited" ELSE @]

DpFinishInteractive ==
  /\ dp.pc = "finish" /\ dp.mode = "interactive"
  /\ dp.drain \/ (dp.reader # "reading" /\ ~PipeHeld(dp) /\ WriterDone(dp))
  /\ dp' = [dp EXCEPT !.pc = "returned",
                      !.result = IF \/ dp.error \/ dp.reader = "reading" \/ PipeHeld(dp)
                                    \/ dp.stop = "Exited" /\ (dp.writer = "failed" \/ dp.queue > 0)
                                 THEN "error" ELSE "capture"]

-----------------------------------------------------------------------------
(* The asynchronous runner: whichever of the three is ready. *)

DpSelect ==
  /\ dp.pc = "wait" /\ dp.mode = "async"
  /\ \/ /\ dp.leader = "dead"
        /\ dp' = [dp EXCEPT !.leader = "reaped", !.stop = "Exited", !.exit = TRUE, !.pc = "kill"]
     \/ /\ dp.wall
        /\ dp' = [dp EXCEPT !.stop = "TimedOut", !.pc = "kill"]
     \/ /\ dp.signal # "none"
        /\ dp' = [dp EXCEPT !.stop = dp.signal, !.pc = "kill"]

DpKill ==
  /\ dp.pc = "kill"
  /\ dp' = [Terminated(dp) EXCEPT !.slot = FALSE, !.pc = "join", !.drain = FALSE]

\* The readers are joined, or aborted after two seconds: then the lines are
\* whatever had been read.
DpJoin ==
  /\ dp.pc = "join"
  /\ dp.drain \/ (dp.reader # "reading" /\ ~PipeHeld(dp))
  /\ dp' = [dp EXCEPT !.pc = "returned", !.result = "capture",
                      !.reader = IF @ = "reading" THEN "aborted" ELSE @]

\* kill_live_process: whoever holds the slot may end the child.
DpKillLive ==
  /\ dp.slot
  /\ dp' = [GroupKilled(dp) EXCEPT !.slot = FALSE]

-----------------------------------------------------------------------------
DispatchInit == dp \in {NewDispatch(mode) : mode \in DpModes}

DispatchNext ==
  \/ \E kind \in DpLineKinds(dp.mode) : DpPrint(kind)
  \/ DpFork \/ DpChildExits
  \/ \E why \in DpSignals : DpTrigger(why)
  \/ DpWallElapses \/ DpDrainElapses
  \/ DpRead \/ DpReadEof \/ DpWrite
  \/ \E refuses \in BOOLEAN : DpPrepare(refuses) \/ DpSpawn(refuses)
  \/ DpWaitUntilStop \/ DpWaitFails \/ DpFinishCapture
  \/ DpPoll \/ DpDecide \/ DpReceive \/ DpClose \/ DpFinishInteractive
  \/ DpSelect \/ DpKill \/ DpJoin \/ DpKillLive

DpSupervisor ==
  \/ \E refuses \in BOOLEAN : DpPrepare(refuses) \/ DpSpawn(refuses)
  \/ DpWaitUntilStop \/ DpFinishCapture
  \/ DpPoll \/ DpDecide \/ DpReceive \/ DpClose \/ DpFinishInteractive
  \/ DpSelect \/ DpKill \/ DpJoin

\* The supervisor's own thread runs and clocks advance.  Of the child, of
\* its descendants, of the pipe threads and of the signal nothing is assumed.
DispatchFairness ==
  /\ WF_dp(DpSupervisor)
  /\ WF_dp(DpWallElapses) /\ WF_dp(DpDrainElapses)

-----------------------------------------------------------------------------
\* When a dispatch returns its child is reaped and its process group is
\* gone, on every path, errors and spawn races included (supervision.rs:226-
\* 230 "Every post-spawn error first kills the exact process group and reaps
\* the direct child"); the stop it reports really happened and is the first
\* signal raised; what it returns is what the child printed, in order, never
\* a line with a secret in it, and a turn that ended by itself is complete.
DispatchIsContained ==
  /\ dp.pc = "returned" =>
       /\ dp.leader \in {"none", "reaped"} /\ ~dp.member /\ ~dp.slot
       /\ dp.stop = "TimedOut" => dp.wall
       /\ dp.stop \in DpSignals => dp.stop = dp.signal
       /\ dp.result = "stopped" => ~dp.spawned
  /\ dp.result = "capture" =>
       /\ dp.lines = SubSeq(dp.printed, 1, Len(dp.lines))
       /\ dp.mode # "async" =>
            /\ \A i \in 1..Len(dp.lines) : dp.lines[i] \notin {"canary", "unreadable"}
            /\ Len(dp.lines) <= DpLimit
       /\ dp.mode = "capture" => dp.lines = dp.printed
       /\ dp.mode = "interactive" =>
            /\ \A i \in 1..Len(dp.lines) : dp.lines[i] # "refused"
            /\ dp.stop = "Exited" => dp.done
  /\ dp.queue <= DpQueue

\* Every dispatch returns, whatever the child, its descendants and the
\* signal do: the wall clock and the two-second drains see to it.
DispatchReturns == <>(dp.pc = "returned")

-----------------------------------------------------------------------------
(***************************************************************************)
(* The simulated provider (harness-sim) over the parts every adapter of    *)
(* harness-core shares: the event normalizer (event.rs), the session store *)
(* (store.rs), the session state table (session.rs) and the invocation     *)
(* budget (argv.rs).  One session, called by several tasks at once.  Each  *)
(* event is stamped under the normalizer's lock and stored under the       *)
(* store's, so other tasks run in between; the long turn also awaits.      *)
(* An event is its kind: started, delta, closed (completed or failed),     *)
(* other, or the anomaly that replaces a refused one.                      *)
(***************************************************************************)
CONSTANTS
  SimTasks,      \* concurrent callers
  SimCalls,      \* bound: calls in all
  SimTicks,      \* bound: ticks of the long turn (200)
  SimBudget      \* max of the InvocationBudget

ASSUME SimBounds == {SimCalls, SimTicks, SimBudget} \subseteq Nat

VARIABLES
  smNorm,        \* the EventNormalizer
  smEntry,       \* the SessionEntry
  smUsed,        \* [used, granted, refused]: the budget and its answers
  smTask,        \* per task: what it still has to do
  smCalls

simVars == <<smNorm, smEntry, smUsed, smTask, smCalls>>

-----------------------------------------------------------------------------
(* The session states and their table (session.rs). *)

Exceptions ==
  {"AuthRequired", "Throttled", "ContextAtRisk", "Unresponsive", "ProtocolError",
   "ScreenUnknown", "ProcessUnknown", "PolicyBlocked", "Quarantined", "Crashed"}

MainStates ==
  {"Created", "Starting", "IdentityProbing", "ContextLoading", "Ready", "Running",
   "WaitingTool", "WaitingLocalPlan", "WaitingPermission", "Paused", "Checkpointing",
   "ContextTransition", "Resuming", "Completing", "Terminating", "Terminated"}

Transition ==
  LET waits == {"WaitingTool", "WaitingLocalPlan", "WaitingPermission", "Paused",
                "Checkpointing", "ContextTransition"}
  IN  ((MainStates \ {"Terminated"}) \X Exceptions)
      \cup {<<"Created", "Starting">>, <<"Created", "Resuming">>, <<"Starting", "IdentityProbing">>,
            <<"IdentityProbing", "ContextLoading">>, <<"ContextLoading", "Ready">>,
            <<"Resuming", "IdentityProbing">>, <<"Resuming", "Ready">>, <<"Ready", "Running">>,
            <<"ContextTransition", "Ready">>, <<"Running", "Ready">>, <<"Running", "Completing">>}
      \cup {<<"Running", w>> : w \in waits} \cup {<<w, "Running">> : w \in waits}
      \cup {<<s, "Terminating">> : s \in (MainStates \ {"Terminating", "Terminated"}) \cup Exceptions}
      \cup {<<"Terminating", "Terminated">>, <<"AuthRequired", "Starting">>, <<"Throttled", "Ready">>,
            <<"Throttled", "Running">>, <<"ContextAtRisk", "ContextTransition">>,
            <<"Unresponsive", "Running">>, <<"Unresponsive", "ProcessUnknown">>,
            <<"Unresponsive", "Crashed">>, <<"ScreenUnknown", "Running">>, <<"ScreenUnknown", "Crashed">>,
            <<"ProcessUnknown", "Crashed">>, <<"ProtocolError", "Quarantined">>,
            <<"PolicyBlocked", "Quarantined">>, <<"Crashed", "Resuming">>}

-----------------------------------------------------------------------------
(* The normalizer. *)

Plain(kind) == [kind |-> kind, id |-> 0, native |-> 0]
Native(kind, id, native) == [kind |-> kind, id |-> id, native |-> native]

NewNormalizer == [next |-> 0, seen |-> {}, last |-> 0, closed |-> FALSE, ended |-> FALSE, late |-> FALSE]

\* Stamps the next sequence number.  ended and late are history: whether the
\* last turn event stamped was an end, and whether a delta ever followed one.
Envelope(n, kind) ==
  [n EXCEPT !.next = @ + 1,
            !.ended = IF kind = "started" THEN FALSE ELSE IF kind = "closed" THEN TRUE ELSE @,
            !.late = @ \/ (kind = "delta" /\ n.ended)]

Accept(n, line) ==
  LET fresh == [n EXCEPT !.seen = IF line.id = 0 THEN @ ELSE @ \cup {line.id}]
      ordered == [fresh EXCEPT !.last = IF line.native = 0 THEN @ ELSE line.native]
      opened == [ordered EXCEPT !.closed = IF line.kind = "started" THEN FALSE
                                           ELSE IF line.kind = "closed" THEN TRUE ELSE @]
  IN  CASE line.kind = "malformed" -> Envelope(n, "anomaly")
        [] line.id # 0 /\ line.id \in n.seen -> Envelope(n, "anomaly")
        [] line.native # 0 /\ line.native <= n.last -> Envelope(fresh, "anomaly")
        [] line.kind = "delta" /\ n.closed -> Envelope(ordered, "anomaly")
        [] OTHER -> Envelope(opened, line.kind)

AcceptAll(n, lines) == FoldLeft(Accept, n, lines)

-----------------------------------------------------------------------------
(* The scripts (scenario.rs), by what the normalizer can tell apart. *)

Scripts ==
  LET started == Plain("started")
      other == Plain("other")
      delta == Plain("delta")
      closing == <<other, Plain("closed")>>       \* usage.reported, turn.completed
  IN  {<<started, delta>> \o closing,                                \* Streaming, ToolCall, UsageEvents
       <<started, other>>,                                           \* PermissionPrompt, AuthExpiry
       <<started, delta, Plain("closed")>>,                          \* ProcessCrash, Refusal, ContextLimit
       <<started>> \o closing \o <<delta>>,                          \* DelayedStaleEvent
       <<Native("started", 1, 1), Native("delta", 2, 2), Native("delta", 2, 3),
         Native("delta", 3, 2), Plain("malformed"), Native("delta", 4, 4)>> \o closing}  \* EventAnomalies

-----------------------------------------------------------------------------
(* What a call does, as the lock-long steps it takes. *)

Do(op, lines) == [op |-> op, lines |-> lines]
Emit(kind) == Do("accept", <<Plain(kind)>>)

NewEntry == [state |-> "Created", interrupted |-> FALSE, events |-> {}, count |-> 0, invocations |-> 0]
IdleTask == [todo |-> <<>>, holds |-> <<>>, tick |-> 0, after |-> 0]

\* start walks the table to Ready, then emits three events; nobody else has
\* the handle yet.
SimStart ==
  /\ smEntry.state = "Created" /\ smCalls > 0
  /\ \A edge \in {<<"Created", "Starting">>, <<"Starting", "IdentityProbing">>,
                  <<"IdentityProbing", "ContextLoading">>, <<"ContextLoading", "Ready">>} :
        edge \in Transition
  /\ smEntry' = [smEntry EXCEPT !.state = "Ready", !.events = 0..2, !.count = 3]
  /\ smNorm' = AcceptAll(smNorm, <<Plain("other"), Plain("other"), Plain("other")>>)
  /\ UNCHANGED <<smUsed, smTask, smCalls>>

Called(t, steps) ==
  /\ smEntry.state # "Created" /\ smCalls > 0 /\ smTask[t].todo = <<>>
  /\ smTask' = [smTask EXCEPT ![t] = [IdleTask EXCEPT !.todo = steps]]
  /\ smCalls' = smCalls - 1
  /\ UNCHANGED <<smNorm, smEntry, smUsed>>

SimSend(t) == \E script \in Scripts : Called(t, <<Do("acquire", <<>>), Do("count", <<>>), Do("accept", script)>>)
SimLongTurn(t) == Called(t, <<Do("acquire", <<>>), Do("count", <<>>), Emit("started"), Do("tick", <<>>)>>)
\* resume, steer, compact and checkpoint emit one event each.
SimEmitOne(t) == Called(t, <<Emit("other")>>)
CloseWaitingTurn(t) ==
  \/ Called(t, <<Emit("other"), Emit("closed")>>)
  \/ Called(t, <<Emit("closed")>>)
SimInterrupt(t) == Called(t, <<Do("flag", <<>>), Emit("other")>>)
SimTerminate(t) == Called(t, <<Do("flag", <<>>), Do("end", <<>>), Emit("other")>>)

-----------------------------------------------------------------------------
Doing(t, op) == smTask[t].todo # <<>> /\ Head(smTask[t].todo).op = op
Rest(t) == Tail(smTask[t].todo)

\* fetch_add, and when that was too many, fetch_sub and a refusal.
TryAcquire(t) ==
  /\ Doing(t, "acquire")
  /\ smUsed' = [smUsed EXCEPT !.used = @ + 1, !.granted = IF smUsed.used < SimBudget THEN @ + 1 ELSE @]
  /\ smTask' = [smTask EXCEPT ![t].todo = IF smUsed.used < SimBudget THEN Rest(t) ELSE <<Do("release", <<>>)>>]
  /\ UNCHANGED <<smNorm, smEntry, smCalls>>

ReleaseOvershoot(t) ==
  /\ Doing(t, "release")
  /\ smUsed' = [smUsed EXCEPT !.used = @ - 1, !.refused = @ + 1]
  /\ smTask' = [smTask EXCEPT ![t].todo = Rest(t)]
  /\ UNCHANGED <<smNorm, smEntry, smCalls>>

WithEntry(t) ==
  /\ \E op \in {"count", "flag", "end"} :
       /\ Doing(t, op)
       /\ smEntry' = CASE op = "count" -> [smEntry EXCEPT !.invocations = @ + 1]
                       [] op = "flag" -> [smEntry EXCEPT !.interrupted = TRUE]
                       [] op = "end" -> [smEntry EXCEPT !.state = "Terminated"]
  /\ smTask' = [smTask EXCEPT ![t].todo = Rest(t)]
  /\ UNCHANGED <<smNorm, smUsed, smCalls>>

Stamped(t, lines, then, task) ==
  LET n == AcceptAll(smNorm, lines)
  IN  /\ smNorm' = n
      /\ smTask' = [smTask EXCEPT ![t] = [task EXCEPT
                       !.holds = [i \in 1..Len(lines) |-> smNorm.next + i - 1],
                       !.todo = <<Do("push", <<>>)>> \o then]]
      /\ UNCHANGED <<smEntry, smUsed, smCalls>>

SimAccept(t) == Doing(t, "accept") /\ Stamped(t, Head(smTask[t].todo).lines, Rest(t), smTask[t])

PushEvents(t) ==
  /\ Doing(t, "push")
  /\ smEntry' = [smEntry EXCEPT !.count = @ + Len(smTask[t].holds),
       !.events = @ \cup {smTask[t].holds[i] : i \in 1..Len(smTask[t].holds)}]
  /\ smTask' = [smTask EXCEPT ![t].todo = Rest(t), ![t].holds = <<>>]
  /\ UNCHANGED <<smNorm, smUsed, smCalls>>

\* Each tick first looks at the flag.  The look and the stamp are two lock
\* sections: "delta" is the tick that has looked.
LongTurnTick(t) ==
  /\ Doing(t, "tick")
  /\ smTask' = [smTask EXCEPT ![t].todo =
                  IF smTask[t].tick = SimTicks THEN <<Emit("closed")>>
                  ELSE IF smEntry.interrupted THEN <<Emit("other")>>
                  ELSE <<Do("delta", <<>>)>>]
  /\ UNCHANGED <<smNorm, smEntry, smUsed, smCalls>>

LongTurnDelta(t) ==
  /\ Doing(t, "delta")
  /\ Stamped(t, <<Plain("delta")>>, <<Do("tick", <<>>)>>,
             [smTask[t] EXCEPT !.tick = @ + 1, !.after = IF smEntry.interrupted THEN @ + 1 ELSE @])

-----------------------------------------------------------------------------
SimInit ==
  /\ smNorm = NewNormalizer
  /\ smEntry = NewEntry
  /\ smUsed = [used |-> 0, granted |-> 0, refused |-> 0]
  /\ smTask = [t \in SimTasks |-> IdleTask]
  /\ smCalls = SimCalls

SimNext ==
  \/ SimStart
  \/ \E t \in SimTasks :
    \/ SimSend(t) \/ SimLongTurn(t) \/ SimEmitOne(t) \/ CloseWaitingTurn(t)
    \/ SimInterrupt(t) \/ SimTerminate(t)
    \/ TryAcquire(t) \/ ReleaseOvershoot(t) \/ WithEntry(t)
    \/ SimAccept(t) \/ PushEvents(t) \/ LongTurnTick(t) \/ LongTurnDelta(t)

-----------------------------------------------------------------------------
\* However the callers interleave, every stamped event is stored once or is
\* still in the hands of the task that will store it, and no delta was
\* stamped between the end of a turn and the start of the next; an
\* interrupted long turn prints at most the delta it was already at; the
\* budget grants exactly its maximum and a refusal means it was spent; and
\* from every session state but Terminated the table leads on to Terminated.
SimStreamIsWhole ==
  LET held == UNION {{smTask[t].holds[i] : i \in 1..Len(smTask[t].holds)} : t \in SimTasks}
      stored == smEntry.events
  IN  /\ held \cap stored = {} /\ held \cup stored = 0..(smNorm.next - 1)
      /\ smEntry.count = Cardinality(stored)
      /\ ~smNorm.late
      /\ \A t \in SimTasks : smTask[t].after <= 1
      /\ smUsed.granted <= SimBudget
      /\ smUsed.refused > 0 => smUsed.granted = SimBudget
      /\ smEntry.invocations <= smUsed.granted

\* Reach(S) after enough rounds: the states from which S can be reached.
ReachEnds ==
  LET back[n \in Nat] == IF n = 0 THEN {"Terminated"}
                         ELSE back[n - 1] \cup {e[1] : e \in {e \in Transition : e[2] \in back[n - 1]}}
  IN  back[3]
SessionTableEnds ==
  /\ ReachEnds = MainStates \cup Exceptions
  /\ \A e \in Transition : e[1] # "Terminated" /\ (e[2] = "Terminated" => e[1] = "Terminating")
=============================================================================
