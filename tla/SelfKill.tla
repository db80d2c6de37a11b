------------------------------ MODULE SelfKill ------------------------------
(***************************************************************************)
(* The runner's heartbeat supervisor and its self-kill deadline            *)
(* (crates/runner/src/{heartbeat,clock}.rs) against the expiry of the      *)
(* lease the database keeps for it (sqlite/leases.rs).                     *)
(*                                                                         *)
(* Both clocks run at one rate and "now" is the time since the lease was   *)
(* committed, in any unit of time.  Requests and responses may be lost, a  *)
(* request may be delayed for as long as it takes and be processed after   *)
(* its caller has timed out, and a response by at most Latency.            *)
(***************************************************************************)
EXTENDS Integers

CONSTANTS
  Ttl,             \* the TTL of the grant
  Interval,        \* HeartbeatConfig.interval
  AcquireLatency,  \* bound: when the grant reaches the runner at the latest
  Latency,         \* bound: from a commit to its answer being acted upon
  Lag,             \* bound: how late the runtime may poll a timer
  Horizon          \* bound: last instant

ASSUME SelfKillConstants ==
  /\ Ttl \in Nat /\ Ttl >= 5 /\ Interval \in Nat \ {0}
  /\ AcquireLatency \in Nat /\ Latency \in Nat /\ Lag \in Nat /\ Horizon \in Nat

\* Bug: the deadline leaves no grace.
BudgetIsTtl == Ttl

\* SelfKillDeadline::new: (ttl / 5) * 4, in whole units of time.
Budget == (Ttl \div 5) * 4

\* Interval at most, and never more than half the budget.
Cadence == IF Interval <= Budget \div 2 THEN Interval ELSE Budget \div 2

VARIABLES
  now,       \* time since the acquisition committed
  expires,   \* expires_at of the lease row
  live,      \* the row exists: no sweep has reclaimed it
  phase,     \* the supervisor: acquiring, idle, calling or frozen
  deadline,  \* SelfKillDeadline.deadline
  tick,      \* idle: when the next tick is due; calling: when it fired
  request,   \* none, current, or old: sent by a call that has timed out
  reply      \* the server's answer to the current call, if it has one

vars == <<now, expires, live, phase, deadline, tick, request, reply>>

TypeOK ==
  /\ now \in Nat /\ expires \in Nat /\ deadline \in Nat /\ tick \in Nat
  /\ live \in BOOLEAN
  /\ phase \in {"acquiring", "idle", "calling", "frozen"}
  /\ request \in {"none", "current", "old"}
  /\ reply \in {"none", "ok", "stale", "error"}

Init ==
  /\ now = 0 /\ expires = Ttl /\ live = TRUE
  /\ phase = "acquiring" /\ deadline = 0 /\ tick = 0
  /\ request = "none" /\ reply = "none"

-----------------------------------------------------------------------------
(* The supervisor. *)

\* start_heartbeat and the first lines of heartbeat_loop.  The interval's
\* first tick is due at once.
StartHeartbeat ==
  /\ phase = "acquiring"
  /\ phase' = "idle" /\ deadline' = now + Budget /\ tick' = now
  /\ UNCHANGED <<now, expires, live, request, reply>>

\* ticker.tick: freeze when the deadline has passed, else call the server.
TickFires ==
  /\ phase = "idle" /\ now >= tick
  /\ IF now >= deadline
     THEN phase' = "frozen" /\ UNCHANGED <<tick, request, reply>>
     ELSE phase' = "calling" /\ tick' = now /\ request' = "current" /\ reply' = "none"
  /\ UNCHANGED <<now, expires, live, deadline>>

\* Bug: the period is subtracted.
NextTickBackwards == tick - Cadence

\* The next tick is due one period after the last one fired
\* (MissedTickBehavior::Delay), or now when that has passed.
NextTick == IF tick + Cadence >= now THEN tick + Cadence ELSE now

\* An answer arrives in time: renew, freeze, or let the deadline close.
Answered ==
  /\ phase = "calling" /\ reply # "none"
  /\ phase' = IF reply = "stale" THEN "frozen" ELSE "idle"
  /\ deadline' = IF reply = "ok" THEN now + Budget ELSE deadline
  /\ tick' = NextTick
  /\ reply' = "none"
  /\ UNCHANGED <<now, expires, live, request>>

\* tokio::time::timeout(cadence, ..) elapses; the request may still be
\* under way, its answer is dropped.
TimedOut ==
  /\ phase = "calling" /\ now >= tick + Cadence
  /\ phase' = "idle" /\ tick' = NextTick /\ reply' = "none"
  /\ request' = IF request = "current" THEN "old" ELSE request
  /\ UNCHANGED <<now, expires, live, deadline>>

-----------------------------------------------------------------------------
(* The server and the network. *)

\* heartbeat_on: renew a row whose window is open, match zero rows otherwise.
ServerHeartbeat ==
  /\ request # "none"
  /\ request' = "none"
  /\ IF live /\ now < expires
     THEN expires' = now + Ttl /\ reply' = IF request = "current" THEN "ok" ELSE reply
     ELSE expires' = expires /\ reply' = IF request = "current" THEN "stale" ELSE reply
  /\ UNCHANGED <<now, live, phase, deadline, tick>>

\* The request is lost; the client may or may not see an error.
RequestLost ==
  /\ request # "none"
  /\ request' = "none"
  /\ reply' \in IF request = "current" THEN {reply, "error"} ELSE {reply}
  /\ UNCHANGED <<now, expires, live, phase, deadline, tick>>

\* The answer is lost.
AnswerLost ==
  /\ reply \in {"ok", "stale"}
  /\ reply' \in {"none", "error"}
  /\ UNCHANGED <<now, expires, live, phase, deadline, tick, request>>

\* expire_leases, or a rival's acquire_on: a successor may now be granted.
Reclaim ==
  /\ live /\ expires <= now
  /\ live' = FALSE
  /\ UNCHANGED <<now, expires, phase, deadline, tick, request, reply>>

\* Time passes while no timer of the runner is more than Lag overdue and no
\* answer more than Latency under way.
Time ==
  /\ now < Horizon
  /\ phase = "acquiring" => now < AcquireLatency
  /\ phase = "idle" => now < tick + Lag
  /\ phase = "calling" => now < tick + Cadence + Lag
  /\ reply = "ok" => now < expires - Ttl + Latency
  /\ now' = now + 1
  /\ UNCHANGED <<expires, live, phase, deadline, tick, request, reply>>

Next ==
  \/ StartHeartbeat \/ TickFires \/ Answered \/ TimedOut
  \/ ServerHeartbeat \/ RequestLost \/ AnswerLost \/ Reclaim \/ Time

Spec == Init /\ [][Next]_vars

-----------------------------------------------------------------------------
(* Properties. *)

\* A supervised runner freezes within one cadence of its local deadline,
\* whatever the network does.
FreezesByDeadline ==
  phase \in {"idle", "calling"} => now < deadline + Cadence + 2 * Lag

\* Fencing by time: when the database lets a successor in, the runner it
\* replaces is already frozen.
FrozenBeforeReclaim == ~ live => phase = "frozen"

\* The self-kill of heartbeat.rs works: the runner freezes by its own deadline
\* and before any successor is let in.
FreezesInTime == FreezesByDeadline /\ FrozenBeforeReclaim

\* The timing under which the self-kill is safe: the grace the budget leaves
\* must cover the latency of an answer and the granularity of the ticks.  With
\* the default interval of 2 s (heartbeat.rs:24) and the longest TTL of 15 s
\* (records.rs:10) the grace is 3 s, and one second of it is left for Latency
\* and 2 * Lag together; with a TTL of 10 s or less nothing is left.
Timely ==
  /\ Latency + Cadence + 2 * Lag <= Ttl - Budget
  /\ AcquireLatency + Cadence + 2 * Lag <= Ttl - Budget

\* "a local monotonic deadline strictly SHORTER than the server lease expiry"
DeadlineBeforeExpiry ==
  phase \in {"idle", "calling"} => deadline < expires
=============================================================================
