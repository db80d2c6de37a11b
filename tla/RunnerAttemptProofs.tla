------------------------ MODULE RunnerAttemptProofs ------------------------
(***************************************************************************)
(* Proofs about the runner. The self-kill deadline is safe for every TTL,  *)
(* interval, latency and scheduling lag that satisfy Timely. For every     *)
(* number of gates and of repair rounds: what a Candidate is made of, and  *)
(* what a success rests on.                                                *)
(***************************************************************************)
EXTENDS SelfKill, RunnerAttempt, TLAPS
-----------------------------------------------------------------------------
(* The supervisor of SelfKill.                                              *)


Supervised == phase \in {"idle", "calling"}

\* Where the supervisor's timers are, relative to its deadline.
Timers ==
  /\ phase = "idle" => /\ now <= tick + Lag
                       /\ tick < deadline + Cadence + Lag
  /\ phase = "calling" => /\ tick <= now /\ now <= tick + Cadence + Lag
                          /\ tick < deadline
  /\ Supervised => deadline <= now + Budget

\* Where the deadline is, relative to the expiry of the lease row.
Windows ==
  /\ expires <= now + Ttl
  /\ phase = "acquiring" => /\ now <= AcquireLatency /\ expires = Ttl
                            /\ request = "none" /\ reply = "none"
  /\ Supervised => deadline + Cadence + 2 * Lag <= expires
  /\ reply = "ok" => request = "none" /\ now + Ttl <= expires + Latency

\* FreezesByDeadline needs only the first two conjuncts.
LocalInv == TypeOK /\ Timers

GlobalInv == LocalInv /\ Windows /\ FrozenBeforeReclaim

\* The budget is four fifths of the TTL and at least four units; the cadence
\* is positive and at most half the budget.
LEMMA Arithmetic ==
  /\ Budget \in Nat /\ Budget >= 4 /\ Budget < Ttl
  /\ Cadence \in Nat /\ Cadence >= 1 /\ Ttl \in Nat
  /\ Lag \in Nat /\ AcquireLatency \in Nat /\ Latency \in Nat
<1>1. Ttl \div 5 \in Nat /\ Ttl \div 5 >= 1 /\ 5 * (Ttl \div 5) <= Ttl
  BY SelfKillConstants
<1>2. Budget \in Nat /\ Budget >= 4 /\ Budget < Ttl
  BY <1>1, SelfKillConstants DEF Budget
<1>3. Budget \div 2 \in Nat /\ Budget \div 2 >= 1
  BY <1>2
<1> QED BY <1>2, <1>3, SelfKillConstants DEF Cadence

LEMMA LocalInit == Init => LocalInv
BY SelfKillConstants DEF Init, LocalInv, TypeOK, Timers, Supervised

\* The next tick lies between now and Lag after the period's end.
LEMMA NextTickBounds ==
  ASSUME TypeOK, phase = "calling", Timers
  PROVE  /\ NextTick \in Nat /\ now <= NextTick
         /\ NextTick <= tick + Cadence + Lag
BY Arithmetic DEF TypeOK, Timers, NextTick

LEMMA LocalNext == LocalInv /\ [Next]_vars => LocalInv'
<1> SUFFICES ASSUME LocalInv, [Next]_vars PROVE LocalInv'
  OBVIOUS
<1> USE Arithmetic DEF LocalInv, Supervised
<1>1. CASE StartHeartbeat
  BY <1>1 DEF StartHeartbeat, TypeOK, Timers
<1>2. CASE TickFires
  BY <1>2 DEF TickFires, TypeOK, Timers
<1>3. CASE Answered
  BY <1>3, NextTickBounds DEF Answered, TypeOK, Timers
<1>4. CASE TimedOut
  BY <1>4, NextTickBounds DEF TimedOut, TypeOK, Timers
<1>5. CASE ServerHeartbeat \/ RequestLost \/ AnswerLost \/ Reclaim
  <2>1. UNCHANGED <<now, phase, deadline, tick>>
    BY <1>5 DEF ServerHeartbeat, RequestLost, AnswerLost, Reclaim
  <2>2. expires' \in Nat /\ request' \in {"none", "current", "old"}
    BY <1>5 DEF ServerHeartbeat, RequestLost, AnswerLost, Reclaim, TypeOK
  <2>4. live' \in BOOLEAN
    BY <1>5, Zenon DEF ServerHeartbeat, RequestLost, AnswerLost, Reclaim, TypeOK
  <2>3. reply' \in {"none", "ok", "stale", "error"}
    BY <1>5 DEF ServerHeartbeat, RequestLost, AnswerLost, Reclaim, TypeOK
  <2> QED BY <2>1, <2>2, <2>3, <2>4 DEF TypeOK, Timers
<1>6. CASE Time
  BY <1>6 DEF Time, TypeOK, Timers
<1>7. CASE UNCHANGED vars
  BY <1>7 DEF vars, TypeOK, Timers
<1> QED BY <1>1, <1>2, <1>3, <1>4, <1>5, <1>6, <1>7 DEF Next

LEMMA LocalImplies == LocalInv => FreezesByDeadline
BY Arithmetic DEF LocalInv, TypeOK, Timers, Supervised, FreezesByDeadline

\* The supervisor of heartbeat_loop freezes within one cadence of its
\* deadline, for every TTL, interval and lag and whatever the network does.
THEOREM SupervisorFreezes == Spec => []FreezesByDeadline
<1> QED BY LocalInit, LocalNext, LocalImplies, PTL DEF Spec

LEMMA GlobalInit == ASSUME Timely PROVE Init => GlobalInv
BY LocalInit, SelfKillConstants
DEF Init, GlobalInv, Windows, FrozenBeforeReclaim, Supervised

LEMMA GlobalNext ==
  ASSUME Timely PROVE GlobalInv /\ [Next]_vars => GlobalInv'
<1> SUFFICES ASSUME GlobalInv, [Next]_vars PROVE GlobalInv'
  OBVIOUS
<1>1. LocalInv'
  BY LocalNext DEF GlobalInv
<1> USE Arithmetic DEF GlobalInv, LocalInv, Supervised, Windows, FrozenBeforeReclaim, Timely
<1>2. CASE StartHeartbeat
  BY <1>1, <1>2 DEF StartHeartbeat, TypeOK
<1>3. CASE TickFires
  BY <1>1, <1>3, Zenon DEF TickFires, TypeOK
<1>4. CASE Answered
  BY <1>1, <1>4 DEF Answered, TypeOK, Timers
<1>5. CASE TimedOut
  BY <1>1, <1>5 DEF TimedOut, TypeOK
<1>6. CASE ServerHeartbeat
  <2>1. /\ UNCHANGED <<now, live, phase, deadline, tick>>
        /\ request # "none" /\ request' = "none" /\ reply # "ok"
    BY <1>6 DEF ServerHeartbeat, TypeOK
  <2>2. /\ expires' \in {expires, now + Ttl}
        /\ reply' = "ok" => expires' = now + Ttl
    BY <1>6, <2>1 DEF ServerHeartbeat
  <2>3. now \in Nat /\ expires \in Nat /\ deadline \in Nat
    BY DEF TypeOK
  <2>4. expires' <= now + Ttl /\ expires <= expires'
    BY <2>2, <2>3
  <2>5. phase' # "acquiring"
    BY <2>1
  <2>6. Supervised => deadline + Cadence + 2 * Lag <= expires'
    BY <2>2, <2>3, <2>4
  <2>7. reply' = "ok" => now + Ttl <= expires' + Latency
    BY <2>2, <2>3
  <2> HIDE DEF LocalInv
  <2> QED BY ONLY <1>1, <2>1, <2>4, <2>5, <2>6, <2>7, GlobalInv
          DEF GlobalInv, Windows, Supervised, FrozenBeforeReclaim
<1>7. CASE RequestLost \/ AnswerLost
  BY <1>1, <1>7, Zenon DEF RequestLost, AnswerLost, TypeOK
<1>8. CASE Reclaim
  <2>1. phase = "frozen"
    BY <1>8, LocalImplies DEF Reclaim, TypeOK, FreezesByDeadline
  <2> QED BY <1>1, <1>8, <2>1 DEF Reclaim, TypeOK
<1>9. CASE Time
  BY <1>1, <1>9 DEF Time, TypeOK
<1>10. CASE UNCHANGED vars
  BY <1>1, <1>10 DEF vars
<1> QED BY <1>2, <1>3, <1>4, <1>5, <1>6, <1>7, <1>8, <1>9, <1>10 DEF Next

\* When the grace ttl - 4/5 ttl covers one cadence, two polling lags and the
\* latency of an answer (of the acquisition's as well), the database never lets
\* a successor in before the runner it replaces is frozen, and a runner is
\* frozen by its deadline.  The default interval of heartbeat.rs with the
\* longest TTL the code admits satisfies this up to a second of latency.
THEOREM SelfKillSafe == ASSUME Timely PROVE Spec => []FreezesInTime
<1>1. Init => GlobalInv
  BY GlobalInit
<1>2. GlobalInv /\ [Next]_vars => GlobalInv'
  BY GlobalNext
<1>3. GlobalInv => FreezesInTime
  BY LocalImplies DEF GlobalInv, FreezesInTime
<1> QED BY <1>1, <1>2, <1>3, PTL DEF Spec
-----------------------------------------------------------------------------
(* The attempt of RunnerAttempt.                                            *)


\* The way to a Candidate, before the loop, in it, and after it.
Starting == {"validate", "acquire", "begin", "spawn", "clone", "admit", "start", "running"}
Looping == {"turn", "sending", "proposed", "apply", "adopt", "gates"}
Preparing == {"gated", "preparing", "authority", "authorized", "candidate"}

\* The way from a preserved Candidate to the release, and from it.
Finishing == {"terminate", "record", "check", "release"}
Finished == {"released", "cleanup"}

\* The ways out.
Failing == {"salvage", "stop", "requeue"}
Ended == {"reap", "done", "killed"}

TypeInv ==
  /\ at \in Starting \cup Looping \cup Preparing \cup {"preserve"} \cup Finishing
            \cup Finished \cup Failing \cup Ended
  /\ beat \in {"off", "beating", "frozen"}
  /\ held \in {"none", "held", "Succeeded", "Failed", "reclaimed"}
  /\ provider \in {"none", "running", "stopped"}
  /\ workspace \in {"none", "present", "deleted"}
  /\ generation \in Nat /\ adopted \in Nat /\ passed \in Nat

\* Until a release is sent the Kernel has none, and at most one is ever sent.
ReleaseInv ==
  /\ at \notin Finished \cup Ended =>
       sent = {} /\ held \notin {"Succeeded", "Failed"} /\ workspace # "deleted"
  /\ at \in Finished => sent = {"Succeeded"} /\ held = "Succeeded"
  /\ sent \in {{}, {"Succeeded"}, {"Failed"}}
  /\ workspace = "deleted" => held = "Succeeded"
  /\ result = "ok" => workspace = "deleted" /\ "workspace_cleaned" \in journal
  /\ at \notin Ended => result = None

\* The gates passed so far passed on the bytes of the adopted generation, and
\* a Candidate is made of it after all of them.
GateInv ==
  /\ at \notin Failing \cup Ended => ~ dirty
  /\ at \in {"gates"} \cup Preparing => adopted = generation
  /\ at \in {"gates"} \cup Preparing => \A g \in 1..passed : <<adopted, g>> \in green
  /\ at \in Preparing => passed = Gates
  /\ at \in Starting \cup Looping \cup Preparing => candidate = {}
  /\ at \in Starting \cup Looping \cup Preparing \cup {"preserve"} => preserved = {}
  /\ at = "preserve" => candidate = {generation}
  /\ at \in Finishing \cup Finished => candidate = {generation} /\ preserved = candidate
  /\ candidate \subseteq {generation} /\ preserved \subseteq candidate
  /\ candidate # {} => \A g \in 1..Gates : <<generation, g>> \in green

\* What is known of provider, journal and supervisor on the way to a success,
\* and remains true after it.
FinishInv ==
  /\ at \in {"record", "check", "release"} => provider = "stopped"
  /\ at \in {"check", "release"} => {"candidate_preserved", "terminated"} \subseteq journal
  /\ beat = "beating" => froze = None
  /\ at \in {"validate", "acquire", "begin"} => froze = None
  /\ at = "release" => froze \in {None, "release"}
  /\ at = "released" => froze \in {None, "release", "released"}
  /\ at \in {"validate", "acquire", "begin"} \cup Failing \cup Ended => beat = "off"
  /\ at \notin {"validate", "acquire", "begin"} \cup Failing \cup Ended =>
       beat \in {"beating", "frozen"}
  /\ held = "Succeeded" =>
       /\ preserved # {} /\ preserved = candidate /\ provider = "stopped"
       /\ {"candidate_preserved", "terminated"} \subseteq journal
       /\ froze \in {None, "release", "released", "cleanup"}

Inv == TypeInv /\ ReleaseInv /\ GateInv /\ FinishInv

\* A run starts with nothing held, sent or made.
LEMMA InitInv == RunnerInit => Inv
<1> USE AttemptConstants DEF RunnerInit, None, Starting, Looping, Preparing, Finishing, Finished, Failing, Ended
<1>1. RunnerInit => TypeInv
  BY DEF TypeInv
<1>2. RunnerInit => ReleaseInv
  BY DEF ReleaseInv
<1>3. RunnerInit => GateInv
  BY DEF GateInv
<1>4. RunnerInit => FinishInv
  BY DEF FinishInv
<1> QED BY <1>1, <1>2, <1>3, <1>4 DEF Inv

\* One case per action; each conjunct of Inv needs only the types and itself,
\* but for FinishInv: success rests on what was released and preserved.
LEMMA StepInv == Inv /\ [RunnerNext]_runnerVars => Inv'
<1> SUFFICES ASSUME Inv, [RunnerNext]_runnerVars PROVE Inv'
  OBVIOUS
<1> USE AttemptConstants DEF Inv, None, Starting, Looping, Preparing, Finishing, Finished,
        Failing, Ended, workVars, Goto, Abandon, Fail, Unresolved, Errors
<1>1. CASE Validate
  <2> USE <1>1 DEF Validate
  <2>1. TypeInv'
    BY DEF TypeInv
  <2>2. ReleaseInv'
    BY DEF TypeInv, ReleaseInv
  <2>3. GateInv'
    BY DEF TypeInv, GateInv
  <2>4. FinishInv'
    BY DEF TypeInv, ReleaseInv, GateInv, FinishInv
  <2> QED BY <2>1, <2>2, <2>3, <2>4
<1>2. CASE Acquire
  <2> USE <1>2 DEF Acquire
  <2>1. TypeInv'
    BY DEF TypeInv
  <2>2. ReleaseInv'
    BY DEF TypeInv, ReleaseInv
  <2>3. GateInv'
    BY DEF TypeInv, GateInv
  <2>4. FinishInv'
    BY DEF TypeInv, ReleaseInv, GateInv, FinishInv
  <2> QED BY <2>1, <2>2, <2>3, <2>4
<1>3. CASE BeginHeartbeat
  <2> USE <1>3 DEF BeginHeartbeat
  <2>1. TypeInv'
    BY DEF TypeInv
  <2>2. ReleaseInv'
    BY DEF TypeInv, ReleaseInv
  <2>3. GateInv'
    BY DEF TypeInv, GateInv
  <2>4. FinishInv'
    BY DEF TypeInv, ReleaseInv, GateInv, FinishInv
  <2> QED BY <2>1, <2>2, <2>3, <2>4
<1>4. CASE Spawn
  <2> USE <1>4 DEF Spawn
  <2>1. TypeInv'
    BY DEF TypeInv
  <2>2. ReleaseInv'
    BY DEF TypeInv, ReleaseInv
  <2>3. GateInv'
    BY DEF TypeInv, GateInv
  <2>4. FinishInv'
    BY DEF TypeInv, ReleaseInv, GateInv, FinishInv
  <2> QED BY <2>1, <2>2, <2>3, <2>4
<1>5. CASE Clone
  <2> USE <1>5 DEF Clone
  <2>1. TypeInv'
    BY DEF TypeInv
  <2>2. ReleaseInv'
    BY DEF TypeInv, ReleaseInv
  <2>3. GateInv'
    BY DEF TypeInv, GateInv
  <2>4. FinishInv'
    BY DEF TypeInv, ReleaseInv, GateInv, FinishInv
  <2> QED BY <2>1, <2>2, <2>3, <2>4
<1>6. CASE Admit
  <2> USE <1>6 DEF Admit
  <2>1. TypeInv'
    BY DEF TypeInv
  <2>2. ReleaseInv'
    BY DEF TypeInv, ReleaseInv
  <2>3. GateInv'
    BY DEF TypeInv, GateInv
  <2>4. FinishInv'
    BY DEF TypeInv, ReleaseInv, GateInv, FinishInv
  <2> QED BY <2>1, <2>2, <2>3, <2>4
<1>7. CASE StartSession
  <2> USE <1>7 DEF StartSession
  <2>1. TypeInv'
    BY DEF TypeInv
  <2>2. ReleaseInv'
    BY DEF TypeInv, ReleaseInv
  <2>3. GateInv'
    BY DEF TypeInv, GateInv
  <2>4. FinishInv'
    BY DEF TypeInv, ReleaseInv, GateInv, FinishInv
  <2> QED BY <2>1, <2>2, <2>3, <2>4
<1>8. CASE Advance("running", "turn")
  <2> USE <1>8 DEF Advance
  <2>1. TypeInv'
    BY DEF TypeInv
  <2>2. ReleaseInv'
    BY DEF TypeInv, ReleaseInv
  <2>3. GateInv'
    BY DEF TypeInv, GateInv
  <2>4. FinishInv'
    BY DEF TypeInv, ReleaseInv, GateInv, FinishInv
  <2> QED BY <2>1, <2>2, <2>3, <2>4
<1>9. CASE CheckFreeze("turn", "sending")
  <2> USE <1>9 DEF CheckFreeze
  <2>1. TypeInv'
    BY DEF TypeInv
  <2>2. ReleaseInv'
    BY DEF TypeInv, ReleaseInv
  <2>3. GateInv'
    BY DEF TypeInv, GateInv
  <2>4. FinishInv'
    BY DEF TypeInv, ReleaseInv, GateInv, FinishInv
  <2> QED BY <2>1, <2>2, <2>3, <2>4
<1>10. CASE CheckFreeze("proposed", "apply")
  <2> USE <1>10 DEF CheckFreeze
  <2>1. TypeInv'
    BY DEF TypeInv
  <2>2. ReleaseInv'
    BY DEF TypeInv, ReleaseInv
  <2>3. GateInv'
    BY DEF TypeInv, GateInv
  <2>4. FinishInv'
    BY DEF TypeInv, ReleaseInv, GateInv, FinishInv
  <2> QED BY <2>1, <2>2, <2>3, <2>4
<1>11. CASE CheckFreeze("gated", "preparing")
  <2> USE <1>11 DEF CheckFreeze
  <2>1. TypeInv'
    BY DEF TypeInv
  <2>2. ReleaseInv'
    BY DEF TypeInv, ReleaseInv
  <2>3. GateInv'
    BY DEF TypeInv, GateInv
  <2>4. FinishInv'
    BY DEF TypeInv, ReleaseInv, GateInv, FinishInv
  <2> QED BY <2>1, <2>2, <2>3, <2>4
<1>12. CASE CheckFreeze("authorized", "candidate")
  <2> USE <1>12 DEF CheckFreeze
  <2>1. TypeInv'
    BY DEF TypeInv
  <2>2. ReleaseInv'
    BY DEF TypeInv, ReleaseInv
  <2>3. GateInv'
    BY DEF TypeInv, GateInv
  <2>4. FinishInv'
    BY DEF TypeInv, ReleaseInv, GateInv, FinishInv
  <2> QED BY <2>1, <2>2, <2>3, <2>4
<1>13. CASE Advance("preparing", "authority")
  <2> USE <1>13 DEF Advance
  <2>1. TypeInv'
    BY DEF TypeInv
  <2>2. ReleaseInv'
    BY DEF TypeInv, ReleaseInv
  <2>3. GateInv'
    BY DEF TypeInv, GateInv
  <2>4. FinishInv'
    BY DEF TypeInv, ReleaseInv, GateInv, FinishInv
  <2> QED BY <2>1, <2>2, <2>3, <2>4
<1>14. CASE Turn
  <2> USE <1>14 DEF Turn, SpendRepairRound
  <2>1. TypeInv'
    BY DEF TypeInv
  <2>2. ReleaseInv'
    BY DEF TypeInv, ReleaseInv
  <2>3. GateInv'
    BY DEF TypeInv, GateInv
  <2>4. FinishInv'
    BY DEF TypeInv, ReleaseInv, GateInv, FinishInv
  <2> QED BY <2>1, <2>2, <2>3, <2>4
<1>15. CASE ApplyProposal
  <2> USE <1>15 DEF ApplyProposal, SpendRepairRound
  <2>1. TypeInv'
    BY DEF TypeInv
  <2>2. ReleaseInv'
    BY DEF TypeInv, ReleaseInv
  <2>3. GateInv'
    BY Zenon DEF TypeInv, GateInv
  <2>4. FinishInv'
    BY DEF TypeInv, ReleaseInv, GateInv, FinishInv
  <2> QED BY <2>1, <2>2, <2>3, <2>4
<1>16. CASE AdoptGeneration
  <2> USE <1>16 DEF AdoptGeneration
  <2>1. TypeInv'
    BY DEF TypeInv
  <2>2. ReleaseInv'
    BY DEF TypeInv, ReleaseInv
  <2>3. GateInv'
    BY DEF TypeInv, GateInv
  <2>4. FinishInv'
    BY DEF TypeInv, ReleaseInv, GateInv, FinishInv
  <2> QED BY <2>1, <2>2, <2>3, <2>4
<1>17. CASE RunGate
  <2> USE <1>17 DEF SpendRepairRound
  <2>1. /\ at = "gates" /\ ~ dirty
        /\ UNCHANGED <<held, provider, gitd, workspace, generation, adopted, candidate,
                       preserved, journal, sent, froze>>
    BY DEF RunGate, GateInv
  <2>2. /\ at' \in {"gates", "gated", "turn", "stop"}
        /\ at' = "stop" => beat' = "off"
        /\ at' # "stop" => UNCHANGED beat /\ ~ dirty'
        /\ UNCHANGED result
    BY Zenon DEF RunGate
  <2>3. passed' \in {passed, passed + 1} /\ green \subseteq green'
    BY Zenon DEF RunGate, GateRuns
  <2>4. /\ at' \in {"gates", "gated"} =>
             passed' = passed + 1 /\ green' = green \cup {<<adopted, passed + 1>>}
        /\ at' = "gated" => passed' = Gates
    BY <2>1, Zenon DEF RunGate, GateRuns
  <2>5. TypeInv'
    BY <2>1, <2>2, <2>3 DEF TypeInv
  <2>6. ReleaseInv'
    BY <2>1, <2>2 DEF TypeInv, ReleaseInv
  <2>7. GateInv'
    <3>1. at' \in {"gates", "gated"} => \A g \in 1..passed' : <<adopted, g>> \in green'
      BY <2>1, <2>4 DEF TypeInv, GateInv
    <3> QED BY <2>1, <2>2, <2>3, <2>4, <3>1 DEF TypeInv, GateInv
  <2>8. FinishInv'
    BY <2>1, <2>2 DEF TypeInv, ReleaseInv, FinishInv
  <2> QED BY <2>5, <2>6, <2>7, <2>8
<1>18. CASE PrepareRequest
  <2> USE <1>18 DEF PrepareRequest
  <2>1. TypeInv'
    BY DEF TypeInv
  <2>2. ReleaseInv'
    BY DEF TypeInv, ReleaseInv
  <2>3. GateInv'
    BY DEF TypeInv, GateInv
  <2>4. FinishInv'
    BY DEF TypeInv, ReleaseInv, GateInv, FinishInv
  <2> QED BY <2>1, <2>2, <2>3, <2>4
<1>19. CASE PrepareCandidate
  <2> USE <1>19 DEF PrepareCandidate
  <2>1. TypeInv'
    BY DEF TypeInv
  <2>2. ReleaseInv'
    BY DEF TypeInv, ReleaseInv
  <2>3. GateInv'
    <3>1. \/ at' = "preserve" /\ candidate' = {generation}
          \/ at' \in Failing /\ candidate' \in {candidate, {generation}}
      BY Zenon
    <3>2. /\ UNCHANGED <<generation, adopted, dirty, passed, green, preserved>>
          /\ at = "candidate" /\ GateInv
      BY Zenon
    <3> QED BY ONLY <3>1, <3>2 DEF GateInv, Starting, Looping, Preparing, Finishing, Finished,
                Failing, Ended
  <2>4. FinishInv'
    BY DEF TypeInv, ReleaseInv, GateInv, FinishInv
  <2> QED BY <2>1, <2>2, <2>3, <2>4
<1>20. CASE Preserve
  <2> USE <1>20 DEF Preserve
  <2>1. TypeInv'
    BY DEF TypeInv
  <2>2. ReleaseInv'
    BY DEF TypeInv, ReleaseInv
  <2>3. GateInv'
    <3>1. \/ at' = "terminate" /\ preserved' = {generation}
          \/ at' \in Failing /\ preserved' \in {preserved, {generation}}
      BY Zenon
    <3>2. /\ UNCHANGED <<generation, adopted, dirty, passed, green, candidate>>
          /\ at = "preserve" /\ GateInv
      BY Zenon
    <3> QED BY ONLY <3>1, <3>2 DEF GateInv, Starting, Looping, Preparing, Finishing, Finished,
                Failing, Ended
  <2>4. FinishInv'
    BY DEF TypeInv, ReleaseInv, GateInv, FinishInv
  <2> QED BY <2>1, <2>2, <2>3, <2>4
<1>21. CASE Terminate
  <2> USE <1>21 DEF Terminate
  <2>1. TypeInv'
    BY DEF TypeInv
  <2>2. ReleaseInv'
    BY DEF TypeInv, ReleaseInv
  <2>3. GateInv'
    BY DEF TypeInv, GateInv
  <2>4. FinishInv'
    BY Zenon DEF TypeInv, ReleaseInv, GateInv, FinishInv
  <2> QED BY <2>1, <2>2, <2>3, <2>4
<1>22. CASE RecordPreserved
  <2> USE <1>22 DEF RecordPreserved
  <2>1. TypeInv'
    BY DEF TypeInv
  <2>2. ReleaseInv'
    BY DEF TypeInv, ReleaseInv
  <2>3. GateInv'
    BY DEF TypeInv, GateInv
  <2>4. FinishInv'
    BY DEF TypeInv, ReleaseInv, GateInv, FinishInv
  <2> QED BY <2>1, <2>2, <2>3, <2>4
<1>23. CASE CheckRelease
  <2> USE <1>23 DEF CheckRelease
  <2>1. TypeInv'
    BY DEF TypeInv
  <2>2. ReleaseInv'
    BY DEF TypeInv, ReleaseInv
  <2>3. GateInv'
    BY DEF TypeInv, GateInv
  <2>4. FinishInv'
    BY DEF TypeInv, ReleaseInv, GateInv, FinishInv
  <2> QED BY <2>1, <2>2, <2>3, <2>4
<1>24. CASE ReleaseSucceeded
  <2> USE <1>24 DEF ReleaseSucceeded
  <2>1. TypeInv'
    BY DEF TypeInv
  <2>2. ReleaseInv'
    BY SMTT(30) DEF TypeInv, ReleaseInv
  <2>3. GateInv'
    BY DEF TypeInv, GateInv
  <2>4. FinishInv'
    BY Zenon DEF TypeInv, ReleaseInv, GateInv, FinishInv
  <2> QED BY <2>1, <2>2, <2>3, <2>4
<1>25. CASE RecordReleased
  <2> USE <1>25 DEF RecordReleased
  <2>1. TypeInv'
    BY DEF TypeInv
  <2>2. ReleaseInv'
    BY SMTT(30) DEF TypeInv, ReleaseInv
  <2>3. GateInv'
    BY DEF TypeInv, GateInv
  <2>4. FinishInv'
    BY Zenon DEF TypeInv, ReleaseInv, GateInv, FinishInv
  <2> QED BY <2>1, <2>2, <2>3, <2>4
<1>26. CASE Cleanup
  <2> USE <1>26 DEF Cleanup
  <2>1. TypeInv'
    BY DEF TypeInv
  <2>2. ReleaseInv'
    BY SMTT(30) DEF TypeInv, ReleaseInv
  <2>3. GateInv'
    BY SMTT(30) DEF TypeInv, GateInv
  <2>4. FinishInv'
    BY DEF TypeInv, ReleaseInv, GateInv, FinishInv
  <2> QED BY <2>1, <2>2, <2>3, <2>4
<1>27. CASE Salvage
  <2> USE <1>27 DEF Salvage
  <2>1. TypeInv'
    BY DEF TypeInv
  <2>2. ReleaseInv'
    BY DEF TypeInv, ReleaseInv
  <2>3. GateInv'
    BY Zenon DEF TypeInv, GateInv
  <2>4. FinishInv'
    BY Zenon DEF TypeInv, ReleaseInv, GateInv, FinishInv
  <2> QED BY <2>1, <2>2, <2>3, <2>4
<1>28. CASE Stop
  <2> USE <1>28 DEF Stop
  <2>1. TypeInv'
    BY DEF TypeInv
  <2>2. ReleaseInv'
    BY SMTT(30) DEF TypeInv, ReleaseInv
  <2>3. GateInv'
    BY SMTT(30) DEF TypeInv, GateInv
  <2>4. FinishInv'
    BY DEF TypeInv, ReleaseInv, GateInv, FinishInv
  <2> QED BY <2>1, <2>2, <2>3, <2>4
<1>29. CASE Requeue
  <2> USE <1>29 DEF Requeue
  <2>1. TypeInv'
    BY SMTT(30) DEF TypeInv
  <2>2. ReleaseInv'
    BY SMTT(30) DEF TypeInv, ReleaseInv
  <2>3. GateInv'
    BY SMTT(30) DEF TypeInv, GateInv
  <2>4. FinishInv'
    BY DEF TypeInv, ReleaseInv, GateInv, FinishInv
  <2> QED BY <2>1, <2>2, <2>3, <2>4, SMTT(30)
<1>30. CASE Reap
  <2> USE <1>30 DEF Reap
  <2>1. TypeInv'
    BY SMTT(30) DEF TypeInv
  <2>2. ReleaseInv'
    BY SMTT(30) DEF TypeInv, ReleaseInv
  <2>3. GateInv'
    BY SMTT(30) DEF TypeInv, GateInv
  <2>4. FinishInv'
    BY DEF TypeInv, ReleaseInv, GateInv, FinishInv
  <2> QED BY <2>1, <2>2, <2>3, <2>4
<1>31. CASE Freeze
  <2> USE <1>31 DEF Freeze
  <2>1. TypeInv'
    BY DEF TypeInv
  <2>2. ReleaseInv'
    BY SMTT(30) DEF TypeInv, ReleaseInv
  <2>3. GateInv'
    BY SMTT(30) DEF TypeInv, GateInv
  <2>4. FinishInv'
    BY DEF TypeInv, ReleaseInv, GateInv, FinishInv
  <2> QED BY <2>1, <2>2, <2>3, <2>4
<1>32. CASE ReclaimLease
  <2> USE <1>32 DEF ReclaimLease
  <2>1. TypeInv'
    BY DEF TypeInv
  <2>2. ReleaseInv'
    BY DEF TypeInv, ReleaseInv
  <2>3. GateInv'
    BY SMTT(30) DEF TypeInv, GateInv
  <2>4. FinishInv'
    BY DEF TypeInv, ReleaseInv, GateInv, FinishInv
  <2> QED BY <2>1, <2>2, <2>3, <2>4
<1>33. CASE Killed
  <2> USE <1>33 DEF Killed
  <2>1. TypeInv'
    BY DEF TypeInv
  <2>2. ReleaseInv'
    BY SMTT(30) DEF TypeInv, ReleaseInv
  <2>3. GateInv'
    BY SMTT(30) DEF TypeInv, GateInv
  <2>4. FinishInv'
    BY DEF TypeInv, ReleaseInv, GateInv, FinishInv
  <2> QED BY <2>1, <2>2, <2>3, <2>4
<1>34. CASE UNCHANGED runnerVars
  <2> USE <1>34 DEF runnerVars
  <2>1. TypeInv'
    BY SMTT(30) DEF TypeInv
  <2>2. ReleaseInv'
    BY SMTT(30) DEF TypeInv, ReleaseInv
  <2>3. GateInv'
    BY SMTT(30) DEF TypeInv, GateInv
  <2>4. FinishInv'
    BY DEF TypeInv, ReleaseInv, GateInv, FinishInv
  <2> QED BY <2>1, <2>2, <2>3, <2>4
<1> QED
  BY <1>1, <1>2, <1>3, <1>4, <1>5, <1>6, <1>7, <1>8, <1>9, <1>10, <1>11, <1>12,
     <1>13, <1>14, <1>15, <1>16, <1>17, <1>18, <1>19, <1>20, <1>21, <1>22, <1>23, <1>24, <1>25, <1>26, <1>27,
     <1>28, <1>29, <1>30, <1>31, <1>32, <1>33, <1>34, Zenon DEF RunnerNext, RunnerStep

\* For every number of gates and rounds: whatever proposals were refused, lost
\* or repaired on the way, the runner's Candidate is made from a generation on
\* which every admitted gate passed, and it is what is preserved.
THEOREM GatedCandidate == RunnerSpec => []CandidateIsGated
<1>1. Inv => CandidateIsGated
  BY DEF Inv, GateInv, CandidateIsGated
<1> QED BY <1>1, InitInv, StepInv, PTL DEF RunnerSpec

\* For every number of gates and rounds: finish reports a success to the
\* Kernel only on a preserved Candidate, a stopped provider and a complete
\* journal, never releases twice, and deletes the workspace only after it.
THEOREM PreservedSuccess == RunnerSpec => []SucceededIsPreserved
<1>1. Inv => SucceededIsPreserved
  <2> SUFFICES ASSUME Inv PROVE SucceededIsPreserved
    OBVIOUS
  <2>1. \A x, y \in sent : x = y
    BY DEF Inv, ReleaseInv
  <2> QED BY <2>1 DEF Inv, ReleaseInv, FinishInv, SucceededIsPreserved
<1> QED BY <1>1, InitInv, StepInv, PTL DEF RunnerSpec

\* For every number of gates and rounds, a success of run_attempt is earned:
\* the two theorems together.
THEOREM EarnedSuccess == RunnerSpec => []SuccessIsEarned
<1> QED BY GatedCandidate, PreservedSuccess, PTL DEF SuccessIsEarned

=============================================================================
