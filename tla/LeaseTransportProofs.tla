------------------------ MODULE LeaseTransportProofs ------------------------
(***************************************************************************)
(* Proofs about the signed lease transport, for any number of keys,        *)
(* runners, crashes and authority moves: the client's recovery journal is  *)
(* sound, what it reports as refused took no effect, and, when the         *)
(* advances runners ask for go round no cycle, its journal holds the state *)
(* of the Attempt.                                                         *)
(***************************************************************************)
EXTENDS LeaseTransport, TLAPS

\* The ledger's rows of one key.
LedgerInv(k) ==
  /\ attempt[k] = None <=> grants[k] = None
  /\ lease = k => attempt[k] # None
  /\ lease = k /\ intent[k] = None => k \in cut
  /\ \A q \in settled : q.key = k =>
       attempt[k] # None /\ (q.kind = "Release" => lease # k)

\* The journal of one key holds requests of that key.
JournalInv(k) ==
  /\ pending[k] # None => pending[k].key = k
  /\ completed[k] # None => completed[k].key = k

\* What a client call under way may rely on: its journal entry is there, and
\* what its readback saw was so and still is, or a crashed copy changed it.
AcquireInv(r) ==
  LET k == op[r].call IN
  /\ Owner[k] = r /\ intent[k] # None /\ completed[k] = None
  /\ Saw(r, "recorded") => grants[k] # None
  /\ Saw(r, "absent") => intent[k].grant = None /\ (grants[k] = None \/ k \in cut)

SettleInv(r) ==
  LET q == op[r].call IN
  /\ Owner[q.key] = r /\ pending[q.key] = q
  /\ Saw(r, "recorded") => q \in settled
  /\ Saw(r, "absent") => (q \notin settled \/ q \in cut)

CallInv(r) ==
  op[r] # None =>
    /\ dropped[r] = None
    /\ op[r].call \in Keys => AcquireInv(r)
    /\ op[r].call \notin Keys => SettleInv(r)

\* What a runner reported as refused.
DroppedInv(r) ==
  dropped[r] \in Request =>
    Owner[dropped[r].key] = r /\ (dropped[r] \in settled => dropped[r] \in cut)

IInv ==
  /\ TypeOK /\ JournalIsSound
  /\ stray \subseteq cut
  /\ \A k \in Keys : LedgerInv(k) /\ JournalInv(k)
  /\ \A r \in Runners : CallInv(r) /\ DroppedInv(r)

\* The advances runners ask for go round no cycle of the Attempt's states.
\* run_attempt advances to Running and to Preparing.
NoCycle == AdvanceTargets \cap {"Paused", "Checkpointing"} = {}

Rank(s) == IF s \in {"Created", "Starting"} THEN 0
           ELSE IF s = "Running" THEN 1
           ELSE IF s = "Preparing" THEN 2 ELSE 3

\* The Attempt was reclaimed, or moved by a request a crash had cut.
Moved(k) ==
  \/ attempt[k].state = "Crashed"
  \/ \E q \in settled \cap cut : q.key = k /\ q.to = attempt[k].state

\* The journal's view of an Attempt, before its grant is journalled, with no
\* settlement pending, and with one.
AgreeInv(k) ==
  /\ attempt[k] # None => attempt[k].state \notin {"Created", "Paused", "Checkpointing"}
  /\ grants[k] # None /\ completed[k] = None /\ ~Granted(k) =>
       attempt[k].state = "Starting" \/ Moved(k)
  /\ Granted(k) /\ pending[k] = None =>
       attempt[k].state = intent[k].current \/ Moved(k)
  /\ pending[k] # None =>
       \/ attempt[k].state = pending[k].from
       \/ Moved(k)
       \/ pending[k] \in settled /\ attempt[k].state = pending[k].to

\* A settled edge lies behind the Attempt.
ForwardInv ==
  \A q \in settled : Rank(q.from) < Rank(q.to) /\ Rank(q.to) <= Rank(attempt[q.key].state)

\* No request takes an Attempt round a cycle.
EdgeInv ==
  /\ \A k \in Keys : pending[k] # None => pending[k].to \notin {"Paused", "Checkpointing"}
  /\ \A c \in stray \cap Request : c.to \notin {"Paused", "Checkpointing"}

AInv == (\A k \in Keys : AgreeInv(k)) /\ ForwardInv /\ EdgeInv
-----------------------------------------------------------------------------
(* What a step of the server does to the rows the clients rely on.          *)

SoundInv(k) ==
  /\ intent[k] # None => (intent[k].grant = None <=> intent[k].current = None)
  /\ Granted(k) => /\ intent[k].grant = grants[k]
                   /\ intent[k].current =
                        IF completed[k] = None THEN "Starting" ELSE completed[k].to
  /\ pending[k] # None => /\ Granted(k)
                          /\ pending[k].fence = intent[k].grant.fence
                          /\ pending[k].from = intent[k].current
  /\ completed[k] # None => completed[k] \in settled

\* Rows are added for c alone, and no grant and no settlement is taken back.
ServerMove(c) ==
  /\ attempt' \in [Keys -> AttemptRow \cup {None}]
  /\ lease' \in Keys \cup {None} /\ due' \in BOOLEAN /\ ready' \in BOOLEAN
  /\ fence' \in Nat /\ authority' \in 0..MaxAuthority
  /\ grants' \in [Keys -> GrantRow \cup {None}] /\ settled' \subseteq Request
  /\ settled \subseteq settled' /\ settled' \subseteq settled \cup {c}
  /\ \A k \in Keys :
       /\ grants[k] # None => grants'[k] = grants[k]
       /\ grants[k] = None /\ grants'[k] # None => k = c
       /\ lease' = k => lease = k \/ k = c
       /\ attempt'[k] = None <=> grants'[k] = None
       /\ lease' = k => attempt'[k] # None
       /\ \A q \in settled' : q.key = k =>
            attempt'[k] # None /\ (q.kind = "Release" => lease' # k)

\* Leaves name a prover only where the default does not find the proof.
USE SMTT(20), ZenonT(20)

LEMMA InitInv == Init => IInv
<1> SUFFICES ASSUME Init PROVE IInv
  BY Zenon
<1> USE DEF Init
<1>1. TypeOK
  <2>1. 0 \in 0..MaxAuthority /\ 0 \in 0..MaxCrashes
    BY TransportConstants
  <2> QED BY <2>1, Zenon DEF TypeOK
<1>2. JournalIsSound
  BY Zenon DEF JournalIsSound, Granted
<1>3. \A k \in Keys : LedgerInv(k) /\ JournalInv(k)
  BY TransportValues, Zenon DEF LedgerInv, JournalInv
<1>4. \A r \in Runners : CallInv(r) /\ DroppedInv(r)
  BY TransportValues, Zenon DEF CallInv, DroppedInv
<1> QED BY <1>1, <1>2, <1>3, <1>4, Zenon DEF IInv

LEMMA ServerStutters ==
  ASSUME IInv, UNCHANGED server
  PROVE  \A c : ServerMove(c)
<1> QED BY Zenon DEF IInv, TypeOK, LedgerInv, ServerMove, server

\* The rows of reclaimed Attempts are rows.
LEMMA ReclaimedRows ==
  ASSUME IInv
  PROVE  /\ Reclaimed \in [Keys -> AttemptRow \cup {None}]
         /\ \A k \in Keys : Reclaimed[k] = None <=> attempt[k] = None
<1>1. CASE Reclaimable
  <2>1. lease \in Keys /\ attempt[lease] # None
    BY <1>1, Zenon DEF Reclaimable, IInv, TypeOK, LedgerInv
  <2>2. attempt[lease] \in AttemptRow /\ attempt \in [Keys -> AttemptRow \cup {None}]
    BY <2>1, Zenon DEF IInv, TypeOK
  <2> DEFINE row == [attempt[lease] EXCEPT !.state = "Crashed"]
  <2>3. row \in AttemptRow
    BY <2>2, Zenon DEF AttemptRow, AttemptStates, TerminalAttemptStates
  <2>4. row # None
    BY <2>3, TransportValues, Zenon
  <2>5. Reclaimed = [attempt EXCEPT ![lease] = row]
    BY <1>1, Zenon DEF Reclaimed
  <2> HIDE DEF row
  <2> QED BY <2>1, <2>2, <2>3, <2>4, <2>5, Zenon
<1>2. CASE ~Reclaimable
  BY <1>2, Zenon DEF Reclaimed, IInv, TypeOK
<1> QED BY <1>1, <1>2, Zenon

LEMMA GrantMove ==
  ASSUME IInv, NEW k \in Keys, Grantable(k), Grant(k)
  PROVE  ServerMove(k)
<1> DEFINE row == [fence |-> fence + 1, state |-> "Starting"]
           grant == [fence |-> fence + 1, authority |-> authority]
<1>1. row \in AttemptRow /\ grant \in GrantRow
  BY DEF AttemptRow, GrantRow, IInv, TypeOK, AttemptStates, LiveAttemptStates
<1>2. row # None /\ grant # None
  BY <1>1, TransportValues, Zenon
<1>3. /\ attempt' = [Reclaimed EXCEPT ![k] = row] /\ lease' = k /\ due' = FALSE /\ ready' = FALSE
      /\ fence' = fence + 1 /\ grants' = [grants EXCEPT ![k] = grant]
      /\ UNCHANGED <<authority, settled>> /\ grants[k] = None
  BY Zenon DEF Grant, Grantable
<1> HIDE DEF row, grant
<1>4. /\ attempt'[k] = row /\ attempt' \in [Keys -> AttemptRow \cup {None}]
      /\ \A j \in Keys \ {k} : attempt'[j] = None <=> attempt[j] = None
  BY <1>1, <1>3, ReclaimedRows, Zenon
<1>5. /\ grants'[k] = grant /\ grants' \in [Keys -> GrantRow \cup {None}]
      /\ \A j \in Keys \ {k} : grants'[j] = grants[j]
  BY <1>1, <1>3, Zenon DEF IInv, TypeOK
<1>6. \A q \in settled : q.key # k
  BY <1>3, Zenon DEF IInv, LedgerInv
<1>7. \A j \in Keys : LedgerInv(j)
  BY Zenon DEF IInv
<1>8. \A j \in Keys : attempt'[j] = None <=> grants'[j] = None
  BY <1>2, <1>4, <1>5, <1>7, Zenon DEF LedgerInv
<1>9. \A q \in settled' : q.key \in Keys /\ q.key # k /\ attempt'[q.key] # None
  BY <1>3, <1>4, <1>6, <1>7, Zenon DEF LedgerInv, IInv, TypeOK, Request
<1>10. /\ settled' \subseteq Request /\ fence' \in Nat /\ authority' \in 0..MaxAuthority
  BY <1>3 DEF IInv, TypeOK
<1>11. ASSUME NEW j \in Keys
       PROVE  /\ grants[j] # None => grants'[j] = grants[j]
              /\ grants[j] = None /\ grants'[j] # None => j = k
              /\ lease' = j => j = k /\ attempt'[j] # None
              /\ \A q \in settled' : q.key = j => attempt'[j] # None /\ lease' # j
  BY ONLY <1>2, <1>3, <1>4, <1>5, <1>9, j \in Keys
<1>12. /\ lease' \in Keys \cup {None} /\ due' \in BOOLEAN /\ ready' \in BOOLEAN
       /\ settled \subseteq settled' /\ settled' \subseteq settled \cup {k}
  BY <1>3, Zenon
<1> QED BY <1>4, <1>5, <1>8, <1>10, <1>11, <1>12, Zenon DEF ServerMove

LEMMA SettleMove ==
  ASSUME IInv, NEW q \in Request, Settleable(q), Settle(q)
  PROVE  ServerMove(q)
<1> DEFINE k == q.key
           row == [attempt[k] EXCEPT !.state = q.to]
<1>1. /\ k \in Keys /\ grants[k] # None /\ attempt[k] # None /\ lease = k
      /\ attempt[k] \in AttemptRow /\ q.to \in AttemptStates
  BY Zenon DEF Request, Settleable, SourceCurrent, IncarnationCurrent, Active, IInv, TypeOK, LedgerInv
<1>2. row \in AttemptRow
  BY <1>1, Zenon DEF AttemptRow
<1>3. row # None
  BY <1>2, TransportValues, Zenon
<1>4. /\ attempt' = [attempt EXCEPT ![k] = row] /\ settled' = settled \cup {q}
      /\ lease' = IF q.kind = "Release" THEN None ELSE lease
      /\ ready' \in BOOLEAN /\ UNCHANGED <<due, fence, authority, grants>>
  BY Zenon DEF Settle
<1> HIDE DEF row
<1>5. /\ attempt' \in [Keys -> AttemptRow \cup {None}] /\ attempt'[k] = row
      /\ \A j \in Keys \ {k} : attempt'[j] = attempt[j]
  BY <1>1, <1>2, <1>4, Zenon DEF IInv, TypeOK
<1>6. \A j \in Keys : LedgerInv(j)
  BY Zenon DEF IInv
<1>7. /\ lease' \in Keys \cup {None} /\ \A j \in Keys : lease' = j => lease = j
      /\ \A j \in Keys : lease' = j => attempt'[j] # None
      /\ q.kind = "Release" => \A j \in Keys : lease' # j
  BY <1>1, <1>3, <1>4, <1>5, TransportValues, Zenon
<1>8. \A j \in Keys : attempt'[j] = None <=> grants'[j] = None
  BY <1>1, <1>3, <1>4, <1>5, <1>6, Zenon DEF LedgerInv
<1>9. \A j \in Keys, p \in settled' : p.key = j =>
        attempt'[j] # None /\ (p.kind = "Release" => lease' # j)
  BY <1>1, <1>3, <1>4, <1>5, <1>6, <1>7 DEF LedgerInv
<1>10. /\ settled' \subseteq Request /\ due' \in BOOLEAN /\ fence' \in Nat
       /\ authority' \in 0..MaxAuthority /\ grants' \in [Keys -> GrantRow \cup {None}]
  BY <1>4, Zenon DEF IInv, TypeOK
<1> HIDE DEF k
<1> QED BY <1>4, <1>5, <1>7, <1>8, <1>9, <1>10, Zenon DEF ServerMove

LEMMA ServeMove ==
  ASSUME IInv, NEW c \in Keys \cup Request, NEW answer, Serve(c, answer)
  PROVE  ServerMove(c)
<1>1. CASE UNCHANGED server
  BY <1>1, ServerStutters, Zenon
<1>2. CASE c \in Keys /\ Grantable(c) /\ Grant(c)
  BY <1>2, GrantMove, Zenon
<1>3. CASE c \in Request /\ Settleable(c) /\ Settle(c)
  BY <1>3, SettleMove, Zenon
<1> QED BY <1>1, <1>2, <1>3, Zenon DEF Serve, ServeAcquire, ServeSettle

LEMMA ReapMove ==
  ASSUME IInv, Reap
  PROVE  ServerMove(None)
<1>1. /\ attempt' = Reclaimed /\ lease' = None /\ due' = FALSE /\ ready' = TRUE
      /\ UNCHANGED <<fence, authority, grants, settled>>
  BY Zenon DEF Reap
<1>2. \A k \in Keys : LedgerInv(k) /\ k # None
  BY TransportValues, Zenon DEF IInv
<1> QED BY <1>1, <1>2, ReclaimedRows, Zenon DEF ServerMove, LedgerInv, IInv, TypeOK
-----------------------------------------------------------------------------
(* A step of the server, whoever asked for it.                              *)

LEMMA SoundRows == JournalIsSound <=> \A k \in Keys : SoundInv(k)
<1> QED BY Zenon DEF JournalIsSound, SoundInv

LEMMA SoundRowsNext == JournalIsSound' <=> \A k \in Keys : SoundInv(k)'
<1> QED BY Zenon DEF JournalIsSound, SoundInv

\* A call under way and its parts.
LEMMA CallTypes ==
  ASSUME TypeOK, NEW r \in Runners, op[r] # None
  PROVE  /\ op[r] \in Call /\ op[r].call \in Keys \cup Request
         /\ op[r].call \notin Keys => op[r].call \in Request /\ op[r].call.key \in Keys
<1> QED BY Zenon DEF TypeOK, Call, Request

\* The call of another step of the same call: not concluded yet.
Onward(r) ==
  op[r] # None => op'[r] # None /\ op'[r].call = op[r].call
                   /\ (op'[r] = op[r] \/ op'[r].at # "act")

LEMMA ServerStep ==
  ASSUME IInv, NEW c, ServerMove(c), UNCHANGED <<journal, cut, crashes, dropped>>,
         op' \in [Runners -> Call \cup {None}], stray' \subseteq stray,
         \A r \in Runners : (op[r] = None => op'[r] = None) /\ Onward(r),
         \/ c = None \/ c \in cut
         \/ \E r \in Runners : Sending(r) /\ op[r].call = c /\ op'[r].at # "act"
  PROVE  IInv'
<1>1. UNCHANGED <<intent, pending, completed>>
  BY Zenon DEF journal
<1>2. TypeOK'
  BY <1>1, Zenon DEF IInv, TypeOK, ServerMove
<1>3. JournalIsSound'
  <2>1. \A k \in Keys : SoundInv(k)
    BY SoundRows, Zenon DEF IInv
  <2>2. \A k \in Keys : Granted(k) => intent[k].grant \in GrantRow
    BY Zenon DEF IInv, TypeOK, Intent, Granted
  <2>3. \A k \in Keys : Granted(k) => grants[k] # None
    BY <2>1, <2>2, TransportValues, Zenon DEF SoundInv
  <2>4. \A k \in Keys : SoundInv(k)'
    BY <1>1, <2>1, <2>3, Zenon DEF SoundInv, Granted, ServerMove
  <2> QED BY <2>4, SoundRowsNext, Zenon
<1>4. ASSUME NEW k \in Keys, k = c PROVE k \in cut \/ (intent[k] # None /\ ~Saw(Owner[k], "absent")
                                                   /\ ~Saw(Owner[k], "absent")')
  <2>1. ASSUME NEW r \in Runners, Sending(r), op[r].call = c, op'[r].at # "act"
        PROVE  intent[k] # None /\ ~Saw(Owner[k], "absent") /\ ~Saw(Owner[k], "absent")'
    <3>1. AcquireInv(r) /\ op[r].call = k
      BY <1>4, <2>1, Zenon DEF Sending, IInv, CallInv
    <3>2. Owner[k] = r
      BY <3>1, Zenon DEF AcquireInv
    <3> QED BY <2>1, <3>1, <3>2, Zenon DEF AcquireInv, Sending, Saw
  <2> QED BY <1>4, <2>1, TransportValues, Zenon
<1>5. ASSUME NEW q \in Request, q = c
      PROVE  \/ q \in cut
             \/ \E r \in Runners : /\ Owner[q.key] = r /\ dropped[r] = None
                                   /\ ~Saw(r, "absent") /\ ~Saw(r, "absent")'
  <2>1. ASSUME NEW r \in Runners, Sending(r), op[r].call = c, op'[r].at # "act"
        PROVE  Owner[q.key] = r /\ dropped[r] = None /\ ~Saw(r, "absent") /\ ~Saw(r, "absent")'
    <3>1. q \notin Keys
      BY TransportValues, Zenon
    <3>2. SettleInv(r) /\ dropped[r] = None
      BY <1>5, <2>1, <3>1, Zenon DEF Sending, IInv, CallInv
    <3> QED BY <1>5, <2>1, <3>2, Zenon DEF SettleInv, Sending, Saw
  <2> QED BY <1>5, <2>1, TransportValues, Zenon
<1>6. \A k \in Keys : LedgerInv(k)' /\ JournalInv(k)'
  BY <1>1, <1>4, Zenon DEF IInv, LedgerInv, JournalInv, ServerMove
<1>7. ASSUME NEW u \in Runners PROVE CallInv(u)'
  <2> SUFFICES ASSUME op'[u] # None
               PROVE  /\ dropped'[u] = None
                      /\ op'[u].call \in Keys => AcquireInv(u)'
                      /\ op'[u].call \notin Keys => SettleInv(u)'
    BY Zenon DEF CallInv
  <2>1. /\ op[u] # None /\ op'[u].call = op[u].call /\ (op'[u] = op[u] \/ op'[u].at # "act")
        /\ CallInv(u)
    BY Zenon DEF Onward, IInv
  <2>2. \A seen : Saw(u, seen)' => Saw(u, seen)
    BY <2>1, Zenon DEF Saw
  <2>3. ASSUME op[u].call \in Keys PROVE AcquireInv(u)'
    <3>1. AcquireInv(u) /\ op[u].call \in Keys
      BY <2>1, <2>3, Zenon DEF CallInv
    <3> DEFINE k == op[u].call
    <3>2. Saw(u, "recorded")' => grants'[k] # None
      BY <2>2, <3>1, Zenon DEF AcquireInv, ServerMove
    <3>3. Saw(u, "absent")' => grants'[k] = None \/ k \in cut
      BY <1>4, <2>2, <3>1 DEF AcquireInv, ServerMove
    <3> QED BY <1>1, <2>1, <2>2, <3>1, <3>2, <3>3, Zenon DEF AcquireInv
  <2>4. ASSUME op[u].call \notin Keys PROVE SettleInv(u)'
    <3>1. SettleInv(u) /\ op[u].call \in Request
      BY <2>1, <2>4, CallTypes, Zenon DEF CallInv, IInv
    <3> DEFINE q == op[u].call
    <3>2. Saw(u, "recorded")' => q \in settled'
      BY <2>2, <3>1, Zenon DEF SettleInv, ServerMove
    <3>3. Saw(u, "absent")' => q \notin settled' \/ q \in cut
      BY <1>5, <2>2, <3>1 DEF SettleInv, ServerMove
    <3> QED BY <1>1, <2>1, <2>2, <3>1, <3>2, <3>3, Zenon DEF SettleInv
  <2> QED BY <2>1, <2>3, <2>4, Zenon DEF CallInv
<1>8. ASSUME NEW u \in Runners PROVE DroppedInv(u)'
  BY <1>5, TransportValues DEF IInv, DroppedInv, ServerMove
<1>9. stray' \subseteq cut'
  BY Zenon DEF IInv
<1> QED BY <1>2, <1>3, <1>6, <1>7, <1>8, <1>9, Zenon DEF IInv
-----------------------------------------------------------------------------
(* A step of one client, on the journal rows of one key.                    *)

\* A call stays sound while its journal rows and the records do not change.
LEMMA SameCall ==
  ASSUME IInv, NEW u \in Runners, op'[u] = op[u], dropped'[u] = dropped[u],
         grants' = grants, settled' = settled, cut \subseteq cut',
         \A j \in Keys : Owner[j] = u =>
           /\ intent'[j] = intent[j] /\ pending'[j] = pending[j] /\ completed'[j] = completed[j]
  PROVE  CallInv(u)'
<1>1. CallInv(u) /\ TypeOK
  BY Zenon DEF IInv
<1>2. ASSUME op[u] # None, op[u].call \in Keys PROVE AcquireInv(u)'
  <2> DEFINE j == op[u].call
  <2>1. AcquireInv(u) /\ Owner[j] = u /\ j \in Keys /\ op'[u].call = j
    BY <1>1, <1>2, Zenon DEF CallInv, AcquireInv
  <2>2. intent'[j] = intent[j] /\ completed'[j] = completed[j]
    BY <2>1, Zenon
  <2> QED BY <2>1, <2>2, Zenon DEF AcquireInv, Saw
<1>3. ASSUME op[u] # None, op[u].call \notin Keys PROVE SettleInv(u)'
  <2> DEFINE q == op[u].call
  <2>1. SettleInv(u) /\ Owner[q.key] = u /\ q.key \in Keys /\ op'[u].call = q
    BY <1>1, <1>3, CallTypes, Zenon DEF CallInv, SettleInv
  <2>2. pending'[q.key] = pending[q.key]
    BY <2>1, Zenon
  <2> QED BY <2>1, <2>2, Zenon DEF SettleInv, Saw
<1> QED BY <1>1, <1>2, <1>3, Zenon DEF CallInv

LEMMA ClientFrame ==
  ASSUME IInv, NEW r \in Runners, NEW k \in Keys, Owner[k] = r, UNCHANGED server,
         \A j \in Keys \ {k} : /\ intent'[j] = intent[j] /\ pending'[j] = pending[j]
                               /\ completed'[j] = completed[j],
         \A u \in Runners \ {r} : op'[u] = op[u] /\ dropped'[u] = dropped[u],
         cut \subseteq cut', stray' \subseteq cut',
         TypeOK', SoundInv(k)', LedgerInv(k)', JournalInv(k)', CallInv(r)', DroppedInv(r)'
  PROVE  IInv'
<1>1. UNCHANGED <<attempt, lease, grants, settled>>
  BY Zenon DEF server
<1>2. JournalIsSound'
  <2>1. \A j \in Keys \ {k} : SoundInv(j)
    BY SoundRows, Zenon DEF IInv
  <2>2. ASSUME NEW j \in Keys \ {k} PROVE SoundInv(j)'
    <3>1. SoundInv(j) /\ intent'[j] = intent[j] /\ pending'[j] = pending[j]
          /\ completed'[j] = completed[j]
      BY <2>1, Zenon
    <3> QED BY <1>1, <3>1, Zenon DEF SoundInv, Granted
  <2> QED BY <2>2, SoundRowsNext, Zenon
<1>3. ASSUME NEW j \in Keys \ {k} PROVE LedgerInv(j)' /\ JournalInv(j)'
  <2>1. LedgerInv(j) /\ JournalInv(j)
    BY Zenon DEF IInv
  <2>2. intent'[j] = intent[j] /\ pending'[j] = pending[j] /\ completed'[j] = completed[j]
    BY Zenon
  <2>3. LedgerInv(j)'
    BY <1>1, <2>1, <2>2, Zenon DEF LedgerInv
  <2> QED BY <2>1, <2>2, <2>3, Zenon DEF JournalInv
<1>4. ASSUME NEW u \in Runners \ {r} PROVE CallInv(u)' /\ DroppedInv(u)'
  <2>1. DroppedInv(u) /\ op'[u] = op[u] /\ dropped'[u] = dropped[u]
    BY Zenon DEF IInv
  <2>2. DroppedInv(u)'
    BY <1>1, <2>1, Zenon DEF DroppedInv
  <2>3. \A j \in Keys : Owner[j] = u =>
          /\ intent'[j] = intent[j] /\ pending'[j] = pending[j] /\ completed'[j] = completed[j]
    BY Zenon
  <2> QED BY <1>1, <2>1, <2>2, <2>3, SameCall, Zenon
<1> QED BY <1>2, <1>3, <1>4, Zenon DEF IInv

LEMMA Beginning ==
  ASSUME NEW c \in Keys \cup Request, NEW isNew \in BOOLEAN
  PROVE  /\ Begin(c, isNew) \in Call /\ Begin(c, isNew) # None
         /\ Begin(c, isNew).call = c /\ Begin(c, isNew).at # "act"
<1>1. /\ Begin(c, isNew) \in Call
      /\ Begin(c, isNew).call = c /\ Begin(c, isNew).at # "act"
  BY DEF Begin, Call
<1> QED BY <1>1, TransportValues, Zenon

LEMMA StartAcquireStep ==
  ASSUME IInv, NEW r \in Runners, NEW k \in Keys, StartAcquire(r, k)
  PROVE  IInv'
<1> DEFINE isNew == intent[k] = None
           row == [grant |-> None, current |-> None]
           call == Begin(k, isNew)
<1>1. /\ op[r] = None /\ Owner[k] = r /\ completed[k] = None
      /\ intent' = IF isNew THEN [intent EXCEPT ![k] = row] ELSE intent
      /\ op' = [op EXCEPT ![r] = call] /\ dropped' = [dropped EXCEPT ![r] = None]
      /\ UNCHANGED <<server, pending, completed, stray, crashes, cut>>
  BY Zenon DEF StartAcquire
<1>2. call \in Call /\ call # None /\ call.call = k /\ call.at # "act"
  BY Beginning, Zenon
<1>3. row \in Intent /\ row.grant = None /\ row.current = None
  BY Zenon DEF Intent
<1>4. row # None
  BY <1>3, TransportValues, Zenon
<1>5. SoundInv(k) /\ LedgerInv(k) /\ JournalInv(k)
  BY SoundRows, Zenon DEF IInv
<1> HIDE DEF row, call
<1>6. /\ intent' \in [Keys -> Intent \cup {None}] /\ \A j \in Keys \ {k} : intent'[j] = intent[j]
      /\ intent'[k] = IF isNew THEN row ELSE intent[k]
      /\ op' \in [Runners -> Call \cup {None}] /\ op'[r] = call
      /\ dropped' \in [Runners -> Keys \cup Request \cup {None}] /\ dropped'[r] = None
      /\ \A u \in Runners \ {r} : op'[u] = op[u] /\ dropped'[u] = dropped[u]
  BY <1>1, <1>2, <1>3, Zenon DEF IInv, TypeOK
<1>7. UNCHANGED <<attempt, lease, due, fence, ready, authority, grants, settled>>
  BY <1>1, Zenon DEF server
<1>8. TypeOK'
  BY <1>1, <1>6, <1>7, Zenon DEF IInv, TypeOK
<1>9. SoundInv(k)'
  BY <1>1, <1>3, <1>5, <1>6, <1>7, Zenon DEF SoundInv, Granted
<1>10. LedgerInv(k)' /\ JournalInv(k)'
  BY <1>1, <1>4, <1>5, <1>6, <1>7, Zenon DEF LedgerInv, JournalInv
<1>11. CallInv(r)'
  BY <1>1, <1>2, <1>4, <1>6, Zenon DEF CallInv, AcquireInv, Saw
<1>12. DroppedInv(r)'
  BY <1>6, TransportValues, Zenon DEF DroppedInv
<1>13. stray' \subseteq cut' /\ cut \subseteq cut'
  BY <1>1, Zenon DEF IInv
<1> QED BY <1>1, <1>6, <1>8, <1>9, <1>10, <1>11, <1>12, <1>13, ClientFrame, Zenon

\* The request the journal implies for a granted key.
LEMMA ImpliedRequest ==
  ASSUME IInv, NEW k \in Keys, Granted(k), NEW kind \in {"Advance", "Release"},
         NEW to \in AttemptStates, NEW requeue \in BOOLEAN
  PROVE  LET q == Implied(kind, k, to, requeue)
         IN  /\ q \in Request /\ q # None /\ q.key = k /\ q.to = to /\ q.kind = kind
             /\ q.fence = intent[k].grant.fence /\ q.from = intent[k].current
<1>1. /\ intent[k] \in Intent /\ intent[k].grant \in GrantRow
      /\ intent[k].current \in AttemptStates
  BY Zenon DEF IInv, TypeOK, JournalIsSound, Granted, Intent
<1>2. Implied(kind, k, to, requeue) \in Request
  BY <1>1, Zenon DEF Implied, Request, GrantRow
<1> QED BY <1>2, TransportValues, Zenon DEF Implied

LEMMA StartSettleStep ==
  ASSUME IInv, NEW r \in Runners, NEW k \in Keys, NEW kind \in {"Advance", "Release"},
         NEW to \in AttemptStates, NEW requeue \in BOOLEAN,
         StartSettle(r, k, kind, to, requeue)
  PROVE  IInv'
<1>1. /\ op[r] = None /\ Owner[k] = r /\ dropped' = [dropped EXCEPT ![r] = None]
      /\ UNCHANGED <<server, intent, completed, stray, crashes, cut>>
  BY Zenon DEF StartSettle
<1>2. SoundInv(k) /\ LedgerInv(k) /\ JournalInv(k)
  BY SoundRows, Zenon DEF IInv
<1>3. PICK q \in Request, isNew \in BOOLEAN :
        /\ q.key = k /\ q # None /\ Granted(k)
        /\ q.fence = intent[k].grant.fence /\ q.from = intent[k].current
        /\ pending' = [pending EXCEPT ![k] = q]
        /\ op' = [op EXCEPT ![r] = Begin(q, isNew)]
  <2>1. CASE pending[k] # None /\ op' = [op EXCEPT ![r] = Begin(pending[k], FALSE)] /\ UNCHANGED pending
    <3>1. pending[k] \in Request /\ pending' = [pending EXCEPT ![k] = pending[k]]
      BY <2>1, Zenon DEF IInv, TypeOK
    <3> QED BY <1>2, <2>1, <3>1, Zenon DEF SoundInv, JournalInv
  <2>2. CASE /\ Granted(k) /\ pending' = [pending EXCEPT ![k] = Implied(kind, k, to, requeue)]
             /\ op' = [op EXCEPT ![r] = Begin(Implied(kind, k, to, requeue), TRUE)]
    <3>1. PICK q \in Request : /\ q = Implied(kind, k, to, requeue)
                               /\ q # None /\ q.key = k
                               /\ q.fence = intent[k].grant.fence /\ q.from = intent[k].current
      BY <2>2, ImpliedRequest
    <3> QED BY <2>2, <3>1, Zenon
  <2> QED BY <2>1, <2>2, Zenon DEF StartSettle, Reserve
<1> DEFINE call == Begin(q, isNew)
<1>4. call \in Call /\ call # None /\ call.call = q /\ call.at # "act" /\ q \notin Keys
  BY Beginning, TransportValues, Zenon
<1>5. op' = [op EXCEPT ![r] = call]
  BY <1>3, Zenon
<1> HIDE DEF call
<1>6. /\ pending' \in [Keys -> Request \cup {None}] /\ \A j \in Keys \ {k} : pending'[j] = pending[j]
      /\ pending'[k] = q
      /\ op' \in [Runners -> Call \cup {None}] /\ op'[r] = call
      /\ dropped' \in [Runners -> Keys \cup Request \cup {None}] /\ dropped'[r] = None
      /\ \A u \in Runners \ {r} : op'[u] = op[u] /\ dropped'[u] = dropped[u]
  <2>1. TypeOK
    BY Zenon DEF IInv
  <2> QED BY ONLY <1>1, <1>3, <1>4, <1>5, <2>1 DEF TypeOK
<1>7. UNCHANGED <<attempt, lease, due, fence, ready, authority, grants, settled>>
  BY <1>1, Zenon DEF server
<1>8. TypeOK'
  BY <1>1, <1>6, <1>7, Zenon DEF IInv, TypeOK
<1>9. SoundInv(k)'
  BY <1>1, <1>2, <1>3, <1>6, <1>7, Zenon DEF SoundInv, Granted
<1>10. LedgerInv(k)' /\ JournalInv(k)'
  BY <1>1, <1>2, <1>3, <1>6, <1>7, Zenon DEF LedgerInv, JournalInv
<1>11. CallInv(r)'
  BY <1>1, <1>3, <1>4, <1>6, Zenon DEF CallInv, SettleInv, Saw
<1>12. DroppedInv(r)'
  BY <1>6, TransportValues, Zenon DEF DroppedInv
<1>13. stray' \subseteq cut' /\ cut \subseteq cut'
  BY <1>1, Zenon DEF IInv
<1> QED BY <1>1, <1>6, <1>8, <1>9, <1>10, <1>11, <1>12, <1>13, ClientFrame, Zenon
-----------------------------------------------------------------------------
(* The send.                                                                *)

LEMMA Delivered ==
  ASSUME IInv, NEW r \in Runners, Sending(r), NEW fate \in {"ok", "refused", "lost"},
         Deliver(r, fate)
  PROVE  /\ op' \in [Runners -> Call \cup {None}] /\ op'[r].at = "read"
         /\ op[r].call \in Keys \cup Request
         /\ \A u \in Runners : (op[u] = None => op'[u] = None) /\ Onward(u)
<1> DEFINE call == [op[r] EXCEPT !.at = "read", !.sent = fate]
<1>1. op[r] # None /\ op[r] \in Call /\ op[r].call \in Keys \cup Request
  BY CallTypes, Zenon DEF Sending, IInv
<1>2. call \in Call /\ call.call = op[r].call /\ call.at = "read"
  BY <1>1, Zenon DEF Call
<1>3. call # None
  BY <1>2, TransportValues, Zenon
<1>4. op' = [op EXCEPT ![r] = call]
  BY Zenon DEF Deliver
<1> HIDE DEF call
<1>5. /\ op' \in [Runners -> Call \cup {None}] /\ op'[r] = call
      /\ \A u \in Runners \ {r} : op'[u] = op[u]
  BY <1>2, <1>4, Zenon DEF IInv, TypeOK
<1> QED BY <1>1, <1>2, <1>3, <1>5, Zenon DEF Onward

LEMMA SendStep ==
  ASSUME IInv, NEW r \in Runners,
         SendAnswered(r) \/ SendServedAnswerLost(r) \/ SendNotServed(r)
  PROVE  IInv'
<1>1. /\ Sending(r) /\ UNCHANGED <<journal, stray, crashes, cut, dropped>>
  BY Zenon DEF SendAnswered, SendServedAnswerLost, SendNotServed
<1>2. PICK fate \in {"ok", "refused", "lost"} : Deliver(r, fate)
  BY Zenon DEF SendAnswered, SendServedAnswerLost, SendNotServed
<1>3. /\ op' \in [Runners -> Call \cup {None}] /\ op'[r].at = "read"
      /\ op[r].call \in Keys \cup Request
      /\ \A u \in Runners : (op[u] = None => op'[u] = None) /\ Onward(u)
  BY <1>1, <1>2, Delivered, Zenon
<1>4. ServerMove(op[r].call)
  <2>1. UNCHANGED server \/ \E answer \in {"ok", "refused"} : Serve(op[r].call, answer)
    BY Zenon DEF SendAnswered, SendServedAnswerLost, SendNotServed
  <2> QED BY <1>3, <2>1, ServeMove, ServerStutters, Zenon
<1>5. PICK c : c = op[r].call
  BY Zenon
<1>6. \E u \in Runners : Sending(u) /\ op[u].call = c /\ op'[u].at # "act"
  BY <1>1, <1>3, <1>5, Zenon
<1>7. ServerMove(c)
  BY <1>4, <1>5, Zenon
<1> QED BY <1>1, <1>3, <1>6, <1>7, ServerStep, Zenon

LEMMA LedgerMoves ==
  ASSUME IInv, FallDue \/ Reap \/ AdvanceAuthority \/ \E c \in stray : ServeStray(c)
  PROVE  IInv'
<1>1. \A r \in Runners : UNCHANGED op => (op[r] = None => op'[r] = None) /\ Onward(r)
  BY Zenon DEF Onward
<1>2. UNCHANGED op => op' \in [Runners -> Call \cup {None}]
  BY Zenon DEF IInv, TypeOK
<1>3. ASSUME FallDue PROVE IInv'
  <2>1. ServerMove(None)
    BY <1>3, Zenon DEF FallDue, IInv, TypeOK, LedgerInv, ServerMove
  <2> QED BY <1>1, <1>2, <1>3, <2>1, ServerStep, Zenon DEF FallDue
<1>4. ASSUME Reap PROVE IInv'
  BY <1>1, <1>2, <1>4, ReapMove, ServerStep, Zenon DEF Reap
<1>5. ASSUME AdvanceAuthority PROVE IInv'
  <2>1. authority' \in 0..MaxAuthority
    BY <1>5, TransportConstants DEF AdvanceAuthority, IInv, TypeOK
  <2>2. ServerMove(None)
    BY <1>5, <2>1, Zenon DEF AdvanceAuthority, IInv, TypeOK, LedgerInv, ServerMove
  <2> QED BY <1>1, <1>2, <1>5, <2>2, ServerStep, Zenon DEF AdvanceAuthority
<1>6. ASSUME NEW c \in stray, ServeStray(c) PROVE IInv'
  <2>1. c \in cut /\ c \in Keys \cup Request
    BY Zenon DEF IInv, TypeOK
  <2>2. ServerMove(c)
    BY <1>6, <2>1, ServeMove, Zenon DEF ServeStray
  <2>3. stray' \subseteq stray /\ UNCHANGED <<journal, op, crashes, cut, dropped>>
    BY <1>6, Zenon DEF ServeStray
  <2> QED BY <1>1, <1>2, <2>1, <2>2, <2>3, ServerStep, Zenon
<1> QED BY <1>3, <1>4, <1>5, <1>6, Zenon
-----------------------------------------------------------------------------
(* The readback and what follows from it.                                   *)

\* A step that only moves the call of r.
LEMMA OpStep ==
  ASSUME IInv, NEW r \in Runners, UNCHANGED <<server, journal, dropped>>,
         op' \in [Runners -> Call \cup {None}],
         \A u \in Runners \ {r} : op'[u] = op[u],
         cut \subseteq cut', cut' \subseteq Keys \cup Request, stray' \subseteq cut',
         crashes' \in 0..MaxCrashes, CallInv(r)'
  PROVE  IInv'
<1>1. /\ UNCHANGED <<attempt, lease, due, fence, ready, authority, grants, settled>>
      /\ UNCHANGED <<intent, pending, completed>>
  BY Zenon DEF server, journal
<1>2. TypeOK'
  BY <1>1, Zenon DEF IInv, TypeOK
<1>3. JournalIsSound'
  BY <1>1, Zenon DEF IInv, JournalIsSound, Granted
<1>4. \A k \in Keys : LedgerInv(k)' /\ JournalInv(k)'
  BY <1>1, Zenon DEF IInv, LedgerInv, JournalInv
<1>5. \A u \in Runners : DroppedInv(u)'
  BY <1>1, Zenon DEF IInv, DroppedInv
<1>6. ASSUME NEW u \in Runners \ {r} PROVE CallInv(u)'
  <2>1. op'[u] = op[u] /\ dropped'[u] = dropped[u]
    BY Zenon
  <2> QED BY <1>1, <2>1, SameCall, Zenon
<1> QED BY <1>2, <1>3, <1>4, <1>5, <1>6, Zenon DEF IInv

\* A call that is not to be concluded next.
LEMMA Unconcluded ==
  ASSUME IInv, NEW r \in Runners, op[r] # None, op'[r] # None,
         op'[r].call = op[r].call, op'[r].at # "act",
         UNCHANGED <<journal, dropped>>
  PROVE  CallInv(r)'
<1>1. CallInv(r) /\ UNCHANGED <<intent, pending, completed>>
  BY Zenon DEF IInv, journal
<1> QED BY <1>1, Zenon DEF CallInv, AcquireInv, SettleInv, Saw

LEMMA ReadBackStep ==
  ASSUME IInv, NEW r \in Runners, ReadBack(r)
  PROVE  IInv'
<1>1. PICK seen \in {Readback(op[r].call), "failed"} :
        op' = [op EXCEPT ![r] = [op[r] EXCEPT !.at = "act", !.seen = seen]]
  BY Zenon DEF ReadBack
<1> DEFINE call == [op[r] EXCEPT !.at = "act", !.seen = seen]
<1>2. /\ op[r] # None /\ op[r] \in Call /\ op[r].call \in Keys \cup Request
      /\ op[r].call \notin Keys => op[r].call \in Request
      /\ UNCHANGED <<server, journal, stray, crashes, cut, dropped>>
  BY CallTypes, Zenon DEF ReadBack, IInv
<1>3. seen \in {"recorded", "absent", "failed"}
  BY Zenon DEF Readback
<1>4. call \in Call /\ call.call = op[r].call /\ call.seen = seen /\ call.at = "act"
  BY <1>2, <1>3, Zenon DEF Call
<1>5. call # None
  BY <1>4, TransportValues, Zenon
<1> HIDE DEF call
<1>6. /\ op' \in [Runners -> Call \cup {None}] /\ op'[r] = call
      /\ \A u \in Runners \ {r} : op'[u] = op[u]
  BY <1>1, <1>4, Zenon DEF IInv, TypeOK, call
<1>7. /\ UNCHANGED <<attempt, lease, grants, settled>> /\ UNCHANGED <<intent, pending, completed>>
      /\ CallInv(r)
  BY <1>2, Zenon DEF server, journal, IInv
<1>8. ASSUME op[r].call \in Keys PROVE AcquireInv(r)'
  <2>1. /\ seen = "recorded" => grants[op[r].call] # None
        /\ seen = "absent" => grants[op[r].call] = None
    BY <1>8, Zenon DEF Readback
  <2>4. SoundInv(op[r].call) /\ AcquireInv(r) /\ TypeOK
    BY <1>2, <1>8, SoundRows, Zenon DEF IInv, CallInv
  <2>5. intent[op[r].call] # None
    BY <2>4, Zenon DEF AcquireInv
  <2>2. SoundInv(op[r].call) /\ AcquireInv(r) /\ intent[op[r].call] \in Intent
    BY <1>8, <2>4, <2>5, Zenon DEF TypeOK
  <2>3. seen = "absent" => intent[op[r].call].grant = None
    BY <2>1, <2>2, TransportValues, Zenon DEF SoundInv, Granted, Intent
  <2> QED BY <1>2, <1>4, <1>6, <1>7, <2>1, <2>2, <2>3, Zenon DEF AcquireInv, Saw
<1>9. ASSUME op[r].call \notin Keys PROVE SettleInv(r)'
  <2>1. /\ seen = "recorded" => op[r].call \in settled
        /\ seen = "absent" => op[r].call \notin settled
    BY <1>9, Zenon DEF Readback
  <2>2. SettleInv(r)
    BY <1>2, <1>7, <1>9, Zenon DEF CallInv
  <2> QED BY <1>2, <1>4, <1>6, <1>7, <2>1, <2>2, Zenon DEF SettleInv, Saw
<1>10. CallInv(r)'
  BY <1>2, <1>4, <1>6, <1>7, <1>8, <1>9, Zenon DEF CallInv
<1>11. /\ cut' \subseteq Keys \cup Request /\ stray' \subseteq cut' /\ crashes' \in 0..MaxCrashes
  BY <1>2, Zenon DEF IInv, TypeOK
<1> QED BY <1>2, <1>6, <1>10, <1>11, OpStep, Zenon

LEMMA ResendStep ==
  ASSUME IInv, NEW r \in Runners, Resend(r)
  PROVE  IInv'
<1> DEFINE call == [at |-> "send", call |-> op[r].call, try |-> 2,
                    sent |-> "no", seen |-> "nothing"]
<1>1. /\ op[r] # None /\ op[r] \in Call
      /\ UNCHANGED <<server, journal, stray, crashes, cut, dropped>>
  BY CallTypes, Zenon DEF Resend, Saw, IInv
<1>2. call \in Call /\ call.call = op[r].call /\ call.at = "send"
  <2>1. op[r].call \in Keys \cup Request
    BY <1>1, Zenon DEF Call
  <2> QED BY <2>1 DEF Call
<1>3. call # None
  BY <1>2, TransportValues, Zenon
<1>4. op' = [op EXCEPT ![r] = call]
  BY Zenon DEF Resend
<1> HIDE DEF call
<1>5. /\ op' \in [Runners -> Call \cup {None}] /\ op'[r] = call
      /\ \A u \in Runners \ {r} : op'[u] = op[u]
  BY <1>2, <1>4, Zenon DEF IInv, TypeOK
<1>6. CallInv(r)'
  BY <1>1, <1>2, <1>3, <1>5, Unconcluded, Zenon
<1>7. /\ cut' \subseteq Keys \cup Request /\ stray' \subseteq cut' /\ crashes' \in 0..MaxCrashes
  BY <1>1, Zenon DEF IInv, TypeOK
<1> QED BY <1>1, <1>5, <1>6, <1>7, OpStep, Zenon

\* A call that ends and leaves the journal as it is.
LEMMA EndStep ==
  ASSUME IInv, NEW r \in Runners, GiveUp(r) \/ Crash(r)
  PROVE  IInv'
<1>1. /\ op[r] # None /\ op' = [op EXCEPT ![r] = None]
      /\ UNCHANGED <<server, journal, dropped>>
  <2>1. ASSUME GiveUp(r) PROVE op[r] # None /\ Done(r) /\ UNCHANGED <<server, journal, dropped>>
    BY <2>1, Zenon DEF GiveUp, Saw, MayDrop
  <2>2. ASSUME Crash(r) PROVE op[r] # None /\ Done(r) /\ UNCHANGED <<server, journal, dropped>>
    BY <2>2, Zenon DEF Crash
  <2> QED BY <2>1, <2>2, Zenon DEF Done
<1>2. /\ op' \in [Runners -> Call \cup {None}] /\ op'[r] = None
      /\ \A u \in Runners \ {r} : op'[u] = op[u]
  BY <1>1, Zenon DEF IInv, TypeOK
<1>3. /\ cut \subseteq cut' /\ cut' \subseteq Keys \cup Request /\ stray' \subseteq cut'
      /\ crashes' \in 0..MaxCrashes
  <2>1. CASE GiveUp(r)
    BY <2>1, Zenon DEF GiveUp, IInv, TypeOK
  <2>2. CASE Crash(r)
    <3>1. crashes' \in 0..MaxCrashes
      BY <2>2, TransportConstants DEF Crash, IInv, TypeOK
    <3>2. op[r].call \in Keys \cup Request
      BY <1>1, CallTypes, Zenon DEF IInv
    <3> QED BY <2>2, <3>1, <3>2, Zenon DEF Crash, IInv, TypeOK
  <2> QED BY <2>1, <2>2, Zenon
<1>4. CallInv(r)'
  BY <1>2, Zenon DEF CallInv
<1> QED BY <1>1, <1>2, <1>3, <1>4, OpStep, Zenon

LEMMA PublishGrantStep ==
  ASSUME IInv, NEW r \in Runners, PublishGrant(r)
  PROVE  IInv'
<1>1. PICK k \in Keys : k = op[r].call
  BY Zenon DEF PublishGrant
<1> DEFINE row == [grant |-> grants[k], current |-> "Starting"]
<1>2. /\ Saw(r, "recorded") /\ op[r] # None
      /\ intent' = IF intent[k].grant = None THEN [intent EXCEPT ![k] = row] ELSE intent
      /\ op' = [op EXCEPT ![r] = None]
      /\ UNCHANGED <<server, pending, completed, stray, crashes, cut, dropped>>
  BY <1>1, Zenon DEF PublishGrant, Done, Saw
<1>3. /\ Owner[k] = r /\ intent[k] # None /\ completed[k] = None /\ grants[k] # None
      /\ dropped[r] = None
  BY <1>1, <1>2, Zenon DEF IInv, CallInv, AcquireInv
<1>4. /\ grants[k] \in GrantRow /\ intent[k] \in Intent
  BY <1>3, Zenon DEF IInv, TypeOK
<1>5. row \in Intent /\ row.grant = grants[k] /\ row.current = "Starting"
  BY <1>4, Zenon DEF Intent, AttemptStates, LiveAttemptStates
<1>6. row # None /\ "Starting" # None
  BY <1>5, TransportValues, Zenon DEF AttemptStates, LiveAttemptStates
<1> HIDE DEF row
<1>7. /\ intent' \in [Keys -> Intent \cup {None}] /\ \A j \in Keys \ {k} : intent'[j] = intent[j]
      /\ intent'[k] = IF intent[k].grant = None THEN row ELSE intent[k]
      /\ op' \in [Runners -> Call \cup {None}] /\ op'[r] = None
      /\ \A u \in Runners \ {r} : op'[u] = op[u]
  BY <1>2, <1>5, Zenon DEF IInv, TypeOK
<1>8. UNCHANGED <<attempt, lease, due, fence, ready, authority, grants, settled>>
  BY <1>2, Zenon DEF server
<1>9. SoundInv(k) /\ LedgerInv(k) /\ JournalInv(k) /\ DroppedInv(r)
  BY SoundRows, Zenon DEF IInv
<1>10. TypeOK'
  BY <1>2, <1>7, <1>8, Zenon DEF IInv, TypeOK
<1>11. SoundInv(k)'
  BY <1>2, <1>3, <1>5, <1>6, <1>7, <1>8, <1>9, Zenon DEF SoundInv, Granted
<1>12. LedgerInv(k)' /\ JournalInv(k)'
  BY <1>2, <1>3, <1>6, <1>7, <1>8, <1>9, Zenon DEF LedgerInv, JournalInv
<1>13. CallInv(r)' /\ DroppedInv(r)'
  BY <1>2, <1>7, <1>8, <1>9, Zenon DEF CallInv, DroppedInv
<1>14. stray' \subseteq cut' /\ cut \subseteq cut'
  BY <1>2, Zenon DEF IInv
<1> QED BY <1>2, <1>3, <1>7, <1>10, <1>11, <1>12, <1>13, <1>14, ClientFrame, Zenon

\* What a settlement about to be concluded finds in the journal.
LEMMA SettlementCall ==
  ASSUME IInv, NEW r \in Runners, op[r] # None, op[r].call \notin Keys
  PROVE  /\ op[r].call \in Request /\ op[r].call.key \in Keys /\ op[r].call # None
         /\ Owner[op[r].call.key] = r /\ pending[op[r].call.key] = op[r].call
         /\ Granted(op[r].call.key) /\ dropped[r] = None
         /\ Saw(r, "recorded") => op[r].call \in settled
         /\ Saw(r, "absent") => op[r].call \notin settled \/ op[r].call \in cut
<1>1. op[r].call \in Request /\ op[r].call.key \in Keys /\ op[r].call # None
  BY CallTypes, TransportValues, Zenon DEF IInv
<1>2. SettleInv(r) /\ dropped[r] = None
  BY Zenon DEF IInv, CallInv
<1>3. pending[op[r].call.key] # None => Granted(op[r].call.key)
  BY <1>1, Zenon DEF IInv, JournalIsSound
<1> QED BY <1>1, <1>2, <1>3, Zenon DEF SettleInv

LEMMA PublishCompletionStep ==
  ASSUME IInv, NEW r \in Runners, PublishCompletion(r)
  PROVE  IInv'
<1>1. PICK q \in Request : q = op[r].call
  BY SettlementCall, Zenon DEF PublishCompletion, Saw
<1>2. PICK k \in Keys : k = q.key
  BY Zenon DEF Request
<1>3. /\ Saw(r, "recorded") /\ op[r] # None /\ intent' = CompletedIntent(q)
      /\ completed' = [completed EXCEPT ![k] = q] /\ pending' = [pending EXCEPT ![k] = None]
      /\ op' = [op EXCEPT ![r] = None]
      /\ UNCHANGED <<server, stray, crashes, cut, dropped>>
  BY <1>1, <1>2, Zenon DEF PublishCompletion, Done, Saw
<1>4. /\ Owner[k] = r /\ pending[k] = q /\ q # None /\ Granted(k) /\ q \in settled
      /\ dropped[r] = None
  BY <1>1, <1>2, <1>3, SettlementCall, Zenon DEF PublishCompletion
<1>5. SoundInv(k) /\ LedgerInv(k) /\ JournalInv(k) /\ DroppedInv(r) /\ intent[k] \in Intent
  BY <1>4, SoundRows, Zenon DEF IInv, TypeOK, Granted
<1> DEFINE row == IF q.kind = "Release" THEN None ELSE [intent[k] EXCEPT !.current = q.to]
<1>6. /\ row \in Intent \cup {None}
      /\ q.kind # "Release" => row # None /\ row.grant = intent[k].grant /\ row.current = q.to
  <2>1. CASE q.kind = "Release"
    BY <2>1, Zenon
  <2>2. CASE q.kind # "Release"
    <3>1. [intent[k] EXCEPT !.current = q.to] \in Intent
      BY <1>5, Zenon DEF Intent, Request
    <3>2. [intent[k] EXCEPT !.current = q.to] # None
      BY <3>1, TransportValues, Zenon
    <3> QED BY <1>5, <2>2, <3>1, <3>2, Zenon DEF Intent
  <2> QED BY <2>1, <2>2, Zenon
<1>7. intent' = [intent EXCEPT ![k] = row]
  BY <1>2, <1>3, Zenon DEF CompletedIntent
<1>8. row = None <=> q.kind = "Release"
  BY <1>6, Zenon
<1> HIDE DEF row
<1>9. /\ intent' \in [Keys -> Intent \cup {None}] /\ intent'[k] = row
      /\ pending' \in [Keys -> Request \cup {None}] /\ pending'[k] = None
      /\ completed' \in [Keys -> Request \cup {None}] /\ completed'[k] = q
      /\ \A j \in Keys \ {k} : intent'[j] = intent[j] /\ pending'[j] = pending[j]
                               /\ completed'[j] = completed[j]
      /\ op' \in [Runners -> Call \cup {None}] /\ op'[r] = None
      /\ \A u \in Runners \ {r} : op'[u] = op[u]
  <2>1. /\ intent \in [Keys -> Intent \cup {None}] /\ pending \in [Keys -> Request \cup {None}]
        /\ completed \in [Keys -> Request \cup {None}] /\ op \in [Runners -> Call \cup {None}]
    BY Zenon DEF IInv, TypeOK
  <2>2. intent' \in [Keys -> Intent \cup {None}] /\ intent'[k] = row
    BY <1>6, <1>7, <2>1, Zenon
  <2>3. pending' \in [Keys -> Request \cup {None}] /\ pending'[k] = None
    BY <1>3, <2>1, Zenon
  <2>4. completed' \in [Keys -> Request \cup {None}] /\ completed'[k] = q
    BY <1>3, <2>1, Zenon
  <2>5. \A j \in Keys \ {k} : intent'[j] = intent[j] /\ pending'[j] = pending[j]
                              /\ completed'[j] = completed[j]
    BY <1>3, <1>7, <2>1, Zenon
  <2>6. /\ op' \in [Runners -> Call \cup {None}] /\ op'[r] = None
        /\ \A u \in Runners \ {r} : op'[u] = op[u]
    BY <1>3, <2>1, Zenon
  <2> QED BY <2>2, <2>3, <2>4, <2>5, <2>6, Zenon
<1>10. UNCHANGED <<attempt, lease, due, fence, ready, authority, grants, settled>>
  BY <1>3, Zenon DEF server
<1>11. TypeOK'
  BY <1>3, <1>9, <1>10, Zenon DEF IInv, TypeOK
<1>12. SoundInv(k)'
  <2>1. intent[k].grant # None /\ intent[k].grant = grants[k] /\ q.to # None
    BY <1>4, <1>5, TransportValues, Zenon DEF SoundInv, Granted, Request
  <2> QED BY <1>4, <1>6, <1>8, <1>9, <1>10, <2>1, Zenon DEF SoundInv, Granted
<1>13. LedgerInv(k)' /\ JournalInv(k)'
  <2>1. q.kind = "Release" => lease # k
    BY <1>2, <1>4, <1>5, Zenon DEF LedgerInv
  <2> QED BY <1>2, <1>3, <1>5, <1>8, <1>9, <1>10, <2>1, Zenon DEF LedgerInv, JournalInv
<1>14. CallInv(r)' /\ DroppedInv(r)'
  BY <1>3, <1>5, <1>9, <1>10, Zenon DEF CallInv, DroppedInv
<1>15. stray' \subseteq cut' /\ cut \subseteq cut'
  BY <1>3, Zenon DEF IInv
<1>16. \A u \in Runners \ {r} : dropped'[u] = dropped[u]
  BY <1>3, Zenon
<1> QED BY <1>3, <1>4, <1>9, <1>11, <1>12, <1>13, <1>14, <1>15, <1>16, ClientFrame, Zenon

LEMMA DropRefusedStep ==
  ASSUME IInv, NEW r \in Runners, DropRefused(r)
  PROVE  IInv'
<1>1. /\ Saw(r, "absent") /\ op[r] # None /\ op' = [op EXCEPT ![r] = None]
      /\ dropped' = [dropped EXCEPT ![r] = op[r].call]
      /\ UNCHANGED <<server, completed, stray, crashes, cut>>
      /\ op[r].call \in Keys \cup Request
  BY CallTypes, Zenon DEF DropRefused, MayDrop, Done, Saw, IInv
<1>2. /\ op' \in [Runners -> Call \cup {None}] /\ op'[r] = None
      /\ dropped' \in [Runners -> Keys \cup Request \cup {None}] /\ dropped'[r] = op[r].call
      /\ \A u \in Runners \ {r} : op'[u] = op[u] /\ dropped'[u] = dropped[u]
  BY <1>1, Zenon DEF IInv, TypeOK
<1>3. UNCHANGED <<attempt, lease, due, fence, ready, authority, grants, settled>>
  BY <1>1, Zenon DEF server
<1>4. stray' \subseteq cut' /\ cut \subseteq cut' /\ CallInv(r)'
  BY <1>1, <1>2, Zenon DEF IInv, CallInv
<1>5. CASE op[r].call \in Keys
  <2>1. PICK k \in Keys : k = op[r].call
    BY <1>5, Zenon
  <2>2. /\ Owner[k] = r /\ intent[k] # None /\ intent[k].grant = None
        /\ (grants[k] = None \/ k \in cut)
    BY <1>1, <2>1, Zenon DEF IInv, CallInv, AcquireInv
  <2>3. intent' = [intent EXCEPT ![k] = None] /\ UNCHANGED pending
    BY <1>5, <2>1, Zenon DEF DropRefused
  <2>4. /\ intent' \in [Keys -> Intent \cup {None}] /\ intent'[k] = None
        /\ \A j \in Keys \ {k} : intent'[j] = intent[j]
    BY <2>3, Zenon DEF IInv, TypeOK
  <2>5. SoundInv(k) /\ LedgerInv(k) /\ JournalInv(k)
    BY SoundRows, Zenon DEF IInv
  <2>6. TypeOK'
    BY <1>1, <1>2, <1>3, <2>3, <2>4, Zenon DEF IInv, TypeOK
  <2>7. SoundInv(k)'
    BY <1>1, <1>3, <2>2, <2>3, <2>4, <2>5, Zenon DEF SoundInv, Granted
  <2>8. LedgerInv(k)' /\ JournalInv(k)'
    BY <1>1, <1>3, <2>2, <2>3, <2>4, <2>5, Zenon DEF LedgerInv, JournalInv
  <2>9. DroppedInv(r)'
    BY <1>2, <2>1, TransportValues, Zenon DEF DroppedInv
  <2> QED BY <1>1, <1>2, <1>4, <2>2, <2>3, <2>4, <2>6, <2>7, <2>8, <2>9, ClientFrame, Zenon
<1>6. CASE op[r].call \notin Keys
  <2>1. PICK q \in Request : q = op[r].call
    BY <1>1, <1>6, Zenon
  <2>2. PICK k \in Keys : k = q.key
    BY Zenon DEF Request
  <2>3. /\ Owner[k] = r /\ (q \notin settled \/ q \in cut)
    BY <1>1, <1>6, <2>1, <2>2, SettlementCall, Zenon
  <2>4. pending' = [pending EXCEPT ![k] = None] /\ UNCHANGED intent
    BY <1>6, <2>1, <2>2, Zenon DEF DropRefused
  <2>5. /\ pending' \in [Keys -> Request \cup {None}] /\ pending'[k] = None
        /\ \A j \in Keys \ {k} : pending'[j] = pending[j]
    BY <2>4, Zenon DEF IInv, TypeOK
  <2>6. SoundInv(k) /\ LedgerInv(k) /\ JournalInv(k)
    BY SoundRows, Zenon DEF IInv
  <2>7. TypeOK'
    BY <1>1, <1>2, <1>3, <2>4, <2>5, Zenon DEF IInv, TypeOK
  <2>8. SoundInv(k)'
    BY <1>1, <1>3, <2>4, <2>5, <2>6, Zenon DEF SoundInv, Granted
  <2>9. LedgerInv(k)' /\ JournalInv(k)'
    BY <1>1, <1>3, <2>4, <2>5, <2>6, Zenon DEF LedgerInv, JournalInv
  <2>10. DroppedInv(r)'
    BY <1>1, <1>2, <1>3, <2>1, <2>2, <2>3, Zenon DEF DroppedInv
  <2> QED BY <1>1, <1>2, <1>4, <2>3, <2>4, <2>5, <2>7, <2>8, <2>9, <2>10, ClientFrame, Zenon
<1> QED BY <1>5, <1>6, Zenon
-----------------------------------------------------------------------------
(* Every step, and what follows for any constants.                          *)

LEMMA ClientStepInv ==
  ASSUME IInv, NEW r \in Runners, ClientStep(r)
  PROVE  IInv'
<1>1. ASSUME NEW k \in Keys, NEW s \in AdvanceTargets, StartSettle(r, k, "Advance", s, FALSE)
      PROVE  IInv'
  BY <1>1, StartSettleStep, TransportConstants, Zenon
<1>2. ASSUME NEW k \in Keys, NEW s \in ReleaseTargets, NEW b \in Requeues,
             StartSettle(r, k, "Release", s, b)
      PROVE  IInv'
  <2>1. s \in AttemptStates /\ b \in BOOLEAN
    BY TransportConstants, Zenon DEF AttemptStates
  <2> QED BY <1>2, <2>1, StartSettleStep, Zenon
<1> QED BY <1>1, <1>2, StartAcquireStep, SendStep, ReadBackStep, PublishGrantStep,
           PublishCompletionStep, DropRefusedStep, ResendStep, EndStep, Zenon DEF ClientStep

LEMMA StepInv ==
  ASSUME IInv, [Next]_vars
  PROVE  IInv'
<1>1. CASE UNCHANGED vars
  <2>1. /\ UNCHANGED <<server, journal, op, stray, crashes, cut, dropped>>
    BY <1>1, Zenon DEF vars
  <2>2. op' \in [Runners -> Call \cup {None}]
        /\ \A r \in Runners : (op[r] = None => op'[r] = None) /\ Onward(r)
    BY <2>1, Zenon DEF IInv, TypeOK, Onward
  <2>3. ServerMove(None)
    BY <2>1, ServerStutters, Zenon
  <2> QED BY <2>1, <2>2, <2>3, ServerStep, Zenon
<1>2. CASE Next
  BY <1>2, ClientStepInv, LedgerMoves, Zenon DEF Next
<1> QED BY <1>1, <1>2, Zenon

LEMMA Inductive == Spec => []IInv
<1>1. IInv /\ [Next]_vars => IInv'
  BY StepInv, Zenon
<1> QED BY <1>1, InitInv, PTL DEF Spec

\* The rows of the ledger, the journal and the calls under way have their types.
THEOREM TransportTypes == Spec => []TypeOK
<1> QED BY Inductive, PTL DEF IInv

\* However requests and answers are lost and runners crash: the journal passes
\* RecoveryJournal::validate in every state a restart may find, and the grants
\* and settlements it holds are rows of the ledger.
THEOREM JournalStaysSound == Spec => []JournalIsSound
<1> QED BY Inductive, PTL DEF IInv

\* A lease that no journal knows of is held, and a settlement that was reported
\* as refused is recorded, only for a request that a crash had cut
\* (reconcile_acquire, publish_refusal).
THEOREM RefusalsTakeNoEffect == Spec => []RefusedTookNoEffect
<1>1. IInv => RefusedTookNoEffect
  BY Zenon DEF IInv, TypeOK, RefusedTookNoEffect, LedgerInv, DroppedInv
<1> QED BY <1>1, Inductive, PTL
-----------------------------------------------------------------------------
(* When the advances go round no cycle.                                     *)

LEMMA EdgesClimb ==
  ASSUME NEW s \in AttemptStates, NEW t \in AttemptStates, <<s, t>> \in AttemptTransition,
         s \notin {"Created", "Paused", "Checkpointing"}, t \notin {"Paused", "Checkpointing"}
  PROVE  Rank(s) < Rank(t) /\ t # "Created"
<1>1. \/ <<s, t>> \in {<<"Starting", "Running">>, <<"Running", "Preparing">>,
                       <<"Preparing", "Succeeded">>}
      \/ /\ s \in {"Starting", "Running", "Preparing"}
         /\ t \in {"Superseded", "Failed", "Crashed", "Cancelled", "Quarantined"}
  BY Zenon DEF AttemptTransition, LiveAttemptStates
<1> QED BY <1>1 DEF Rank

LEMMA AgreeInit == Init => AInv
<1> QED BY Zenon DEF Init, AInv, AgreeInv, ForwardInv, EdgeInv, Granted

\* The rows of a key stay, while settlements and cut calls are added.
LEMMA AgreeKept ==
  ASSUME NEW k \in Keys, AgreeInv(k), attempt'[k] = attempt[k], grants'[k] = grants[k],
         intent'[k] = intent[k], pending'[k] = pending[k], completed'[k] = completed[k],
         settled \subseteq settled', cut \subseteq cut'
  PROVE  AgreeInv(k)'
<1>1. Moved(k) => Moved(k)'
  BY Zenon DEF Moved
<1> QED BY <1>1, Zenon DEF AgreeInv, Granted

\* A reclaimed Attempt is one whatever the journal says.
LEMMA AgreeCrashed ==
  ASSUME NEW k \in Keys, attempt'[k].state = "Crashed"
  PROVE  AgreeInv(k)'
<1> QED BY Zenon DEF AgreeInv, Moved

\* What reclaim does to the Attempts.
LEMMA ReclaimedStates ==
  ASSUME IInv, NEW k \in Keys
  PROVE  Reclaimed[k] = attempt[k] \/ Reclaimed[k].state = "Crashed"
<1>1. CASE Reclaimable
  <2>1. /\ lease \in Keys /\ attempt[lease] \in AttemptRow
        /\ attempt \in [Keys -> AttemptRow \cup {None}]
    BY <1>1, Zenon DEF Reclaimable, IInv, TypeOK, LedgerInv
  <2> DEFINE row == [attempt[lease] EXCEPT !.state = "Crashed"]
  <2>2. row.state = "Crashed" /\ Reclaimed = [attempt EXCEPT ![lease] = row]
    BY <1>1, <2>1, Zenon DEF Reclaimed, AttemptRow
  <2> HIDE DEF row
  <2> QED BY <2>1, <2>2, Zenon
<1>2. CASE ~Reclaimable
  BY <1>2, Zenon DEF Reclaimed
<1> QED BY <1>1, <1>2, Zenon

LEMMA GrantAgrees ==
  ASSUME IInv, AInv, NEW k \in Keys, Grantable(k), Grant(k), UNCHANGED <<journal, cut>>
  PROVE  (\A j \in Keys : AgreeInv(j)') /\ ForwardInv'
<1>1. /\ UNCHANGED <<intent, pending, completed, settled>> /\ grants[k] = None
      /\ attempt[k] = None
      /\ attempt' = [Reclaimed EXCEPT ![k] = [fence |-> fence + 1, state |-> "Starting"]]
      /\ grants' = [grants EXCEPT ![k] = [fence |-> fence + 1, authority |-> authority]]
  BY Zenon DEF journal, Grant, Grantable
<1>2. /\ attempt'[k].state = "Starting"
      /\ \A j \in Keys \ {k} : attempt'[j] = Reclaimed[j] /\ grants'[j] = grants[j]
  BY <1>1, ReclaimedRows, Zenon DEF IInv, TypeOK
<1>3. \A j \in Keys \ {k} : attempt'[j] = attempt[j] \/ attempt'[j].state = "Crashed"
  BY <1>2, ReclaimedStates, Zenon
<1>4. \A j \in Keys \ {k} : AgreeInv(j)'
  <2> SUFFICES ASSUME NEW j \in Keys \ {k} PROVE AgreeInv(j)'
    BY Zenon
  <2>1. CASE attempt'[j].state = "Crashed"
    BY <2>1, AgreeCrashed, Zenon
  <2>2. CASE attempt'[j] = attempt[j]
    BY <1>1, <1>2, <2>2, AgreeKept, Zenon DEF AInv
  <2> QED BY <1>3, <2>1, <2>2, Zenon
<1>5. ~Granted(k) /\ pending[k] = None
  BY <1>1, TransportValues, Zenon DEF IInv, JournalIsSound, Granted
<1>6. AgreeInv(k)'
  BY <1>1, <1>2, <1>5, Zenon DEF AgreeInv, Granted
<1>7. ForwardInv'
  <2> SUFFICES ASSUME NEW q \in settled
               PROVE  Rank(q.from) < Rank(q.to) /\ Rank(q.to) <= Rank(attempt'[q.key].state)
    BY <1>1, Zenon DEF ForwardInv
  <2>1. q.key \in Keys \ {k}
    BY <1>1, Zenon DEF IInv, LedgerInv, TypeOK, Request
  <2>2. Rank(q.from) < Rank(q.to) /\ Rank(q.to) <= Rank(attempt[q.key].state)
    BY Zenon DEF AInv, ForwardInv
  <2> QED BY <1>3, <2>1, <2>2 DEF Rank
<1> QED BY <1>4, <1>6, <1>7, Zenon

LEMMA SettleAgrees ==
  ASSUME IInv, AInv, NEW q \in Request, Settleable(q), Settle(q), UNCHANGED <<journal, cut>>,
         q.to \notin {"Paused", "Checkpointing"}, q \in cut \/ pending[q.key] = q
  PROVE  (\A j \in Keys : AgreeInv(j)') /\ ForwardInv'
<1>1. PICK k \in Keys : k = q.key
  BY Zenon DEF Request
<1>2. /\ UNCHANGED <<intent, pending, completed, grants>> /\ settled' = settled \cup {q}
      /\ attempt' = [attempt EXCEPT ![k].state = q.to]
      /\ attempt[k].state = q.from /\ <<q.from, q.to>> \in AttemptTransition
      /\ grants[k] # None /\ attempt[k] # None
  BY <1>1, Zenon DEF journal, Settle, Settleable, SourceCurrent, IncarnationCurrent, IInv, LedgerInv
<1>3. /\ attempt'[k].state = q.to /\ \A j \in Keys \ {k} : attempt'[j] = attempt[j]
  BY <1>2 DEF IInv, TypeOK, AttemptRow
<1>4. Rank(q.from) < Rank(q.to) /\ q.to # "Created"
  <2>1. q.from \notin {"Created", "Paused", "Checkpointing"}
    BY <1>2, Zenon DEF AInv, AgreeInv
  <2> QED BY <1>2, <2>1, EdgesClimb, Zenon DEF Request
<1>5. \A j \in Keys \ {k} : AgreeInv(j)'
  BY <1>2, <1>3, AgreeKept, Zenon DEF AInv
<1>6. AgreeInv(k)'
  <2>1. CASE q \in cut
    <3>1. Moved(k)'
      BY <1>1, <1>2, <1>3, <2>1, Zenon DEF Moved
    <3> QED BY <1>3, <1>4, <3>1, Zenon DEF AgreeInv
  <2>2. CASE pending[k] = q
    <3>1. Granted(k) /\ q # None
      BY <2>2, TransportValues, Zenon DEF IInv, JournalIsSound
    <3> QED BY <1>2, <1>3, <1>4, <2>2, <3>1, Zenon DEF AgreeInv, Granted
  <2> QED BY <1>1, <2>1, <2>2, Zenon
<1>7. ForwardInv'
  <2> SUFFICES ASSUME NEW p \in settled'
               PROVE  Rank(p.from) < Rank(p.to) /\ Rank(p.to) <= Rank(attempt'[p.key].state)
    BY Zenon DEF ForwardInv
  <2>1. CASE p = q
    BY ONLY <1>1, <1>3, <1>4, <2>1 DEF Rank
  <2>2. CASE p \in settled /\ p.key = k
    <3>1. Rank(p.from) < Rank(p.to) /\ Rank(p.to) <= Rank(q.from)
      BY <1>2, <2>2, Zenon DEF AInv, ForwardInv
    <3>2. Rank(p.to) \in Int /\ Rank(q.from) \in Int /\ Rank(q.to) \in Int
      BY DEF Rank
    <3> QED BY <1>3, <1>4, <2>2, <3>1, <3>2
  <2>3. CASE p \in settled /\ p.key # k
    <3>1. p.key \in Keys
      BY <2>3, Zenon DEF IInv, TypeOK, Request
    <3> QED BY <1>3, <2>3, <3>1, Zenon DEF AInv, ForwardInv
  <2> QED BY <1>2, <2>1, <2>2, <2>3, Zenon
<1> QED BY <1>5, <1>6, <1>7, Zenon

\* The server leaves the Attempts, the grants and the settlements alone.
LEMMA StillAgrees ==
  ASSUME IInv, AInv, UNCHANGED <<attempt, grants, settled, intent, pending, completed>>,
         cut \subseteq cut'
  PROVE  (\A j \in Keys : AgreeInv(j)') /\ ForwardInv'
<1>1. \A j \in Keys : AgreeInv(j)'
  BY AgreeKept, Zenon DEF AInv
<1>2. ForwardInv'
  BY Zenon DEF AInv, ForwardInv
<1> QED BY <1>1, <1>2, Zenon

LEMMA ServeAgrees ==
  ASSUME IInv, AInv, NEW c \in Keys \cup Request, NEW answer, Serve(c, answer),
         UNCHANGED <<journal, cut>>, stray' \subseteq stray,
         c \in Request => \/ c \in stray
                         \/ pending[c.key] = c
  PROVE  AInv'
<1>1. EdgeInv'
  BY Zenon DEF AInv, EdgeInv, journal
<1>2. CASE UNCHANGED server
  BY <1>1, <1>2, StillAgrees, Zenon DEF AInv, server, journal
<1>3. CASE c \in Keys /\ Grantable(c) /\ Grant(c)
  BY <1>1, <1>3, GrantAgrees, Zenon DEF AInv
<1>4. CASE c \in Request /\ Settleable(c) /\ Settle(c)
  <2>1. c.to \notin {"Paused", "Checkpointing"} /\ (c \in cut \/ pending[c.key] = c)
    <3>1. c.key \in Keys /\ c # None
      BY <1>4, TransportValues, Zenon DEF Request
    <3>2. CASE c \in stray
      BY <1>4, <3>2, Zenon DEF AInv, EdgeInv, IInv
    <3>3. CASE pending[c.key] = c
      BY <3>1, <3>3, Zenon DEF AInv, EdgeInv
    <3> QED BY <1>4, <3>2, <3>3, Zenon
  <2> QED BY <1>1, <1>4, <2>1, SettleAgrees, Zenon DEF AInv
<1> QED BY <1>2, <1>3, <1>4, Zenon DEF Serve, ServeAcquire, ServeSettle

LEMMA LedgerMovesAgree ==
  ASSUME IInv, AInv, FallDue \/ Reap \/ AdvanceAuthority \/ \E c \in stray : ServeStray(c)
  PROVE  AInv'
<1>1. ASSUME FallDue \/ AdvanceAuthority PROVE AInv'
  <2>1. UNCHANGED <<attempt, grants, settled, intent, pending, completed, cut, stray>>
    BY <1>1, Zenon DEF FallDue, AdvanceAuthority, journal
  <2>2. EdgeInv'
    BY <2>1, Zenon DEF AInv, EdgeInv
  <2> QED BY <2>1, <2>2, StillAgrees, Zenon DEF AInv
<1>2. ASSUME Reap PROVE AInv'
  <2>1. /\ UNCHANGED <<grants, settled, intent, pending, completed, cut, stray>>
        /\ attempt' = Reclaimed
    BY <1>2, Zenon DEF Reap, journal
  <2>2. \A k \in Keys : attempt'[k] = attempt[k] \/ attempt'[k].state = "Crashed"
    BY <2>1, ReclaimedStates, Zenon
  <2>3. \A k \in Keys : AgreeInv(k)'
    <3> SUFFICES ASSUME NEW k \in Keys PROVE AgreeInv(k)'
      BY Zenon
    <3>1. CASE attempt'[k].state = "Crashed"
      BY <3>1, AgreeCrashed, Zenon
    <3>2. CASE attempt'[k] = attempt[k]
      BY <2>1, <3>2, AgreeKept, Zenon DEF AInv
    <3> QED BY <2>2, <3>1, <3>2, Zenon
  <2>4. ForwardInv'
    <3> SUFFICES ASSUME NEW q \in settled
                 PROVE  Rank(q.from) < Rank(q.to) /\ Rank(q.to) <= Rank(attempt'[q.key].state)
      BY <2>1, Zenon DEF ForwardInv
    <3>1. q.key \in Keys
      BY Zenon DEF IInv, TypeOK, Request
    <3>2. Rank(q.from) < Rank(q.to) /\ Rank(q.to) <= Rank(attempt[q.key].state)
      BY Zenon DEF AInv, ForwardInv
    <3> QED BY <2>2, <3>1, <3>2 DEF Rank
  <2>5. EdgeInv'
    BY <2>1, Zenon DEF AInv, EdgeInv
  <2> QED BY <2>3, <2>4, <2>5, Zenon DEF AInv
<1>3. ASSUME NEW c \in stray, ServeStray(c) PROVE AInv'
  <2>1. c \in Keys \cup Request
    BY Zenon DEF IInv, TypeOK
  <2>2. PICK answer \in {"ok", "refused"} : Serve(c, answer)
    BY <1>3, Zenon DEF ServeStray
  <2>3. UNCHANGED <<journal, cut>> /\ stray' \subseteq stray
    BY <1>3, Zenon DEF ServeStray
  <2> QED BY <2>1, <2>2, <2>3, ServeAgrees, Zenon
<1> QED BY <1>1, <1>2, <1>3, Zenon

LEMMA SendAgrees ==
  ASSUME IInv, AInv, NEW r \in Runners,
         SendAnswered(r) \/ SendServedAnswerLost(r) \/ SendNotServed(r)
  PROVE  AInv'
<1>1. /\ Sending(r) /\ op[r] # None /\ UNCHANGED <<journal, stray, cut>>
  BY Zenon DEF SendAnswered, SendServedAnswerLost, SendNotServed, Sending
<1>2. /\ op[r].call \in Keys \cup Request
      /\ op[r].call \in Request => pending[op[r].call.key] = op[r].call
  <2>1. op[r].call \in Keys \cup Request
    BY <1>1, CallTypes, Zenon DEF IInv
  <2>2. op[r].call \in Request => op[r].call \notin Keys
    BY TransportValues, Zenon
  <2> QED BY <1>1, <2>1, <2>2, SettlementCall, Zenon
<1>3. CASE UNCHANGED server
  <2>1. UNCHANGED <<attempt, grants, settled, intent, pending, completed, cut, stray>>
    BY <1>1, <1>3, Zenon DEF server, journal
  <2>2. EdgeInv'
    BY <2>1, Zenon DEF AInv, EdgeInv
  <2> QED BY <2>1, <2>2, StillAgrees, Zenon DEF AInv
<1>4. CASE \E answer \in {"ok", "refused"} : Serve(op[r].call, answer)
  BY <1>1, <1>2, <1>4, ServeAgrees, Zenon
<1> QED BY <1>3, <1>4, Zenon DEF SendAnswered, SendServedAnswerLost, SendNotServed

\* A step of a client on the journal rows of one key.
LEMMA ClientAgrees ==
  ASSUME IInv, AInv, NEW k \in Keys, UNCHANGED <<attempt, grants, settled, cut>>,
         \A j \in Keys \ {k} : /\ intent'[j] = intent[j] /\ pending'[j] = pending[j]
                               /\ completed'[j] = completed[j],
         AgreeInv(k)', EdgeInv'
  PROVE  AInv'
<1>1. \A j \in Keys \ {k} : AgreeInv(j)'
  BY AgreeKept, Zenon DEF AInv
<1>2. ForwardInv'
  BY Zenon DEF AInv, ForwardInv
<1> QED BY <1>1, <1>2, Zenon DEF AInv

LEMMA StartAcquireAgrees ==
  ASSUME IInv, AInv, NEW r \in Runners, NEW k \in Keys, StartAcquire(r, k)
  PROVE  AInv'
<1> DEFINE row == [grant |-> None, current |-> None]
<1>1. /\ UNCHANGED <<attempt, grants, settled, pending, completed, cut, stray>>
      /\ intent' = IF intent[k] = None THEN [intent EXCEPT ![k] = row] ELSE intent
  BY Zenon DEF StartAcquire, server
<1>2. row.grant = None
  BY Zenon
<1> HIDE DEF row
<1>3. /\ \A j \in Keys \ {k} : intent'[j] = intent[j]
      /\ intent'[k] = IF intent[k] = None THEN row ELSE intent[k]
  BY <1>1, Zenon DEF IInv, TypeOK
<1>4. AgreeInv(k)'
  <2>1. AgreeInv(k) /\ (pending[k] # None => intent[k] # None)
    BY Zenon DEF AInv, IInv, JournalIsSound, Granted
  <2>2. Moved(k)' <=> Moved(k)
    BY <1>1, Zenon DEF Moved
  <2>3. Granted(k)' <=> Granted(k)
    BY <1>2, <1>3, Zenon DEF Granted
  <2>4. Granted(k) => intent'[k] = intent[k]
    BY <1>3, Zenon DEF Granted
  <2> QED BY <1>1, <2>1, <2>2, <2>3, <2>4, Zenon DEF AgreeInv
<1>5. EdgeInv'
  BY <1>1, Zenon DEF AInv, EdgeInv
<1> QED BY <1>1, <1>3, <1>4, <1>5, ClientAgrees, Zenon

LEMMA StartSettleAgrees ==
  ASSUME IInv, AInv, NEW r \in Runners, NEW k \in Keys, NEW kind \in {"Advance", "Release"},
         NEW to \in AttemptStates, to \notin {"Paused", "Checkpointing"},
         NEW requeue \in BOOLEAN, StartSettle(r, k, kind, to, requeue)
  PROVE  AInv'
<1>1. UNCHANGED <<attempt, grants, settled, intent, completed, cut, stray>>
  BY Zenon DEF StartSettle, server
<1>2. CASE UNCHANGED pending
  <2>1. EdgeInv'
    BY <1>1, <1>2, Zenon DEF AInv, EdgeInv
  <2> QED BY <1>1, <1>2, <2>1, StillAgrees, Zenon DEF AInv
<1>3. CASE /\ Granted(k) /\ pending[k] = None
           /\ pending' = [pending EXCEPT ![k] = Implied(kind, k, to, requeue)]
  <2>1. PICK q \in Request : /\ q = Implied(kind, k, to, requeue) /\ q # None
                             /\ q.to = to /\ q.from = intent[k].current
    BY <1>3, ImpliedRequest
  <2>2. pending'[k] = q /\ \A j \in Keys \ {k} : pending'[j] = pending[j]
    BY <1>3, <2>1, Zenon DEF IInv, TypeOK
  <2>3. AgreeInv(k)'
    <3>1. AgreeInv(k) /\ (Granted(k)' <=> Granted(k))
      BY <1>1, Zenon DEF AInv, Granted
    <3>2. Moved(k)' <=> Moved(k)
      BY <1>1, Zenon DEF Moved
    <3> QED BY <1>1, <1>3, <2>1, <2>2, <3>1, <3>2, Zenon DEF AgreeInv
  <2>4. EdgeInv'
    BY <1>1, <2>1, <2>2, Zenon DEF AInv, EdgeInv
  <2> QED BY <1>1, <2>2, <2>3, <2>4, ClientAgrees, Zenon
<1> QED BY <1>2, <1>3, Zenon DEF StartSettle, Reserve

LEMMA PublishGrantAgrees ==
  ASSUME IInv, AInv, NEW r \in Runners, PublishGrant(r)
  PROVE  AInv'
<1>1. PICK k \in Keys : k = op[r].call
  BY Zenon DEF PublishGrant
<1> DEFINE row == [grant |-> grants[k], current |-> "Starting"]
<1>2. /\ Saw(r, "recorded") /\ op[r] # None
      /\ intent' = IF intent[k].grant = None THEN [intent EXCEPT ![k] = row] ELSE intent
      /\ UNCHANGED <<attempt, grants, settled, pending, completed, cut, stray>>
  BY <1>1, Zenon DEF PublishGrant, Saw, server
<1>3. /\ intent[k] # None /\ completed[k] = None /\ grants[k] # None
  BY <1>1, <1>2, Zenon DEF IInv, CallInv, AcquireInv
<1>4. row.current = "Starting"
  BY Zenon
<1> HIDE DEF row
<1>5. /\ \A j \in Keys \ {k} : intent'[j] = intent[j]
      /\ intent'[k] = IF intent[k].grant = None THEN row ELSE intent[k]
  BY <1>2, Zenon DEF IInv, TypeOK
<1>6. AgreeInv(k)'
  <2>1. AgreeInv(k) /\ (pending[k] # None => Granted(k))
    BY Zenon DEF AInv, IInv, JournalIsSound
  <2>2. Moved(k)' <=> Moved(k)
    BY <1>2, Zenon DEF Moved
  <2>3. CASE Granted(k)
    <3>1. intent'[k] = intent[k]
      BY <1>5, <2>3, Zenon DEF Granted
    <3> QED BY <1>2, <2>1, <2>2, <2>3, <3>1, Zenon DEF AgreeInv, Granted
  <2>4. CASE ~Granted(k)
    <3>1. intent'[k] = row /\ pending'[k] = None
      BY <1>2, <1>3, <1>5, <2>1, <2>4, Zenon DEF Granted
    <3>2. attempt[k].state = "Starting" \/ Moved(k)
      BY <1>3, <2>1, <2>4, Zenon DEF AgreeInv
    <3> QED BY <1>2, <1>4, <2>1, <2>2, <3>1, <3>2, Zenon DEF AgreeInv
  <2> QED BY <2>3, <2>4, Zenon
<1>7. EdgeInv'
  BY <1>2, Zenon DEF AInv, EdgeInv
<1> QED BY <1>2, <1>5, <1>6, <1>7, ClientAgrees, Zenon

LEMMA PublishCompletionAgrees ==
  ASSUME IInv, AInv, NEW r \in Runners, PublishCompletion(r)
  PROVE  AInv'
<1>1. PICK q \in Request : q = op[r].call
  BY SettlementCall, Zenon DEF PublishCompletion, Saw
<1>2. PICK k \in Keys : k = q.key
  BY Zenon DEF Request
<1>3. /\ Saw(r, "recorded") /\ op[r] # None /\ intent' = CompletedIntent(q)
      /\ completed' = [completed EXCEPT ![k] = q] /\ pending' = [pending EXCEPT ![k] = None]
      /\ UNCHANGED <<attempt, grants, settled, cut, stray>>
  BY <1>1, <1>2, Zenon DEF PublishCompletion, Saw, server
<1>4. /\ pending[k] = q /\ q # None /\ Granted(k) /\ q \in settled
  BY <1>1, <1>2, <1>3, SettlementCall, Zenon DEF PublishCompletion
<1>5. /\ \A j \in Keys \ {k} : /\ intent'[j] = intent[j] /\ pending'[j] = pending[j]
                                /\ completed'[j] = completed[j]
      /\ pending'[k] = None /\ completed'[k] = q
  BY <1>2, <1>3, Zenon DEF IInv, TypeOK, CompletedIntent
<1>6. IF q.kind = "Release" THEN intent'[k] = None ELSE intent'[k].current = q.to
  <2>1. intent[k] \in Intent /\ intent \in [Keys -> Intent \cup {None}]
    BY <1>4, Zenon DEF IInv, TypeOK, Granted
  <2>2. CASE q.kind = "Release"
    BY <1>2, <1>3, <2>1, <2>2, Zenon DEF CompletedIntent
  <2>3. CASE q.kind # "Release"
    BY <1>2, <1>3, <2>1, <2>3, Zenon DEF CompletedIntent, Intent
  <2> QED BY <2>2, <2>3, Zenon
<1>7. attempt[k].state = q.to \/ Moved(k)
  <2>1. Rank(q.from) < Rank(q.to) /\ Rank(q.to) <= Rank(attempt[k].state)
    BY <1>2, <1>4, Zenon DEF AInv, ForwardInv
  <2>2. attempt[k].state # q.from
    BY <2>1 DEF Rank
  <2>3. AgreeInv(k)
    BY Zenon DEF AInv
  <2> QED BY <1>4, <2>2, <2>3, Zenon DEF AgreeInv
<1>8. AgreeInv(k)'
  <2>1. AgreeInv(k) /\ (Moved(k)' <=> Moved(k))
    BY <1>3, Zenon DEF AInv, Moved
  <2> QED BY <1>3, <1>4, <1>5, <1>6, <1>7, <2>1, Zenon DEF AgreeInv, Granted
<1>9. EdgeInv'
  BY <1>3, <1>5, Zenon DEF AInv, EdgeInv
<1> QED BY <1>3, <1>5, <1>8, <1>9, ClientAgrees, Zenon

LEMMA DropRefusedAgrees ==
  ASSUME IInv, AInv, NEW r \in Runners, DropRefused(r)
  PROVE  AInv'
<1>1. /\ Saw(r, "absent") /\ op[r] # None
      /\ UNCHANGED <<attempt, grants, settled, completed, cut, stray>>
      /\ op[r].call \in Keys \cup Request
  BY CallTypes, Zenon DEF DropRefused, MayDrop, Saw, IInv, server
<1>2. CASE op[r].call \in Keys
  <2>1. PICK k \in Keys : k = op[r].call
    BY <1>2, Zenon
  <2>2. intent[k].grant = None
    BY <1>1, <2>1, Zenon DEF IInv, CallInv, AcquireInv
  <2>3. intent' = [intent EXCEPT ![k] = None] /\ UNCHANGED pending
    BY <1>2, <2>1, Zenon DEF DropRefused
  <2>4. /\ intent'[k] = None /\ \A j \in Keys \ {k} : intent'[j] = intent[j]
    BY <2>3, Zenon DEF IInv, TypeOK
  <2>5. AgreeInv(k)'
    <3>1. AgreeInv(k) /\ (Moved(k)' <=> Moved(k)) /\ ~Granted(k) /\ ~Granted(k)'
      BY <1>1, <2>2, <2>4, Zenon DEF AInv, Moved, Granted
    <3> QED BY <1>1, <2>3, <3>1, Zenon DEF AgreeInv
  <2>6. EdgeInv'
    BY <1>1, <2>3, Zenon DEF AInv, EdgeInv
  <2> QED BY <1>1, <2>3, <2>4, <2>5, <2>6, ClientAgrees, Zenon
<1>3. CASE op[r].call \notin Keys
  <2>1. PICK q \in Request : q = op[r].call
    BY <1>1, <1>3, Zenon
  <2>2. PICK k \in Keys : k = q.key
    BY Zenon DEF Request
  <2>3. /\ pending[k] = q /\ q # None /\ Granted(k) /\ (q \notin settled \/ q \in cut)
    BY <1>1, <1>3, <2>1, <2>2, SettlementCall, Zenon
  <2>4. pending' = [pending EXCEPT ![k] = None] /\ UNCHANGED intent
    BY <1>3, <2>1, <2>2, Zenon DEF DropRefused
  <2>5. /\ pending'[k] = None /\ \A j \in Keys \ {k} : pending'[j] = pending[j]
    BY <2>4, Zenon DEF IInv, TypeOK
  <2>6. AgreeInv(k)'
    <3>1. /\ AgreeInv(k) /\ (Moved(k)' <=> Moved(k)) /\ (Granted(k)' <=> Granted(k))
          /\ intent[k].current = q.from
      BY <1>1, <2>3, <2>4, Zenon DEF AInv, Moved, Granted, IInv, JournalIsSound
    <3>2. q \in settled /\ attempt[k].state = q.to => Moved(k)
      BY <2>2, <2>3, Zenon DEF Moved
    <3> QED BY <1>1, <2>3, <2>4, <2>5, <3>1, <3>2, Zenon DEF AgreeInv
  <2>7. EdgeInv'
    BY <1>1, <2>5, Zenon DEF AInv, EdgeInv
  <2> QED BY <1>1, <2>4, <2>5, <2>6, <2>7, ClientAgrees, Zenon
<1> QED BY <1>2, <1>3, Zenon

LEMMA OpAgrees ==
  ASSUME IInv, AInv, NEW r \in Runners, ReadBack(r) \/ Resend(r) \/ GiveUp(r) \/ Crash(r)
  PROVE  AInv'
<1>1. /\ UNCHANGED <<attempt, grants, settled, intent, pending, completed>>
      /\ cut \subseteq cut' /\ op[r] # None
  BY Zenon DEF ReadBack, Resend, GiveUp, Crash, Saw, MayDrop, server, journal
<1>2. EdgeInv'
  <2>1. CASE UNCHANGED stray
    BY <1>1, <2>1, Zenon DEF AInv, EdgeInv
  <2>2. CASE stray' = stray \cup {op[r].call}
    <3>1. op[r].call \in Request =>
            pending[op[r].call.key] = op[r].call /\ op[r].call # None /\ op[r].call.key \in Keys
      BY <1>1, SettlementCall, TransportValues, Zenon DEF Request
    <3>2. op[r].call \in Request => op[r].call.to \notin {"Paused", "Checkpointing"}
      BY <3>1, Zenon DEF AInv, EdgeInv
    <3> QED BY <1>1, <2>2, <3>2, Zenon DEF AInv, EdgeInv
  <2> QED BY <2>1, <2>2, Zenon DEF ReadBack, Resend, GiveUp, Crash
<1> QED BY <1>1, <1>2, StillAgrees, Zenon DEF AInv

LEMMA AgreeStep ==
  ASSUME IInv, AInv, NoCycle, [Next]_vars
  PROVE  AInv'
<1>1. CASE UNCHANGED vars
  <2>1. UNCHANGED <<attempt, grants, settled, intent, pending, completed, cut, stray>>
    BY <1>1, Zenon DEF vars, server, journal
  <2>2. EdgeInv'
    BY <2>1, Zenon DEF AInv, EdgeInv
  <2> QED BY <2>1, <2>2, StillAgrees, Zenon DEF AInv
<1>2. ASSUME NEW r \in Runners, ClientStep(r) PROVE AInv'
  <2>1. CASE \E k \in Keys : StartAcquire(r, k)
    BY <2>1, StartAcquireAgrees, Zenon
  <2>2. CASE \E k \in Keys, s \in AdvanceTargets : StartSettle(r, k, "Advance", s, FALSE)
    <3>1. \A s \in AdvanceTargets : s \in AttemptStates /\ s \notin {"Paused", "Checkpointing"}
      BY TransportConstants, Zenon DEF NoCycle
    <3> QED BY <2>2, <3>1, StartSettleAgrees, Zenon
  <2>3. CASE \E k \in Keys, s \in ReleaseTargets, b \in Requeues :
               StartSettle(r, k, "Release", s, b)
    <3>1. \A s \in ReleaseTargets : s \in AttemptStates /\ s \notin {"Paused", "Checkpointing"}
      BY TransportConstants, Zenon DEF TerminalAttemptStates, AttemptStates
    <3>2. \A b \in Requeues : b \in BOOLEAN
      BY TransportConstants, Zenon
    <3> QED BY <2>3, <3>1, <3>2, StartSettleAgrees, Zenon
  <2> QED BY <1>2, <2>1, <2>2, <2>3, SendAgrees, OpAgrees, PublishGrantAgrees,
             PublishCompletionAgrees, DropRefusedAgrees, Zenon DEF ClientStep
<1> QED BY <1>1, <1>2, LedgerMovesAgree, Zenon DEF Next

\* What the signed client concludes from its journal is true of the ledger
\* (recovery/settlement.rs: reconcile, publish_completion, publish_refusal), for
\* the advances run_attempt asks for.  Where an advance may take the Attempt back to a
\* state it left, the conclusion does not hold: one request is then two edges.
THEOREM AnswersStayTrue == NoCycle => (Spec => []AnswersAreTrue)
<1> SUFFICES ASSUME NoCycle PROVE Spec => []AnswersAreTrue
  BY Zenon
<1>1. Init => AInv
  BY AgreeInit, Zenon
<1>2. IInv /\ AInv /\ [Next]_vars => AInv'
  BY AgreeStep, Zenon
<1>3. IInv /\ AInv => JournalAgrees
  BY Zenon DEF AInv, AgreeInv, JournalAgrees, Moved
<1>4. Spec => []AInv
  BY <1>1, <1>2, Inductive, PTL DEF Spec
<1>5. IInv /\ AInv /\ RefusedTookNoEffect => AnswersAreTrue
  BY <1>3, Zenon DEF AnswersAreTrue
<1> QED BY <1>4, <1>5, Inductive, RefusalsTakeNoEffect, PTL
=============================================================================
