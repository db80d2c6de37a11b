-------------------------- MODULE OperatorSessions --------------------------
(***************************************************************************)
(* Operator authentication of bullet-farmd and the event stream it guards: *)
(* a one-time bootstrap token registered at start, the browser session it  *)
(* is exchanged for, revocation, and requests that are authorised on one   *)
(* connection to the ledger and served on another.                         *)
(*                                                                         *)
(* A session is named by the token it came from, since bootstrap_digest is *)
(* unique in operator_sessions; bearer, CSRF token and operator identity   *)
(* are fixed with the row.  A served ledger has no pending restore         *)
(* (StoreBackup), so the restore epoch of all rows is the current one.     *)
(* Times are in units of which a bootstrap lives BootstrapLife and a       *)
(* session SessionLife; the clock is the wall clock and may be set back.   *)
(***************************************************************************)
EXTENDS Integers, Sequences

CONSTANTS
  Tokens,         \* bootstrap tokens a daemon may be started with
  Origins,        \* Portal origins it may be started with
  Browsers,       \* connections to the daemon
  BootstrapLife,  \* BOOTSTRAP_SECONDS
  SessionLife,    \* BROWSER_SESSION_SECONDS
  MaxReplay,      \* MAX_REPLAY_EVENTS
  Batch,          \* REPLAY_BATCH_SIZE
  MaxWall,        \* bound: the clock
  MaxLog,         \* bound: events in the ledger
  NoSession       \* no row, no token, no daemon

ASSUME OperatorConstants ==
  /\ BootstrapLife \in Nat /\ SessionLife \in Nat
  /\ MaxReplay \in Nat /\ Batch \in Nat

VARIABLES
  wall,       \* unixepoch()
  bootstrap,  \* operator_bootstraps: token -> row
  session,    \* operator_sessions: token -> row
  revoked,    \* operator_session_revocations
  daemon,     \* the running daemon's configuration
  browser,    \* browser -> its request, or the stream it reads
  received,   \* browser -> the event sequence numbers its streams delivered
  late,       \* browser -> frames since the session of its stream was last valid
  log         \* the latest event sequence

sessionVars ==
  <<wall, bootstrap, session, revoked, daemon, browser, received, late, log>>

sessionRows == <<bootstrap, session, revoked, daemon>>
reading == <<browser, received, late>>

Quiet == [at |-> "idle"]

SessionInit ==
  /\ wall = 0
  /\ bootstrap = [t \in Tokens |-> NoSession]
  /\ session = [t \in Tokens |-> NoSession]
  /\ revoked = {}
  /\ daemon = NoSession
  /\ browser = [b \in Browsers |-> Quiet]
  /\ received = [b \in Browsers |-> <<>>]
  /\ late = [b \in Browsers |-> 0]
  /\ log = 0

\* read: the row is of this origin, in its lifetime and not revoked.
ReadSession(t) ==
  /\ session[t] # NoSession
  /\ session[t].origin = daemon.origin
  /\ session[t].issued <= wall /\ wall < session[t].expires
  /\ t \notin revoked

\* A stream whose session is valid again at the new time is not late.
SetWall(now) ==
  /\ wall' = now
  /\ UNCHANGED <<sessionRows, browser, received, log>>
  /\ late' = [b \in Browsers |->
       IF browser[b] # Quiet /\ ReadSession(browser[b].session)' THEN 0 ELSE late[b]]

TickSessions == wall < MaxWall /\ SetWall(wall + 1)

WallSetBack == wall > 0 /\ SetWall(wall - 1)

-----------------------------------------------------------------------------
(* Bootstrap, exchange, revocation.                                        *)

\* Bug: registering a known token starts its lifetime again.
RegisterAgain(t, origin) ==
  /\ bootstrap[t] # NoSession => bootstrap[t].origin = origin
  /\ bootstrap' = [bootstrap EXCEPT ![t] =
       [origin |-> origin, issued |-> wall, expires |-> wall + BootstrapLife]]

\* register_operator_bootstrap: a known token keeps its row and must come
\* with the origin it was registered for.
RegisterBootstrap(t, origin) ==
  IF bootstrap[t] # NoSession
  THEN bootstrap[t].origin = origin /\ UNCHANGED bootstrap
  ELSE bootstrap' = [bootstrap EXCEPT ![t] =
         [origin |-> origin, issued |-> wall, expires |-> wall + BootstrapLife]]

\* daemon(): with a token, or without one, when no session can be issued.
StartDaemon(t, origin) ==
  /\ daemon = NoSession
  /\ IF t = NoSession THEN UNCHANGED bootstrap ELSE RegisterBootstrap(t, origin)
  /\ daemon' = [token |-> t, origin |-> origin]
  /\ UNCHANGED <<wall, session, revoked, reading, log>>

\* The daemon ends; its connections end with it.
StopDaemon ==
  /\ daemon # NoSession
  /\ daemon' = NoSession
  /\ browser' = [b \in Browsers |-> Quiet]
  /\ UNCHANGED <<wall, bootstrap, session, revoked, received, late, log>>

\* exchange, which serves the token this daemon was started with.
ExchangeBootstrap ==
  LET t == daemon.token IN
  /\ daemon # NoSession /\ t # NoSession
  /\ bootstrap[t].origin = daemon.origin
  /\ session[t] = NoSession
  /\ bootstrap[t].issued <= wall /\ wall < bootstrap[t].expires
  /\ session' = [session EXCEPT ![t] =
       [origin |-> daemon.origin, issued |-> wall, expires |-> wall + SessionLife]]
  /\ UNCHANGED <<wall, bootstrap, revoked, daemon, reading, log>>

-----------------------------------------------------------------------------
(* Requests.  Each await of the auth or the ledger lock is a step, and the *)
(* request is dropped when its browser goes away or the session is refused.*)

Set(b, next) == browser' = [browser EXCEPT ![b] = next]

\* require_session, the middleware of every operator route.
RequireSession(b, t, route) ==
  /\ daemon # NoSession /\ browser[b] = Quiet
  /\ ReadSession(t)
  /\ Set(b, [at |-> "admitted", session |-> t, route |-> route])
  /\ UNCHANGED <<wall, sessionRows, received, late, log>>

\* submit: the handler authorises the mutation once more and lets the auth
\* lock go.
AuthorizeMutation(b) ==
  /\ browser[b].at = "admitted" /\ browser[b].route = "submit"
  /\ Set(b, IF ReadSession(browser[b].session)
            THEN [browser[b] EXCEPT !.at = "authorized"] ELSE Quiet)
  /\ UNCHANGED <<wall, sessionRows, received, late, log>>

\* The command is submitted in a transaction of its own and adds an event.
SubmitAuthorized(b) ==
  /\ browser[b].at = "authorized"
  /\ log < MaxLog /\ log' = log + 1
  /\ Set(b, Quiet)
  /\ UNCHANGED <<wall, sessionRows, received, late>>

\* revoke: authorised, and read again in the transaction that revokes, with
\* the auth lock held throughout.
RevokeSession(b) ==
  LET t == browser[b].session IN
  /\ browser[b].at = "admitted" /\ browser[b].route = "revoke"
  /\ revoked' = IF ReadSession(t) THEN revoked \cup {t} ELSE revoked
  /\ Set(b, Quiet)
  /\ UNCHANGED <<wall, bootstrap, session, daemon, received, late, log>>

-----------------------------------------------------------------------------
(* The event stream.                                                       *)

\* The cursor a browser resumes from: the last event it received.
ResumeAfter(b) == Len(received[b])

\* The sequence numbers of up to n events after one.
After(last, n) == [i \in 1..(IF log - last < n THEN log - last ELSE n) |-> last + i]

\* events: the permit is issued for the session that opens the stream.
IssuePermit(b) ==
  /\ browser[b].at = "admitted" /\ browser[b].route = "events"
  /\ Set(b, IF ReadSession(browser[b].session)
            THEN [browser[b] EXCEPT !.at = "preflight"] ELSE Quiet)
  /\ UNCHANGED <<wall, sessionRows, received, late, log>>

\* replay_preflight: the cursor must lie inside the log and the bounded
\* window, which is then read in the same snapshot.
ReplayPreflight(b) ==
  /\ browser[b].at = "preflight"
  /\ IF log - ResumeAfter(b) \in 0..MaxReplay
     THEN /\ Set(b, [at |-> "check", session |-> browser[b].session,
                     last |-> ResumeAfter(b), buffer |-> After(ResumeAfter(b), MaxReplay)])
          /\ late' = [late EXCEPT ![b] = 0]
     ELSE Set(b, Quiet) /\ UNCHANGED late
  /\ UNCHANGED <<wall, sessionRows, received, log>>

\* Bug: the permit is checked when the buffer is filled and not per frame.
StaysCurrent(b) ==
  IF browser[b].buffer # <<>> \/ ReadSession(browser[b].session)
  THEN Set(b, [browser[b] EXCEPT !.at = "deliver"])
  ELSE Set(b, Quiet)

\* is_current.
PermitIsCurrent(b) ==
  IF ReadSession(browser[b].session)
  THEN Set(b, [browser[b] EXCEPT !.at = "deliver"])
  ELSE Set(b, Quiet)

\* The top of event_stream's loop.
CheckPermit(b) ==
  /\ browser[b].at = "check"
  /\ PermitIsCurrent(b)
  /\ UNCHANGED <<wall, sessionRows, received, late, log>>

\* Its body: a buffered event becomes a frame; otherwise the next batch is
\* read and validated to follow the last one.
DeliverFrame(b) ==
  LET s == browser[b] IN
  /\ s.at = "deliver"
  /\ IF s.buffer # <<>>
     THEN /\ received' = [received EXCEPT ![b] = Append(@, Head(s.buffer))]
          /\ late' = [late EXCEPT ![b] = IF ReadSession(s.session) THEN @ ELSE @ + 1]
          /\ Set(b, [s EXCEPT !.at = "check", !.last = Head(s.buffer), !.buffer = Tail(@)])
     ELSE /\ Set(b, [s EXCEPT !.at = "check", !.buffer = After(s.last, Batch)])
          /\ UNCHANGED <<received, late>>
  /\ UNCHANGED <<wall, sessionRows, log>>

\* The browser goes away, or an error ends the request or the stream.
Disconnect(b) ==
  /\ browser[b] # Quiet
  /\ Set(b, Quiet)
  /\ UNCHANGED <<wall, sessionRows, received, late, log>>

SessionNext ==
  \/ TickSessions \/ WallSetBack
  \/ \E t \in Tokens \cup {NoSession}, o \in Origins : StartDaemon(t, o)
  \/ StopDaemon \/ ExchangeBootstrap
  \/ \E b \in Browsers :
       \/ \E t \in Tokens, r \in {"submit", "revoke", "events"} : RequireSession(b, t, r)
       \/ AuthorizeMutation(b) \/ SubmitAuthorized(b) \/ RevokeSession(b)
       \/ IssuePermit(b) \/ ReplayPreflight(b) \/ CheckPermit(b) \/ DeliverFrame(b)
       \/ Disconnect(b)

SessionSpec == SessionInit /\ [][SessionNext]_sessionVars

-----------------------------------------------------------------------------
SessionTypeOK ==
  /\ wall \in 0..MaxWall /\ log \in 0..MaxLog
  /\ revoked \subseteq {t \in Tokens : session[t] # NoSession}
  /\ \A b \in Browsers : received[b] \in Seq(1..MaxLog) /\ late[b] \in Nat

\* "An open stream never extends authority": whoever revokes, restarts or
\* lets time pass, a stream delivers at most one frame after its session has
\* ended, the one whose check came before; and over all its streams and
\* reconnects a browser receives every event of the log once, in order.
StreamIsHonest ==
  \A b \in Browsers :
    /\ late[b] <= 1
    /\ \A i \in DOMAIN received[b] : received[b][i] = i

\* A session that is not valid becomes valid only by the exchange that creates
\* it, by the clock being set, or by a daemon of its origin starting; and the
\* clock alone never brings back a revoked one.  A bootstrap's lifetime is that
\* of its first registration, however often a daemon is started with it.
NoNewAuthority ==
  /\ \A t \in Tokens :
       daemon # NoSession /\ daemon' # NoSession /\ ~ReadSession(t) /\ ReadSession(t)' =>
         t \notin revoked /\ (session[t] = NoSession \/ wall' # wall)
  /\ \A t \in Tokens :
       bootstrap[t] # NoSession => bootstrap'[t] = bootstrap[t]
  /\ \A t \in Tokens : session[t] # session'[t] =>
       /\ session[t] = NoSession
       /\ wall \in bootstrap[t].issued..(bootstrap[t].expires - 1)

\* Every step of the daemon, its browsers and the clock is of that kind.
AuthorityOnlyEnds == [][NoNewAuthority]_sessionVars
=============================================================================
