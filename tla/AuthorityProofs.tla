--------------------------- MODULE AuthorityProofs --------------------------
(***************************************************************************)
(* Proofs about authority that is used once, or for a while.  For any      *)
(* number of mutations, grants, fences and epochs: every stored            *)
(* reservation loads, recorded outcomes are final, and one-use authority   *)
(* is used only under its own lease (MutationAuthority).  For any number   *)
(* of browsers and tokens, any lifetimes and any batch sizes: an open      *)
(* stream never extends authority, and loses or repeats no event           *)
(* (OperatorSessions).                                                     *)
(***************************************************************************)
EXTENDS OperatorSessions, MutationAuthority, TLAPS

-----------------------------------------------------------------------------
(* Operator sessions and their event streams.                              *)

\* The rows of operator_bootstraps and operator_sessions.
LifeRow == [origin : Origins, issued : Int, expires : Int]

\* A request under way, and an open stream.
RequestRow == [at : {"admitted", "authorized", "preflight"}, session : Tokens,
               route : {"submit", "revoke", "events"}]
StreamRow == [at : {"check", "deliver"}, session : Tokens, last : Nat, buffer : Seq(Nat)]

RowsOK ==
  /\ wall \in Int /\ log \in Nat
  /\ bootstrap \in [Tokens -> LifeRow \cup {NoSession}]
  /\ session \in [Tokens -> LifeRow \cup {NoSession}]
  /\ revoked \subseteq {t \in Tokens : session[t] # NoSession}
  /\ daemon \in [token : Tokens \cup {NoSession}, origin : Origins] \cup {NoSession}
  /\ browser \in [Browsers -> {Quiet} \cup RequestRow \cup StreamRow]
  /\ received \in [Browsers -> Seq(Nat)]
  /\ late \in [Browsers -> Nat]

\* The daemon's token was registered when it started; without a daemon no
\* request is open.
DaemonInv ==
  /\ daemon # NoSession /\ daemon.token # NoSession => bootstrap[daemon.token] \in LifeRow
  /\ daemon = NoSession => \A b \in Browsers : browser[b] = Quiet

\* What b has received is the log up to its length.
InOrder(b) ==
  /\ Len(received[b]) <= log
  /\ \A i \in 1..Len(received[b]) : received[b][i] = i

\* A stream's buffer continues what b has received.
Continues(b) ==
  browser[b].at \in {"check", "deliver"} =>
    /\ browser[b].last = Len(received[b])
    /\ browser[b].last + Len(browser[b].buffer) <= log
    /\ \A i \in 1..Len(browser[b].buffer) : browser[b].buffer[i] = browser[b].last + i

\* A request has a session.  A frame was late only if the check that follows
\* it fails, so that there is no second one.
NotExtended(b) ==
  /\ browser[b].at # "idle" => session[browser[b].session] # NoSession
  /\ browser[b].at = "deliver" => late[b] = 0
  /\ browser[b].at = "check" /\ late[b] # 0 => ~ReadSession(browser[b].session)
  /\ late[b] <= 1

BrowserInv(b) == InOrder(b) /\ Continues(b) /\ NotExtended(b)

SessionInv == RowsOK /\ DaemonInv /\ \A b \in Browsers : BrowserInv(b)

\* A step of one browser: the others keep their requests, and no session
\* becomes valid.
StepOf(b) ==
  /\ UNCHANGED <<wall, session, daemon>>
  /\ revoked \subseteq revoked'
  /\ log' \in Nat /\ log <= log'
  /\ \A c \in Browsers \ {b} :
       browser'[c] = browser[c] /\ received'[c] = received[c] /\ late'[c] = late[c]

\* The stream of b goes on as r, with seen received and n late frames.
GoesOn(b, r, seen, n) ==
  /\ r \in StreamRow /\ seen \in Seq(Nat) /\ n \in {0, 1}
  /\ Set(b, r)
  /\ received' = [received EXCEPT ![b] = seen]
  /\ late' = [late EXCEPT ![b] = n]
  /\ Len(seen) <= log /\ \A i \in 1..Len(seen) : seen[i] = i
  /\ r.last = Len(seen) /\ r.last + Len(r.buffer) <= log
  /\ \A i \in 1..Len(r.buffer) : r.buffer[i] = r.last + i
  /\ session[r.session] # NoSession
  /\ r.at = "deliver" => n = 0
  /\ n # 0 => ~ReadSession(r.session)

-----------------------------------------------------------------------------
(* Lemmas.                                                                 *)

\* What the ledger returns after an event are the events that follow it.
LEMMA AfterFollows ==
  ASSUME log \in Nat, NEW last \in Nat, last <= log, NEW n \in Nat
  PROVE  /\ After(last, n) \in Seq(Nat)
         /\ last + Len(After(last, n)) <= log
         /\ \A i \in 1..Len(After(last, n)) : After(last, n)[i] = last + i
<1> DEFINE k == IF log - last < n THEN log - last ELSE n
<1>1. k \in Nat /\ last + k <= log  OBVIOUS
<1> HIDE DEF k
<1>2. After(last, n) = [i \in 1..k |-> last + i]  BY Zenon DEF After, k
<1>3. \A i \in 1..k : last + i \in Nat  BY <1>1
<1>4. [i \in 1..k |-> last + i] \in Seq(Nat) /\ Len([i \in 1..k |-> last + i]) = k
  BY <1>1, <1>3
<1> QED  BY <1>1, <1>2, <1>4, Zenon

\* The state of a request says which of its fields there are.
LEMMA KindOf ==
  ASSUME SessionInv, NEW b \in Browsers
  PROVE  /\ browser[b].at \in {"admitted", "authorized", "preflight"} => browser[b] \in RequestRow
         /\ browser[b].at \in {"check", "deliver"} => browser[b] \in StreamRow
         /\ browser[b].at # "idle" => browser[b].session \in Tokens /\ daemon # NoSession
<1>1. browser[b] \in {Quiet} \cup RequestRow \cup StreamRow  BY Zenon DEF SessionInv, RowsOK
<1>2. browser[b].at # "idle" => daemon # NoSession  BY DEF SessionInv, DaemonInv, Quiet
<1>3. CASE browser[b] = Quiet  BY <1>3 DEF Quiet
<1>4. CASE browser[b] \in RequestRow  BY <1>2, <1>4, Zenon DEF RequestRow
<1>5. CASE browser[b] \in StreamRow  BY <1>2, <1>5, Zenon DEF StreamRow
<1> QED  BY <1>1, <1>3, <1>4, <1>5, Zenon

\* The step of one browser keeps the invariant of the others.
LEMMA OthersKept ==
  ASSUME SessionInv, NEW b \in Browsers, StepOf(b), NEW c \in Browsers, c # b
  PROVE  BrowserInv(c)'
<1>1. browser'[c] = browser[c] /\ received'[c] = received[c] /\ late'[c] = late[c]
  BY Zenon DEF StepOf
<1>2. BrowserInv(c)  BY Zenon DEF SessionInv
<1>3. InOrder(c)'
  <2>1. Len(received[c]) \in Nat  BY DEF SessionInv, RowsOK
  <2> QED  BY <1>1, <1>2, <2>1 DEF StepOf, BrowserInv, InOrder, SessionInv, RowsOK
<1>4. Continues(c)'
  <2> SUFFICES ASSUME browser[c].at \in {"check", "deliver"} PROVE Continues(c)'
    BY <1>1, Zenon DEF Continues
  <2>1. browser[c] \in StreamRow  BY KindOf, Zenon
  <2>2. browser[c].last \in Nat /\ Len(browser[c].buffer) \in Nat  BY <2>1 DEF StreamRow
  <2> QED  BY <1>1, <1>2, <2>2 DEF StepOf, BrowserInv, Continues, SessionInv, RowsOK
<1>5. NotExtended(c)'
  <2>1. ReadSession(browser[c].session)' => ReadSession(browser[c].session)
    BY <1>1, Zenon DEF StepOf, ReadSession
  <2> QED  BY <1>1, <1>2, <2>1, Zenon DEF StepOf, BrowserInv, NotExtended
<1> QED  BY <1>3, <1>4, <1>5, Zenon DEF BrowserInv

\* A browser whose request ends keeps what it received.
LEMMA EndsQuiet ==
  ASSUME SessionInv, NEW b \in Browsers, browser'[b] = Quiet,
         received'[b] = received[b], late'[b] = late[b], log' \in Nat, log <= log'
  PROVE  BrowserInv(b)'
<1>1. BrowserInv(b)  BY Zenon DEF SessionInv
<1>2. Len(received[b]) \in Nat  BY DEF SessionInv, RowsOK
<1>3. InOrder(b)'  BY <1>1, <1>2 DEF BrowserInv, InOrder, SessionInv, RowsOK
<1>4. Continues(b)' /\ NotExtended(b)'  BY <1>1 DEF BrowserInv, Continues, NotExtended, Quiet
<1> QED  BY <1>3, <1>4, Zenon DEF BrowserInv

-----------------------------------------------------------------------------
(* One lemma per action, or per kind of action.                            *)

\* The clock: a stream whose session is valid again is not late.
LEMMA ClockKeeps ==
  ASSUME SessionInv, NEW hour \in Int, SetWall(hour)
  PROVE  SessionInv'
<1>1. UNCHANGED <<bootstrap, session, revoked, daemon, browser, received, log>> /\ wall' = hour
  BY Zenon DEF SetWall, sessionRows
<1>2. late' \in [Browsers -> Nat]
  BY Zenon DEF SetWall, SessionInv, RowsOK
<1>3. RowsOK' /\ DaemonInv'
  BY <1>1, <1>2, Zenon DEF SessionInv, RowsOK, DaemonInv
<1>4. ASSUME NEW b \in Browsers PROVE BrowserInv(b)'
  <2>1. BrowserInv(b)  BY Zenon DEF SessionInv
  <2>2. InOrder(b)' /\ Continues(b)'  BY <1>1, <2>1, Zenon DEF BrowserInv, InOrder, Continues
  <2>3. late'[b] = IF browser[b] # Quiet /\ ReadSession(browser[b].session)' THEN 0 ELSE late[b]
    BY Zenon DEF SetWall
  <2>4. browser[b].at = "check" => browser[b] # Quiet  BY DEF Quiet
  <2>5. NotExtended(b)'
    BY <1>1, <2>1, <2>3, <2>4 DEF BrowserInv, NotExtended, SessionInv, RowsOK
  <2> QED  BY <2>2, <2>5, Zenon DEF BrowserInv
<1> QED  BY <1>3, <1>4, Zenon DEF SessionInv

\* A daemon starts when no request is open.
LEMMA StartKeeps ==
  ASSUME SessionInv, NEW t \in Tokens \cup {NoSession}, NEW o \in Origins, StartDaemon(t, o)
  PROVE  SessionInv'
<1>0. [origin |-> o, issued |-> wall, expires |-> wall + BootstrapLife] \in LifeRow
  BY OperatorConstants DEF SessionInv, RowsOK, LifeRow
<1>1. UNCHANGED <<wall, session, revoked, browser, received, late, log>>
  BY Zenon DEF StartDaemon, reading
<1>2. daemon = NoSession /\ daemon' = [token |-> t, origin |-> o]  BY Zenon DEF StartDaemon
<1>3. \A b \in Browsers : browser[b] = Quiet  BY <1>2, Zenon DEF SessionInv, DaemonInv
<1>4. bootstrap' \in [Tokens -> LifeRow \cup {NoSession}]
  <2>1. CASE t = NoSession  BY <2>1, Zenon DEF StartDaemon, SessionInv, RowsOK
  <2>2. CASE t # NoSession /\ bootstrap[t] # NoSession
    BY <2>2, Zenon DEF StartDaemon, RegisterBootstrap, SessionInv, RowsOK
  <2>3. CASE t # NoSession /\ bootstrap[t] = NoSession
    BY <2>3, <1>0, Zenon DEF StartDaemon, RegisterBootstrap, SessionInv, RowsOK
  <2> QED  BY <2>1, <2>2, <2>3, Zenon
<1>5. t # NoSession => bootstrap'[t] \in LifeRow
  <2>1. CASE t # NoSession /\ bootstrap[t] # NoSession
    BY <2>1, Zenon DEF StartDaemon, RegisterBootstrap, SessionInv, RowsOK
  <2>2. CASE t # NoSession /\ bootstrap[t] = NoSession
    BY <2>2, <1>0, Zenon DEF StartDaemon, RegisterBootstrap, SessionInv, RowsOK
  <2> QED  BY <2>1, <2>2, Zenon
<1>6. RowsOK'  BY <1>1, <1>2, <1>4, Zenon DEF SessionInv, RowsOK
<1>7. DaemonInv'  BY <1>1, <1>2, <1>3, <1>5, Zenon DEF DaemonInv
<1>8. ASSUME NEW b \in Browsers PROVE BrowserInv(b)'
  BY <1>1, <1>3, EndsQuiet DEF SessionInv, RowsOK
<1> QED  BY <1>6, <1>7, <1>8, Zenon DEF SessionInv

\* The end of the daemon ends every request.
LEMMA StopKeeps ==
  ASSUME SessionInv, StopDaemon
  PROVE  SessionInv'
<1>1. UNCHANGED <<wall, bootstrap, session, revoked, received, late, log>>
  BY Zenon DEF StopDaemon
<1>2. daemon' = NoSession /\ browser' = [b \in Browsers |-> Quiet]  BY Zenon DEF StopDaemon
<1>3. RowsOK' /\ DaemonInv'  BY <1>1, <1>2, Zenon DEF SessionInv, RowsOK, DaemonInv
<1>4. ASSUME NEW b \in Browsers PROVE BrowserInv(b)'
  BY <1>1, <1>2, EndsQuiet DEF SessionInv, RowsOK
<1> QED  BY <1>3, <1>4, Zenon DEF SessionInv

\* An exchange makes a session no request has.
LEMMA ExchangeKeeps ==
  ASSUME SessionInv, ExchangeBootstrap
  PROVE  SessionInv'
<1> DEFINE t == daemon.token
<1>1. UNCHANGED <<wall, bootstrap, revoked, daemon, browser, received, late, log>>
  BY Zenon DEF ExchangeBootstrap, reading
<1>2. t \in Tokens /\ session[t] = NoSession /\ daemon.origin \in Origins
  BY Zenon DEF ExchangeBootstrap, SessionInv, RowsOK
<1>3. session' = [session EXCEPT ![t] =
        [origin |-> daemon.origin, issued |-> wall, expires |-> wall + SessionLife]]
  BY Zenon DEF ExchangeBootstrap
<1> HIDE DEF t
<1>4. \A s \in Tokens : session[s] # NoSession => session'[s] = session[s]
  BY <1>2, <1>3, Zenon DEF SessionInv, RowsOK
<1>5. session' \in [Tokens -> LifeRow \cup {NoSession}]
  BY <1>2, <1>3, OperatorConstants DEF SessionInv, RowsOK, LifeRow
<1>6. RowsOK'  BY <1>1, <1>4, <1>5, Zenon DEF SessionInv, RowsOK
<1>7. DaemonInv'  BY <1>1, Zenon DEF SessionInv, DaemonInv
<1>8. ASSUME NEW b \in Browsers PROVE BrowserInv(b)'
  <2>1. BrowserInv(b)  BY Zenon DEF SessionInv
  <2>2. InOrder(b)' /\ Continues(b)'  BY <1>1, <2>1, Zenon DEF BrowserInv, InOrder, Continues
  <2>3. browser[b].at # "idle" => browser[b].session \in Tokens  BY KindOf, Zenon
  <2>4. browser[b].at # "idle" => session'[browser[b].session] = session[browser[b].session]
    BY <1>4, <2>1, <2>3, Zenon DEF BrowserInv, NotExtended
  <2>5. NotExtended(b)'
    BY <1>1, <2>1, <2>4, Zenon DEF BrowserInv, NotExtended, ReadSession
  <2> QED  BY <2>2, <2>5, Zenon DEF BrowserInv
<1> QED  BY <1>6, <1>7, <1>8, Zenon DEF SessionInv

\* A step of one browser that is right for it is right for all.
LEMMA BrowserStep ==
  ASSUME SessionInv, NEW b \in Browsers, StepOf(b), UNCHANGED bootstrap,
         daemon # NoSession, RowsOK', BrowserInv(b)'
  PROVE  SessionInv'
<1>1. DaemonInv'  BY Zenon DEF SessionInv, DaemonInv, StepOf
<1>2. \A c \in Browsers : BrowserInv(c)'  BY OthersKept, Zenon
<1> QED  BY <1>1, <1>2, Zenon DEF SessionInv

\* A request that ends, whatever it appended to the log or revoked.
LEMMA EndKeeps ==
  ASSUME SessionInv, NEW b \in Browsers, Set(b, Quiet), browser[b].at # "idle",
         UNCHANGED <<wall, bootstrap, session, daemon, received, late>>,
         revoked \subseteq revoked', revoked' \subseteq {t \in Tokens : session[t] # NoSession},
         log' \in Nat, log <= log'
  PROVE  SessionInv'
<1>1. browser'[b] = Quiet /\ \A c \in Browsers \ {b} : browser'[c] = browser[c]
  BY Zenon DEF Set, SessionInv, RowsOK
<1>2. StepOf(b)  BY <1>1, Zenon DEF StepOf
<1>3. RowsOK'  BY Zenon DEF Set, SessionInv, RowsOK
<1>4. BrowserInv(b)'  BY <1>1, EndsQuiet, Zenon
<1>5. daemon # NoSession  BY KindOf, Zenon
<1> QED  BY <1>2, <1>3, <1>4, <1>5, BrowserStep, Zenon

\* A request that goes on, before its stream.
LEMMA RequestKeeps ==
  ASSUME SessionInv, NEW b \in Browsers, NEW r \in RequestRow, Set(b, r),
         daemon # NoSession, session[r.session] # NoSession,
         UNCHANGED <<wall, bootstrap, session, revoked, daemon, received, late, log>>
  PROVE  SessionInv'
<1>1. browser'[b] = r /\ \A c \in Browsers \ {b} : browser'[c] = browser[c]
  BY Zenon DEF Set, SessionInv, RowsOK
<1>2. StepOf(b)  BY <1>1 DEF StepOf, SessionInv, RowsOK
<1>3. RowsOK'  BY Zenon DEF Set, SessionInv, RowsOK
<1>4. BrowserInv(b)  BY Zenon DEF SessionInv
<1>5. InOrder(b)'  BY <1>4, Zenon DEF BrowserInv, InOrder
<1>6. r.at \notin {"check", "deliver"}  BY Zenon DEF RequestRow
<1>7. Continues(b)' /\ NotExtended(b)'
  BY <1>1, <1>4, <1>6, Zenon DEF BrowserInv, Continues, NotExtended
<1> QED  BY <1>2, <1>3, <1>5, <1>7, BrowserStep, Zenon DEF BrowserInv

\* A stream that goes on: its new state continues what b has received then.
LEMMA StreamKeeps ==
  ASSUME SessionInv, NEW b \in Browsers, NEW r, NEW seen, NEW n, GoesOn(b, r, seen, n),
         daemon # NoSession,
         UNCHANGED <<wall, bootstrap, session, revoked, daemon, log>>
  PROVE  SessionInv'
<1> USE DEF GoesOn
<1>1. /\ browser'[b] = r /\ received'[b] = seen /\ late'[b] = n
      /\ \A c \in Browsers \ {b} :
           browser'[c] = browser[c] /\ received'[c] = received[c] /\ late'[c] = late[c]
  BY Zenon DEF Set, SessionInv, RowsOK
<1>2. StepOf(b)  BY <1>1 DEF StepOf, SessionInv, RowsOK
<1>3. RowsOK'  BY DEF Set, SessionInv, RowsOK
<1>4. InOrder(b)'  BY <1>1, Zenon DEF InOrder
<1>5. Continues(b)'  BY <1>1, Zenon DEF Continues
<1>6. NotExtended(b)'  BY <1>1 DEF NotExtended, ReadSession
<1> QED  BY <1>2, <1>3, <1>4, <1>5, <1>6, BrowserStep, Zenon DEF BrowserInv

\* A request under way, or a stream about to be checked, names a session of the
\* daemon's ledger.
LEMMA Requested ==
  ASSUME SessionInv, NEW b \in Browsers, browser[b].at \in {"admitted", "check"}
  PROVE  /\ browser[b].session \in Tokens /\ session[browser[b].session] # NoSession
         /\ daemon # NoSession
BY KindOf, Zenon DEF SessionInv, BrowserInv, NotExtended

\* A request that ends and changes nothing else.
LEMMA EndsUnchanged ==
  ASSUME SessionInv, NEW b \in Browsers, browser[b].at # "idle", Set(b, Quiet),
         UNCHANGED <<wall, bootstrap, session, revoked, daemon, received, late, log>>
  PROVE  SessionInv'
<1>1. revoked \subseteq {t \in Tokens : session[t] # NoSession} /\ log \in Nat
  BY Zenon DEF SessionInv, RowsOK
<1> QED  BY <1>1, EndKeeps

\* A request that is authorised goes on, or is refused and ends.
LEMMA AuthorizeKeeps ==
  ASSUME SessionInv, NEW b \in Browsers, AuthorizeMutation(b) \/ IssuePermit(b)
  PROVE  SessionInv'
<1> DEFINE s == browser[b]
<1>1. s.at = "admitted" /\ s \in RequestRow  BY KindOf, Zenon DEF AuthorizeMutation, IssuePermit
<1>2. UNCHANGED <<wall, bootstrap, session, revoked, daemon, received, late, log>>
  BY Zenon DEF AuthorizeMutation, IssuePermit, sessionRows
<1>3. s.session \in Tokens /\ session[s.session] # NoSession /\ daemon # NoSession
  BY <1>1, Requested, Zenon
<1>4. CASE Set(b, Quiet)  BY <1>1, <1>2, <1>4, EndsUnchanged, Zenon
<1>5. ASSUME NEW at \in {"authorized", "preflight"}, Set(b, [s EXCEPT !.at = at])
      PROVE  SessionInv'
  <2> DEFINE r == [s EXCEPT !.at = at]
  <2>1. r \in RequestRow /\ r.session = s.session  BY <1>1, Zenon DEF RequestRow
  <2> HIDE DEF r
  <2> QED  BY <1>2, <1>3, <1>5, <2>1, RequestKeeps, Zenon DEF r
<1> QED  BY <1>4, <1>5, Zenon DEF AuthorizeMutation, IssuePermit

\* A submission ends the request and adds an event.
LEMMA SubmitKeeps ==
  ASSUME SessionInv, NEW b \in Browsers, SubmitAuthorized(b)
  PROVE  SessionInv'
<1>1. browser[b].at # "idle" /\ log' = log + 1 /\ Set(b, Quiet)
      /\ UNCHANGED <<wall, bootstrap, session, revoked, daemon, received, late>>
  BY Zenon DEF SubmitAuthorized, sessionRows
<1>2. revoked \subseteq {t \in Tokens : session[t] # NoSession} /\ log \in Nat
  BY Zenon DEF SessionInv, RowsOK
<1> QED  BY <1>1, <1>2, EndKeeps

\* A revocation is of the session that asks for it.
LEMMA RevokeKeeps ==
  ASSUME SessionInv, NEW b \in Browsers, RevokeSession(b)
  PROVE  SessionInv'
<1>1. browser[b].at = "admitted" /\ Set(b, Quiet)
      /\ UNCHANGED <<wall, bootstrap, session, daemon, received, late, log>>
  BY Zenon DEF RevokeSession
<1>2. revoked' \in {revoked, revoked \cup {browser[b].session}}  BY Zenon DEF RevokeSession
<1>3. browser[b].session \in Tokens /\ session[browser[b].session] # NoSession
  BY <1>1, Requested, Zenon
<1>4. revoked \subseteq {t \in Tokens : session[t] # NoSession} /\ log \in Nat
  BY Zenon DEF SessionInv, RowsOK
<1> QED  BY <1>1, <1>2, <1>3, <1>4, EndKeeps

\* A permit that is still current lets the stream deliver.
LEMMA CheckKeeps ==
  ASSUME SessionInv, NEW b \in Browsers, CheckPermit(b)
  PROVE  SessionInv'
<1> DEFINE s == browser[b]
<1>1. s.at = "check" /\ s \in StreamRow  BY KindOf, Zenon DEF CheckPermit
<1>2. UNCHANGED <<wall, bootstrap, session, revoked, daemon, received, late, log>>
  BY Zenon DEF CheckPermit, sessionRows
<1>3. s.session \in Tokens /\ session[s.session] # NoSession /\ daemon # NoSession
  BY <1>1, Requested, Zenon
<1>4. CASE Set(b, Quiet)  BY <1>1, <1>2, <1>4, EndsUnchanged, Zenon
<1>5. CASE ReadSession(s.session) /\ Set(b, [s EXCEPT !.at = "deliver"])
  <2> DEFINE r == [s EXCEPT !.at = "deliver"]
  <2>1. /\ r \in StreamRow /\ r.session = s.session /\ r.last = s.last
        /\ r.buffer = s.buffer /\ r.at = "deliver"
    BY <1>1, Zenon DEF StreamRow
  <2>2. Set(b, r)  BY <1>5, Zenon
  <2> HIDE DEF r
  <2>3. BrowserInv(b)  BY Zenon DEF SessionInv
  <2>4. late[b] = 0  BY <1>1, <1>5, <2>3, Zenon DEF BrowserInv, NotExtended
  <2>5. received[b] \in Seq(Nat) /\ received' = [received EXCEPT ![b] = received[b]]
        /\ late' = [late EXCEPT ![b] = 0]
    BY <1>2, <2>4, Zenon DEF SessionInv, RowsOK
  <2>6. /\ Len(received[b]) <= log /\ \A i \in 1..Len(received[b]) : received[b][i] = i
        /\ r.last = Len(received[b]) /\ r.last + Len(r.buffer) <= log
        /\ \A i \in 1..Len(r.buffer) : r.buffer[i] = r.last + i
    BY <1>1, <2>1, <2>3, Zenon DEF BrowserInv, InOrder, Continues
  <2>7. GoesOn(b, r, received[b], 0)
    BY <1>3, <2>1, <2>2, <2>5, <2>6, Zenon DEF GoesOn
  <2> QED  BY <1>2, <1>3, <2>7, StreamKeeps, Zenon
<1> QED  BY <1>4, <1>5, Zenon DEF CheckPermit, PermitIsCurrent

\* A client may leave at any time.
LEMMA DisconnectKeeps ==
  ASSUME SessionInv, NEW b \in Browsers, Disconnect(b)
  PROVE  SessionInv'
<1>1. browser[b].at # "idle"
  <2>1. browser[b] \in RequestRow \/ browser[b] \in StreamRow
    BY Zenon DEF Disconnect, SessionInv, RowsOK
  <2> QED  BY <2>1, Zenon DEF RequestRow, StreamRow
<1>2. Set(b, Quiet)
      /\ UNCHANGED <<wall, bootstrap, session, revoked, daemon, received, late, log>>
  BY Zenon DEF Disconnect, sessionRows
<1> QED  BY <1>1, <1>2, EndsUnchanged, Zenon

\* A stream opens where the browser's last one ended.
LEMMA PreflightKeeps ==
  ASSUME SessionInv, NEW b \in Browsers, ReplayPreflight(b)
  PROVE  SessionInv'
<1> DEFINE n == Len(received[b])
           r == [at |-> "check", session |-> browser[b].session,
                 last |-> n, buffer |-> After(n, MaxReplay)]
<1>1. browser[b].at = "preflight" /\ browser[b].session \in Tokens /\ daemon # NoSession
  BY KindOf, Zenon DEF ReplayPreflight
<1>2. UNCHANGED <<wall, bootstrap, session, revoked, daemon, received, log>>
  BY Zenon DEF ReplayPreflight, sessionRows
<1>3. CASE Set(b, Quiet) /\ UNCHANGED late
  <2>1. browser[b].at # "idle"  BY <1>1, Zenon
  <2> QED  BY <1>2, <1>3, <2>1, EndsUnchanged, Zenon
<1>4. CASE Set(b, r) /\ late' = [late EXCEPT ![b] = 0]
  <2>1. BrowserInv(b) /\ log \in Nat /\ received[b] \in Seq(Nat)  BY Zenon DEF SessionInv, RowsOK
  <2>2. n \in Nat /\ n <= log /\ \A i \in 1..n : received[b][i] = i
    BY <2>1 DEF BrowserInv, InOrder
  <2>3. /\ After(n, MaxReplay) \in Seq(Nat)
        /\ n + Len(After(n, MaxReplay)) <= log
        /\ \A i \in 1..Len(After(n, MaxReplay)) : After(n, MaxReplay)[i] = n + i
    BY <2>1, <2>2, AfterFollows, OperatorConstants, Zenon
  <2>4. received' = [received EXCEPT ![b] = received[b]]  BY <1>2, Zenon DEF SessionInv, RowsOK
  <2>5. session[browser[b].session] # NoSession  BY <1>1, <2>1, Zenon DEF BrowserInv, NotExtended
  <2>6. /\ r \in StreamRow /\ r.session = browser[b].session /\ r.last = n
        /\ r.buffer = After(n, MaxReplay) /\ r.at = "check"
    BY <1>1, <2>2, <2>3, Zenon DEF StreamRow
  <2> HIDE DEF r
  <2>7. GoesOn(b, r, received[b], 0)
    BY <1>4, <2>1, <2>2, <2>3, <2>4, <2>5, <2>6, Zenon DEF GoesOn
  <2> QED  BY <1>1, <1>2, <2>7, StreamKeeps, Zenon
<1> QED  BY <1>3, <1>4, Zenon DEF ReplayPreflight, ResumeAfter

\* A frame appends the next event; an empty buffer is filled with the ones
\* that follow.
LEMMA DeliverKeeps ==
  ASSUME SessionInv, NEW b \in Browsers, DeliverFrame(b)
  PROVE  SessionInv'
<1> DEFINE s == browser[b]
           seen == received[b]
<1>1. s.at = "deliver" /\ s \in StreamRow /\ s.session \in Tokens /\ daemon # NoSession
  BY KindOf, Zenon DEF DeliverFrame
<1>2. UNCHANGED <<wall, bootstrap, session, revoked, daemon, log>>
  BY Zenon DEF DeliverFrame, sessionRows
<1>3. BrowserInv(b) /\ log \in Nat /\ seen \in Seq(Nat)  BY Zenon DEF SessionInv, RowsOK
<1>4. s.last \in Nat /\ s.buffer \in Seq(Nat)  BY <1>1, Zenon DEF StreamRow
<1>5. /\ s.last = Len(seen) /\ s.last + Len(s.buffer) <= log
      /\ \A i \in 1..Len(s.buffer) : s.buffer[i] = s.last + i
      /\ Len(seen) <= log /\ \A i \in 1..Len(seen) : seen[i] = i
  BY <1>1, <1>3, Zenon DEF BrowserInv, InOrder, Continues
<1>6. late[b] = 0 /\ session[s.session] # NoSession
  BY <1>1, <1>3, Zenon DEF BrowserInv, NotExtended
<1>7. CASE s.buffer # <<>>
  <2> DEFINE next == Append(seen, Head(s.buffer))
             rest == Tail(s.buffer)
             n == IF ReadSession(s.session) THEN 0 ELSE 1
             r == [s EXCEPT !.at = "check", !.last = Head(s.buffer), !.buffer = Tail(@)]
  <2>1. Len(s.buffer) >= 1 /\ Head(s.buffer) = Len(seen) + 1
    BY <1>4, <1>5, <1>7
  <2>2. /\ next \in Seq(Nat) /\ Len(next) = Len(seen) + 1
        /\ \A i \in 1..Len(next) : next[i] = i
    BY <1>3, <1>5, <2>1, SMTT(30)
  <2>3. /\ rest \in Seq(Nat) /\ Len(rest) = Len(s.buffer) - 1
        /\ \A i \in 1..Len(rest) : rest[i] = s.buffer[i + 1]
    BY <1>4, <1>7
  <2>4. \A i \in 1..Len(rest) : rest[i] = Len(next) + i
    BY <1>4, <1>5, <2>2, <2>3
  <2>5. /\ r \in StreamRow /\ r.session = s.session /\ r.last = Head(s.buffer)
        /\ r.buffer = rest /\ r.at = "check"
    <3>1. Head(s.buffer) \in Nat  BY <1>3, <2>1
    <3> HIDE DEF rest
    <3> QED  BY <1>1, <2>3, <3>1, Zenon DEF StreamRow, rest
  <2>6. /\ received' = [received EXCEPT ![b] = next] /\ late' = [late EXCEPT ![b] = n]
        /\ Set(b, r)
    BY <1>6, <1>7 DEF DeliverFrame, SessionInv, RowsOK
  <2>7. n \in {0, 1} /\ (n # 0 => ~ReadSession(r.session))  BY <2>5, Zenon
  <2>8. r.last = Len(next) /\ r.last + Len(r.buffer) <= log /\ Len(next) <= log
        /\ \A i \in 1..Len(r.buffer) : r.buffer[i] = r.last + i
    <3> HIDE DEF next, rest, r
    <3>1. r.last = Len(next) /\ r.buffer = rest  BY <2>1, <2>2, <2>5, Zenon
    <3> DEFINE k == Len(s.buffer)
               m == Len(seen)
    <3>2. k \in Nat /\ m \in Nat /\ k >= 1 /\ m + k <= log
      <4>1. k \in Nat /\ m \in Nat /\ k >= 1  BY <1>3, <1>4, <2>1
      <4>2. s.last = m /\ s.last + k <= log  BY <1>5, Zenon
      <4> HIDE DEF k, m, s
      <4> QED  BY <4>1, <4>2, Zenon
    <3>3. r.last = m + 1 /\ Len(r.buffer) = k - 1 /\ Len(next) = m + 1
      BY <2>2, <2>3, <3>1, Zenon
    <3> HIDE DEF k, m
    <3>4. r.last + Len(r.buffer) <= log /\ Len(next) <= log
      BY ONLY <1>3, <3>2, <3>3
    <3> QED  BY <2>4, <3>1, <3>4, Zenon
  <2> HIDE DEF next, rest, n, r
  <2>9. GoesOn(b, r, next, n)
    BY <1>6, <2>2, <2>5, <2>6, <2>7, <2>8, Zenon DEF GoesOn
  <2> QED  BY <1>1, <1>2, <2>9, StreamKeeps, Zenon
<1>8. CASE s.buffer = <<>>
  <2> DEFINE more == After(s.last, Batch)
             r == [s EXCEPT !.at = "check", !.buffer = more]
  <2>1. /\ more \in Seq(Nat) /\ s.last + Len(more) <= log
        /\ \A i \in 1..Len(more) : more[i] = s.last + i
    BY <1>3, <1>4, <1>5, AfterFollows, OperatorConstants, Zenon
  <2>2. /\ r \in StreamRow /\ r.session = s.session /\ r.last = s.last
        /\ r.buffer = more /\ r.at = "check"
    BY <1>1, <2>1, Zenon DEF StreamRow
  <2>3. /\ received' = [received EXCEPT ![b] = seen] /\ late' = [late EXCEPT ![b] = 0]
        /\ Set(b, r)
    BY <1>6, <1>8, Zenon DEF DeliverFrame, SessionInv, RowsOK
  <2> HIDE DEF more, r
  <2>4. GoesOn(b, r, seen, 0)
    BY <1>3, <1>5, <1>6, <2>1, <2>2, <2>3, Zenon DEF GoesOn
  <2> QED  BY <1>1, <1>2, <2>4, StreamKeeps, Zenon
<1> QED  BY <1>7, <1>8, Zenon

-----------------------------------------------------------------------------
(* Theorems.                                                               *)

\* Every step of the daemon, its browsers and the clock keeps the invariant.
THEOREM SessionsKept ==
  SessionSpec => []SessionInv
<1>1. SessionInit => SessionInv
  <2> SUFFICES ASSUME SessionInit PROVE SessionInv  BY Zenon
  <2>1. RowsOK /\ DaemonInv  BY DEF SessionInit, RowsOK, DaemonInv
  <2>2. ASSUME NEW b \in Browsers PROVE BrowserInv(b)
    BY DEF SessionInit, BrowserInv, InOrder, Continues, NotExtended, Quiet
  <2> QED  BY <2>1, <2>2, Zenon DEF SessionInv
<1>2. SessionInv /\ [SessionNext]_sessionVars => SessionInv'
  <2> SUFFICES ASSUME SessionInv, [SessionNext]_sessionVars PROVE SessionInv'  BY Zenon
  <2>1. CASE TickSessions \/ WallSetBack
    <3>1. wall + 1 \in Int /\ wall - 1 \in Int  BY DEF SessionInv, RowsOK
    <3>2. SetWall(wall + 1) \/ SetWall(wall - 1)  BY <2>1, Zenon DEF TickSessions, WallSetBack
    <3> QED  BY <3>1, <3>2, ClockKeeps, Zenon
  <2>2. CASE \E t \in Tokens \cup {NoSession}, o \in Origins : StartDaemon(t, o)
    BY <2>2, StartKeeps, Zenon
  <2>3. CASE StopDaemon \/ ExchangeBootstrap  BY <2>3, StopKeeps, ExchangeKeeps, Zenon
  <2>4. ASSUME NEW b \in Browsers, NEW t \in Tokens, NEW r \in {"submit", "revoke", "events"},
               RequireSession(b, t, r)
        PROVE  SessionInv'
    <3> DEFINE row == [at |-> "admitted", session |-> t, route |-> r]
    <3>1. row \in RequestRow /\ row.session = t  BY Zenon DEF RequestRow
    <3>2. Set(b, row) /\ daemon # NoSession /\ session[t] # NoSession
          /\ UNCHANGED <<wall, bootstrap, session, revoked, daemon, received, late, log>>
      BY <2>4, Zenon DEF RequireSession, ReadSession, sessionRows
    <3> HIDE DEF row
    <3> QED  BY <3>1, <3>2, RequestKeeps, Zenon
  <2>5. ASSUME NEW b \in Browsers,
               \/ AuthorizeMutation(b) \/ SubmitAuthorized(b) \/ RevokeSession(b)
               \/ IssuePermit(b) \/ CheckPermit(b) \/ Disconnect(b)
        PROVE  SessionInv'
    BY <2>5, AuthorizeKeeps, SubmitKeeps, RevokeKeeps, CheckKeeps, DisconnectKeeps, Zenon
  <2>6. ASSUME NEW b \in Browsers, ReplayPreflight(b) \/ DeliverFrame(b)
        PROVE  SessionInv'
    BY <2>6, PreflightKeeps, DeliverKeeps, Zenon
  <2>7. CASE UNCHANGED sessionVars
    BY <2>7, Zenon DEF sessionVars, SessionInv, RowsOK, DaemonInv, BrowserInv, InOrder, Continues,
                NotExtended, ReadSession
  <2> QED  BY <2>1, <2>2, <2>3, <2>4, <2>5, <2>6, <2>7, Zenon DEF SessionNext
<1> QED  BY <1>1, <1>2, PTL DEF SessionSpec

\* "An open stream never extends authority": of the stream loop in farmd that
\* checks its permit before every frame, at most one frame is delivered after
\* the session ended; and over all reconnects a browser receives every event of
\* the log once and in order.
THEOREM StreamsStayHonest ==
  SessionSpec => []StreamIsHonest
<1>1. SessionInv => StreamIsHonest
  <2> SUFFICES ASSUME SessionInv, NEW b \in Browsers
               PROVE  late[b] <= 1 /\ \A i \in DOMAIN received[b] : received[b][i] = i
    BY Zenon DEF StreamIsHonest
  <2>1. DOMAIN received[b] = 1..Len(received[b])  BY DEF SessionInv, RowsOK
  <2> QED  BY <2>1, Zenon DEF SessionInv, BrowserInv, InOrder, NotExtended
<1> QED  BY <1>1, SessionsKept, PTL

\* No step of a served ledger but an exchange or the clock makes a session
\* valid, a revoked one stays revoked, and a bootstrap keeps the lifetime of
\* its first registration.
THEOREM AuthorityEnds ==
  SessionSpec => AuthorityOnlyEnds
<1>1. SessionInv /\ [SessionNext]_sessionVars => [NoNewAuthority]_sessionVars
  <2> SUFFICES ASSUME SessionInv, SessionNext PROVE NoNewAuthority  BY Zenon
  <2> DEFINE FirstLife == \A t \in Tokens : bootstrap[t] # NoSession => bootstrap'[t] = bootstrap[t]
             InItsLife == \A t \in Tokens : session[t] # session'[t] =>
               session[t] = NoSession /\ wall \in bootstrap[t].issued..(bootstrap[t].expires - 1)
  <2>1. InItsLife /\ \A t \in Tokens : session[t] # NoSession => session'[t] = session[t]
    <3>1. CASE ExchangeBootstrap
      <4>1. daemon.token \in Tokens /\ daemon # NoSession /\ session[daemon.token] = NoSession
        BY <3>1, Zenon DEF ExchangeBootstrap, SessionInv, RowsOK
      <4>2. \A t \in Tokens : t # daemon.token => session'[t] = session[t]
        BY <3>1, <4>1, Zenon DEF ExchangeBootstrap, SessionInv, RowsOK
      <4>3. bootstrap[daemon.token] \in LifeRow /\ wall \in Int
        BY <3>1, <4>1, Zenon DEF ExchangeBootstrap, SessionInv, DaemonInv, RowsOK
      <4>4. wall \in bootstrap[daemon.token].issued..(bootstrap[daemon.token].expires - 1)
        BY <3>1, <4>3 DEF ExchangeBootstrap, LifeRow
      <4> QED  BY <4>1, <4>2, <4>4, Zenon
    <3>2. CASE UNCHANGED session  BY <3>2, Zenon
    <3> QED
      BY <3>1, <3>2, Zenon DEF SessionNext, TickSessions, WallSetBack, SetWall, StartDaemon, StopDaemon,
           RequireSession, AuthorizeMutation, SubmitAuthorized, RevokeSession, IssuePermit,
           ReplayPreflight, CheckPermit, DeliverFrame, Disconnect, sessionRows
  <2>2. FirstLife
    <3>1. ASSUME NEW t \in Tokens \cup {NoSession}, NEW o \in Origins, StartDaemon(t, o)
          PROVE  FirstLife
      BY <3>1, Zenon DEF StartDaemon, RegisterBootstrap, SessionInv, RowsOK
    <3>2. CASE UNCHANGED bootstrap  BY <3>2, Zenon
    <3> QED
      BY <3>1, <3>2, Zenon DEF SessionNext, TickSessions, WallSetBack, SetWall, StopDaemon,
           ExchangeBootstrap, RequireSession, AuthorizeMutation, SubmitAuthorized, RevokeSession,
           IssuePermit, ReplayPreflight, CheckPermit, DeliverFrame, Disconnect, sessionRows
  <2>3. revoked \subseteq revoked'
    BY Zenon DEF SessionNext, TickSessions, WallSetBack, SetWall, StartDaemon, StopDaemon,
           ExchangeBootstrap, RequireSession, AuthorizeMutation, SubmitAuthorized, RevokeSession,
           IssuePermit, ReplayPreflight, CheckPermit, DeliverFrame, Disconnect, sessionRows
  <2>4. daemon # NoSession /\ daemon' # NoSession => daemon' = daemon
    BY Zenon DEF SessionNext, TickSessions, WallSetBack, SetWall, StartDaemon, StopDaemon,
           ExchangeBootstrap, RequireSession, AuthorizeMutation, SubmitAuthorized, RevokeSession,
           IssuePermit, ReplayPreflight, CheckPermit, DeliverFrame, Disconnect, sessionRows
  <2>5. ASSUME NEW t \in Tokens, daemon # NoSession, daemon' # NoSession,
               ~ReadSession(t), ReadSession(t)'
        PROVE  t \notin revoked /\ (session[t] = NoSession \/ wall' # wall)
    BY <2>1, <2>3, <2>4, <2>5, Zenon DEF ReadSession
  <2> QED  BY <2>1, <2>2, <2>5, Zenon DEF NoNewAuthority
<1> QED  BY <1>1, SessionsKept, PTL DEF SessionSpec, AuthorityOnlyEnds

-----------------------------------------------------------------------------
(* Mutation reservations, permits and launch grants.                       *)

\* What the lease steps keep true of the counter, the row and the history.
LeaseFacts ==
  /\ \A f \in Fences : f > fence => reclaimed[f] = NoRow /\ fingerprint[f] = 0
  /\ lease # NoRow => /\ lease.fence = fence
                      /\ reclaimed[lease.fence] = NoRow
                      /\ lease.expires_at <= now + LeaseTtl

\* t does not outlive the lease of fence f: not while it is held, and not
\* its reclaim if it was reclaimed.
Within(f, t) ==
  /\ f <= fence
  /\ lease # NoRow /\ lease.fence = f => t <= lease.expires_at
  /\ reclaimed[f] # NoRow => t <= reclaimed[f]

RowFacts ==
  /\ EveryRowLoads
  /\ \A m \in Mutations : presentation[m] # NoRow => mutation[m] # NoRow

PresentedWithin(m) ==
  LET p == presentation[m] IN
  /\ p.permit.issued_at <= p.presented_at /\ p.presented_at < p.permit.expires_at
  /\ p.permit.fence = mutation[m].fence
  /\ Within(p.permit.fence, p.presented_at + 1)

NonceWithin(g) ==
  /\ Within(nonce[g].fence, nonce[g].expires_at)
  /\ nonce[g].consumed_at # NoRow => nonce[g].consumed_at < nonce[g].expires_at

UseFacts ==
  /\ \A g \in Grants : mint[g] # NoRow => Within(mint[g].fence, mint[g].expires_at)
  /\ \A g \in Grants : nonce[g] # NoRow => NonceWithin(g)
  /\ \A m \in Mutations : presentation[m] # NoRow => PresentedWithin(m)

TypeInv == MutationTypeOK /\ LeaseFacts

Inv == TypeInv /\ RowFacts /\ UseFacts

LEMMA InitInv == Init => Inv
<1> SUFFICES ASSUME Init PROVE Inv
  BY Zenon
<1> USE AuthorityConstants DEF Init
<1>1. MutationTypeOK
  BY DEF MutationTypeOK, Epochs, Fences
<1>2. LeaseFacts
  BY Zenon DEF LeaseFacts, Fences
<1>3. RowFacts
  BY Zenon DEF RowFacts, EveryRowLoads
<1>4. UseFacts
  BY Zenon DEF UseFacts
<1> QED BY <1>1, <1>2, <1>3, <1>4, Zenon DEF Inv, TypeInv

\* The lease steps keep their own facts, and whatever was within a lease.
LEMMA LeaseStepFacts ==
  ASSUME TypeInv, LeaseSteps
  PROVE  /\ TypeInv'
         /\ UNCHANGED <<authority, mutationVars, grantVars>>
         /\ \A f \in Fences : f <= fence => fingerprint'[f] = fingerprint[f]
         /\ \A f \in Fences, t \in Nat : Within(f, t) => Within(f, t)'
<1> USE AuthorityConstants DEF TypeInv, LeaseFacts, Within, Fences
<1>0. UNCHANGED <<authority, mutationVars, grantVars>>
  BY Zenon DEF LeaseSteps, Tick, Acquire, Heartbeat, AttemptSettles, Release, Reclaim
<1>1. CASE Tick
  BY <1>0, <1>1, SMTT(30) DEF Tick, MutationTypeOK, mutationVars, grantVars, LeaseRow
<1>2. CASE Acquire
  <2>1. /\ fence \in Nat /\ fence' = fence + 1 /\ fence' \in Fences
        /\ lease' \in LeaseRow /\ lease'.fence = fence'
        /\ lease'.expires_at = now + LeaseTtl
    BY <1>2, SMTT(30) DEF Acquire, MutationTypeOK, LeaseRow
  <2>2. /\ fingerprint' \in [Fences -> Epochs \cup {0}]
        /\ \A f \in Fences : f # fence' => fingerprint'[f] = fingerprint[f]
        /\ UNCHANGED <<now, reclaimed>>
    BY <1>2, <2>1, Zenon DEF Acquire, MutationTypeOK
  <2>3. MutationTypeOK'
    BY <1>0, <2>1, <2>2, SMTT(30) DEF MutationTypeOK, mutationVars, grantVars
  <2>4. LeaseFacts'
    BY <2>1, <2>2 DEF MutationTypeOK
  <2>5. lease = NoRow
    BY <1>2, Zenon DEF Acquire
  <2>6. ASSUME NEW f \in Fences, NEW t \in Nat, Within(f, t) PROVE Within(f, t)'
    BY <2>1, <2>2, <2>5, <2>6 DEF MutationTypeOK
  <2> QED BY <1>0, <2>1, <2>2, <2>3, <2>4, <2>6, SMTT(30)
<1>3. CASE Heartbeat
  <2>0. /\ lease \in LeaseRow /\ now + LeaseTtl \in Nat
        /\ lease' = [lease EXCEPT !.expires_at = now + LeaseTtl]
    BY <1>3 DEF Heartbeat, MutationTypeOK
  <2>1. /\ lease' \in LeaseRow /\ lease'.fence = lease.fence
        /\ lease'.expires_at = now + LeaseTtl
    BY ONLY <2>0, Zenon DEF LeaseRow
  <2> QED BY <1>0, <1>3, <2>1, SMTT(30) DEF Heartbeat, MutationTypeOK, mutationVars, grantVars, LeaseRow
<1>4. CASE AttemptSettles
  <2>1. /\ lease' \in LeaseRow /\ lease'.fence = lease.fence
        /\ lease'.expires_at = lease.expires_at
    BY <1>4, Zenon DEF AttemptSettles, MutationTypeOK, LeaseRow
  <2> QED BY <1>0, <1>4, <2>1, SMTT(30) DEF AttemptSettles, MutationTypeOK, mutationVars, grantVars
<1>5. CASE Release
  BY <1>0, <1>5, ZenonT(40) DEF Release, MutationTypeOK, mutationVars, grantVars
<1>6. CASE Reclaim
  <2>1. /\ lease.fence \in Fences /\ lease.expires_at \in Nat
        /\ lease.expires_at <= now
    BY <1>6, Zenon DEF Reclaim, MutationTypeOK, LeaseRow
  <2> QED BY <1>0, <1>6, <2>1, SMTT(30) DEF Reclaim, MutationTypeOK, mutationVars, grantVars
<1> QED BY <1>1, <1>2, <1>3, <1>4, <1>5, <1>6, Zenon DEF LeaseSteps

\* No other step moves the lease, so what was within it still is.
LEMMA WithinKept ==
  ASSUME UNCHANGED leaseVars, NEW f \in Fences, NEW t \in Nat, Within(f, t)
  PROVE  Within(f, t)'
BY Zenon DEF Within, leaseVars

\* An instant at which the lease is active is within it.
LEMMA ActiveWithin ==
  ASSUME TypeInv, NEW f \in Fences, ActiveLease(f)
  PROVE  /\ lease.fence = f /\ f <= fence /\ lease.expires_at \in Nat
         /\ \A t \in Nat : t <= lease.expires_at => Within(f, t)
         /\ now + 1 <= lease.expires_at
BY DEF TypeInv, LeaseFacts, MutationTypeOK, ActiveLease, Within, LeaseRow, Fences

\* An earlier instant is within it too.
LEMMA EarlierWithin ==
  ASSUME TypeInv, NEW f \in Fences, NEW t \in Nat, NEW u \in Nat, u <= t, Within(f, t)
  PROVE  Within(f, u)
<1>1. reclaimed[f] # NoRow => reclaimed[f] \in Nat
  BY Zenon DEF TypeInv, MutationTypeOK
<1>2. lease # NoRow => lease.expires_at \in Nat
  BY Zenon DEF TypeInv, MutationTypeOK, LeaseRow
<1> QED BY ONLY <1>1, <1>2, t \in Nat, u \in Nat, u <= t, Within(f, t) DEF Within

\* A fence bound to an authority was handed out.
LEMMA BoundFenceIssued ==
  ASSUME TypeInv, NEW f \in Fences, fingerprint[f] \in Epochs
  PROVE  f <= fence
<1>1. f > fence => fingerprint[f] = 0
  BY Zenon DEF TypeInv, LeaseFacts
<1>2. fence \in Nat /\ f \in Nat /\ fingerprint[f] # 0
  BY AuthorityConstants DEF TypeInv, MutationTypeOK, Fences, Epochs
<1> QED BY ONLY <1>1, <1>2

-----------------------------------------------------------------------------
(* The mutation half.                                                      *)

\* What the trigger on authority_revisions does to a row.
LEMMA InvalidateFacts ==
  ASSUME MutationTypeOK, NEW m \in Mutations
  PROVE  /\ Invalidate(mutation)[m] \in MutationRow \cup {NoRow}
         /\ Invalidate(mutation)[m] = NoRow <=> mutation[m] = NoRow
         /\ mutation[m] # NoRow =>
              /\ Invalidate(mutation)[m].fence = mutation[m].fence
              /\ Invalidate(mutation)[m].authority = mutation[m].authority
              /\ Invalidate(mutation)[m].disposition \notin Open
              /\ mutation[m].disposition \notin Open
                   => Invalidate(mutation)[m] = mutation[m]
              /\ mutation[m].disposition = "RESERVED" =>
                   /\ Invalidate(mutation)[m].disposition = "INVALIDATED"
                   /\ Invalidate(mutation)[m].completion = mutation[m].completion
              /\ mutation[m].disposition = "CONSUMED" =>
                   /\ Invalidate(mutation)[m].disposition = "UNKNOWN"
                   /\ Invalidate(mutation)[m].completion = AuthorityMoved
<1>1. mutation[m] \in MutationRow \cup {NoRow}
  BY Zenon DEF MutationTypeOK
<1> QED BY ONLY <1>1, m \in Mutations, AuthorityConstants, ZenonT(40)
     DEF Invalidate, MutationRow, Dispositions, Open, CompletionDigests

LEMMA MoveAuthorityInv ==
  ASSUME Inv, MoveAuthority
  PROVE  Inv'
<1> USE DEF Inv, TypeInv
<1>1. /\ UNCHANGED leaseVars /\ UNCHANGED <<presentation, permits, grantVars>>
      /\ authority' \in Epochs
      /\ mutation' = Invalidate(mutation)
  BY AuthorityConstants DEF MoveAuthority, MutationTypeOK, Epochs
<1>2. MutationTypeOK'
  <2>1. mutation' \in [Mutations -> MutationRow \cup {NoRow}]
    BY <1>1, InvalidateFacts, Zenon DEF Invalidate
  <2> QED BY <1>1, <2>1, Zenon DEF MutationTypeOK, leaseVars, grantVars
<1>3. LeaseFacts'
  BY <1>1, Zenon DEF LeaseFacts, leaseVars
<1>4. RowFacts'
  <2>1. ASSUME NEW m \in Mutations, mutation'[m] # NoRow
        PROVE  RowLoads(m, mutation[m])'
    <3>1. mutation[m] # NoRow /\ mutation[m] \in MutationRow /\ RowLoads(m, mutation[m])
      BY <1>1, <2>1, InvalidateFacts, ZenonT(40) DEF MutationTypeOK, RowFacts, EveryRowLoads
    <3>2. mutation[m].disposition \in Dispositions
      BY <3>1, Zenon DEF MutationRow
    <3>3. AuthorityMoved # NoRow
      BY AuthorityConstants, Zenon DEF CompletionDigests
    <3>4. /\ presentation' = presentation /\ fingerprint' = fingerprint
          /\ mutation'[m].fence = mutation[m].fence
          /\ mutation'[m].authority = mutation[m].authority
          /\ mutation'[m].disposition \notin Open
      BY <1>1, <3>1, InvalidateFacts, Zenon DEF leaseVars
    <3>5. CASE mutation[m].disposition \notin Open
      <4>1. mutation'[m] = mutation[m]
        BY <1>1, <3>1, <3>5, InvalidateFacts, Zenon
      <4> QED BY <3>1, <3>4, <4>1, Zenon DEF RowLoads
    <3>6. CASE mutation[m].disposition = "RESERVED"
      <4>1. /\ mutation'[m].disposition = "INVALIDATED"
            /\ mutation'[m].completion = mutation[m].completion
        BY <1>1, <3>1, <3>6, InvalidateFacts, Zenon
      <4> QED BY <3>1, <3>4, <3>6, <4>1, Zenon DEF RowLoads
    <3>7. CASE mutation[m].disposition = "CONSUMED"
      <4>1. /\ mutation'[m].disposition = "UNKNOWN"
            /\ mutation'[m].completion = AuthorityMoved
        BY <1>1, <3>1, <3>7, InvalidateFacts, Zenon
      <4> QED BY <3>1, <3>3, <3>4, <3>7, <4>1, Zenon DEF RowLoads
    <3> QED BY <3>5, <3>6, <3>7, Zenon DEF Open
  <2>2. ASSUME NEW m \in Mutations, presentation'[m] # NoRow PROVE mutation'[m] # NoRow
    <3>1. mutation[m] # NoRow
      BY <1>1, <2>2, Zenon DEF RowFacts
    <3> QED BY <1>1, <3>1, InvalidateFacts, Zenon
  <2> QED BY <2>1, <2>2, Zenon DEF RowFacts, EveryRowLoads
<1>5. UseFacts'
  <2>1. \A m \in Mutations : presentation[m] # NoRow =>
          mutation[m] # NoRow /\ mutation'[m].fence = mutation[m].fence
    BY <1>1, InvalidateFacts, Zenon DEF RowFacts
  <2> QED BY <1>1, <2>1, Zenon
       DEF UseFacts, PresentedWithin, NonceWithin, Within, leaseVars, grantVars
<1> QED BY <1>2, <1>3, <1>4, <1>5, Zenon

\* The steps that change one reservation: its fence stays what it was, the
\* lease and the grants stay as they are.
LEMMA ReserveInv ==
  ASSUME Inv, NEW m \in Mutations, NEW r \in Requests, NEW f \in Fences,
         ReserveMutation(m, r, f)
  PROVE  Inv'
<1> DEFINE row == [request |-> r, fence |-> f, authority |-> authority,
                   disposition |-> "RESERVED", completion |-> NoRow]
<1> USE DEF Inv, TypeInv
<1>1. /\ UNCHANGED leaseVars /\ UNCHANGED <<authority, presentation, permits, grantVars>>
      /\ mutation[m] = NoRow /\ fingerprint[f] = authority
      /\ mutation' = [mutation EXCEPT ![m] = row]
  BY Zenon DEF ReserveMutation, FreshLease
<1>2. /\ row \in MutationRow /\ row # NoRow
      /\ row.fence = f /\ row.authority = authority /\ row.disposition = "RESERVED"
      /\ row.completion = NoRow
  BY AuthorityConstants DEF MutationTypeOK, MutationRow, Dispositions
<1> HIDE DEF row
<1>3. /\ mutation' \in [Mutations -> MutationRow \cup {NoRow}]
      /\ mutation'[m] = row
      /\ \A n \in Mutations \ {m} : mutation'[n] = mutation[n]
  BY <1>1, <1>2, Zenon DEF MutationTypeOK
<1>4. MutationTypeOK'
  BY <1>1, <1>3, Zenon DEF MutationTypeOK, leaseVars, grantVars
<1>5. LeaseFacts'
  BY <1>1, Zenon DEF LeaseFacts, leaseVars
<1>6. presentation[m] = NoRow
  BY <1>1, Zenon DEF RowFacts
<1>7. RowFacts'
  BY <1>1, <1>2, <1>3, <1>6, Zenon DEF RowFacts, EveryRowLoads, RowLoads, leaseVars
<1>8. UseFacts'
  BY <1>1, <1>3, <1>6, Zenon
     DEF UseFacts, PresentedWithin, NonceWithin, Within, leaseVars, grantVars
<1> QED BY <1>4, <1>5, <1>7, <1>8, Zenon

LEMMA MintPermitInv ==
  ASSUME Inv, NEW m \in Mutations, NEW e \in Epochs, MintPermit(m, e)
  PROVE  Inv'
<1> USE DEF Inv, TypeInv
<1>1. /\ UNCHANGED leaseVars
      /\ UNCHANGED <<authority, mutation, presentation, grantVars>>
      /\ mutation[m] # NoRow
      /\ permits' = permits \cup
           {[mutation |-> m, request |-> mutation[m].request,
             fence |-> mutation[m].fence, authority |-> e,
             issued_at |-> now, expires_at |-> now + PermitTtl]}
  BY Zenon DEF MintPermit
<1>2. /\ mutation[m].request \in Requests /\ mutation[m].fence \in Fences
      /\ now \in Nat /\ now + PermitTtl \in Nat
  <2>1. mutation[m] \in MutationRow
    BY <1>1, Zenon DEF MutationTypeOK
  <2>2. mutation[m].request \in Requests /\ mutation[m].fence \in Fences
    BY <2>1, Zenon DEF MutationRow
  <2>3. now \in Nat
    BY Zenon DEF MutationTypeOK
  <2>4. now + PermitTtl \in Nat
    BY <2>3, AuthorityConstants, SMTT(30)
  <2> QED BY <2>2, <2>3, <2>4, Zenon
<1>3. permits' \in SUBSET Permit
  BY <1>1, <1>2, SMTT(30) DEF MutationTypeOK, Permit
<1>4. MutationTypeOK'
  BY <1>1, <1>3, Zenon DEF MutationTypeOK, leaseVars, grantVars
<1> QED BY <1>1, <1>4, Zenon
     DEF LeaseFacts, RowFacts, EveryRowLoads, RowLoads, UseFacts, PresentedWithin,
         NonceWithin, Within, leaseVars, grantVars

LEMMA PresentInv ==
  ASSUME Inv, NEW p \in permits, PresentMutation(p)
  PROVE  Inv'
<1> DEFINE m == p.mutation
           shown == [permit |-> p, presented_at |-> now]
<1> USE DEF Inv, TypeInv
<1>1. /\ p \in Permit /\ m \in Mutations /\ now \in Nat
      /\ p.issued_at \in Nat /\ p.expires_at \in Nat
  BY Zenon DEF MutationTypeOK, Permit
<1>2. /\ mutation[m] \in MutationRow /\ mutation[m].fence \in Fences
      /\ mutation[m].disposition = "RESERVED"
      /\ p.fence = mutation[m].fence
      /\ p.issued_at <= now /\ now < p.expires_at
      /\ ActiveLease(mutation[m].fence)
      /\ mutation[m].authority = authority
      /\ presentation' = [presentation EXCEPT ![m] = shown]
      /\ mutation' = [mutation EXCEPT ![m].disposition = "CONSUMED"]
      /\ UNCHANGED leaseVars /\ UNCHANGED <<authority, permits, grantVars>>
  BY <1>1, Zenon DEF PresentMutation, Presentable, MutationTypeOK, MutationRow
<1>3. /\ shown \in Presentation /\ shown # NoRow
      /\ shown.permit = p /\ shown.presented_at = now
  BY <1>1, AuthorityConstants DEF Presentation
<1> HIDE DEF m, shown
<1>4. /\ mutation'[m] \in MutationRow /\ mutation'[m].disposition = "CONSUMED"
      /\ mutation'[m].fence = mutation[m].fence
      /\ mutation'[m].authority = mutation[m].authority
      /\ mutation'[m].completion = mutation[m].completion
      /\ \A n \in Mutations \ {m} : mutation'[n] = mutation[n]
      /\ mutation' \in [Mutations -> MutationRow \cup {NoRow}]
  BY <1>1, <1>2, Zenon DEF MutationTypeOK, MutationRow, Dispositions
<1>5. /\ presentation'[m] = shown
      /\ \A n \in Mutations \ {m} : presentation'[n] = presentation[n]
      /\ presentation' \in [Mutations -> Presentation \cup {NoRow}]
  BY <1>1, <1>2, <1>3, Zenon DEF MutationTypeOK
<1>6. MutationTypeOK'
  BY <1>2, <1>4, <1>5, Zenon DEF MutationTypeOK, leaseVars, grantVars
<1>7. LeaseFacts'
  BY <1>2, Zenon DEF LeaseFacts, leaseVars
<1>8. mutation[m] # NoRow /\ mutation'[m] # NoRow
  BY <1>2, <1>4, AuthorityConstants, Zenon
<1>9. RowFacts'
  BY <1>1, <1>2, <1>3, <1>4, <1>5, <1>8, SMTT(30) DEF RowFacts, EveryRowLoads, RowLoads, leaseVars
<1>10. UseFacts'
  <2>1. Within(mutation[m].fence, now + 1)
    BY <1>1, <1>2, ActiveWithin
  <2>2. PresentedWithin(m)'
    BY <1>1, <1>2, <1>3, <1>4, <1>5, <2>1, Zenon DEF PresentedWithin, Within, leaseVars
  <2>3. ASSUME NEW n \in Mutations, n # m, presentation'[n] # NoRow
        PROVE  PresentedWithin(n)'
    BY <1>2, <1>4, <1>5, <2>3, Zenon DEF UseFacts, PresentedWithin, Within, leaseVars
  <2>4. \A g \in Grants : /\ mint'[g] # NoRow => Within(mint[g].fence, mint[g].expires_at)'
                          /\ nonce'[g] # NoRow => NonceWithin(g)'
    BY <1>2, Zenon DEF UseFacts, NonceWithin, Within, leaseVars, grantVars
  <2> QED BY <2>2, <2>3, <2>4, Zenon DEF UseFacts
<1> QED BY <1>6, <1>7, <1>9, <1>10, Zenon

LEMMA CompleteInv ==
  ASSUME Inv, NEW m \in Mutations, NEW next \in {"SETTLED", "UNKNOWN"},
         NEW d \in Readbacks, CompleteMutation(m, next, d)
  PROVE  Inv'
<1> USE DEF Inv, TypeInv
<1>1. /\ UNCHANGED leaseVars /\ UNCHANGED <<authority, presentation, permits, grantVars>>
      /\ mutation[m] # NoRow /\ mutation[m].disposition = "CONSUMED"
      /\ mutation[m] \in MutationRow
      /\ mutation' = [mutation EXCEPT ![m] =
           [[mutation[m] EXCEPT !.disposition = next] EXCEPT !.completion = d]]
  BY Zenon DEF CompleteMutation, Completable, MutationTypeOK
<1>2. /\ mutation'[m] \in MutationRow /\ mutation'[m].disposition = next
      /\ mutation'[m].fence = mutation[m].fence
      /\ mutation'[m].authority = mutation[m].authority
      /\ mutation'[m].completion = d
      /\ \A n \in Mutations \ {m} : mutation'[n] = mutation[n]
      /\ mutation' \in [Mutations -> MutationRow \cup {NoRow}]
  BY <1>1, Zenon DEF MutationTypeOK, MutationRow, Dispositions, CompletionDigests
<1>3. mutation'[m] # NoRow /\ d # NoRow
  BY <1>2, AuthorityConstants, Zenon DEF CompletionDigests
<1>4. MutationTypeOK'
  BY <1>1, <1>2, Zenon DEF MutationTypeOK, leaseVars, grantVars
<1>5. LeaseFacts'
  BY <1>1, Zenon DEF LeaseFacts, leaseVars
<1>6. RowFacts'
  BY <1>1, <1>2, <1>3, ZenonT(40) DEF RowFacts, EveryRowLoads, RowLoads, leaseVars, Open
<1>7. UseFacts'
  BY <1>1, <1>2 DEF UseFacts, PresentedWithin, NonceWithin, Within, leaseVars, grantVars
<1> QED BY <1>4, <1>5, <1>6, <1>7, Zenon

-----------------------------------------------------------------------------
(* The launch-grant half.                                                  *)

\* A grant expires no later than the lease expiry its mint read.
LEMMA ExpiryFacts ==
  ASSUME NEW b \in MintRead
  PROVE  GrantExpiry(b) \in Nat /\ GrantExpiry(b) <= b.expires_at
BY AuthorityConstants DEF MintRead, GrantExpiry, Lesser

\* The rows a grant step may write are typed and within their lease.
LEMMA GrantStepFacts ==
  ASSUME TypeInv, UseFacts, NEW g \in Grants,
         \/ MintReadsLease(g) \/ MintChecksLease(g) \/ MintRecords(g)
         \/ AdmitCompares(g) \/ AdmitConsumes(g)
  PROVE  /\ UNCHANGED leaseVars /\ UNCHANGED <<authority, mutationVars>>
         /\ mint' \in [Grants -> MintRead \cup {NoRow}]
         /\ nonce' \in [Grants -> NonceRow \cup {NoRow}]
         /\ grant' \in [Grants -> [fence : Fences, authority : Epochs] \cup {NoRow}]
         /\ admitting' \in SUBSET Grants
         /\ \A h \in Grants : mint'[h] # NoRow => Within(mint'[h].fence, mint'[h].expires_at)
         /\ \A h \in Grants : nonce'[h] # NoRow =>
              /\ Within(nonce'[h].fence, nonce'[h].expires_at)
              /\ nonce'[h].consumed_at # NoRow =>
                   nonce'[h].consumed_at < nonce'[h].expires_at
<1> USE DEF TypeInv, UseFacts, NonceWithin
<1>1. CASE MintReadsLease(g)
  <2> DEFINE b == [fence |-> lease.fence, expires_at |-> lease.expires_at,
                   at |-> now, lease |-> "read"]
  <2>1. /\ lease \in LeaseRow /\ lease.fence = fence /\ reclaimed[lease.fence] = NoRow
        /\ lease # NoRow
        /\ mint' = [mint EXCEPT ![g] = b]
        /\ UNCHANGED leaseVars
        /\ UNCHANGED <<authority, mutationVars, nonce, grant, admitting>>
    BY <1>1, Zenon DEF MintReadsLease, MutationTypeOK, LeaseFacts
  <2>2. b \in MintRead /\ b.fence = lease.fence /\ b.expires_at = lease.expires_at
    BY <2>1, Zenon DEF MutationTypeOK, LeaseRow, MintRead
  <2>3. Within(b.fence, b.expires_at)
    BY <2>1, <2>2, SMTT(30) DEF Within, LeaseRow, MutationTypeOK, Fences
  <2> HIDE DEF b
  <2> QED BY <2>1, <2>2, <2>3, Zenon DEF MutationTypeOK
<1>2. CASE MintChecksLease(g)
  <2>1. /\ mint[g] # NoRow /\ mint[g] \in MintRead
        /\ mint' = [mint EXCEPT ![g] =
             IF ActiveLease(mint[g].fence) THEN [mint[g] EXCEPT !.lease = "checked"]
             ELSE NoRow]
        /\ UNCHANGED leaseVars
        /\ UNCHANGED <<authority, mutationVars, nonce, grant, admitting>>
    BY <1>2, Zenon DEF MintChecksLease, MutationTypeOK
  <2>2. PICK b \in MintRead \cup {NoRow} :
          /\ mint' = [mint EXCEPT ![g] = b]
          /\ b # NoRow => b.fence = mint[g].fence /\ b.expires_at = mint[g].expires_at
    <3> DEFINE c == [mint[g] EXCEPT !.lease = "checked"]
    <3>1. /\ c \in MintRead /\ c.fence = mint[g].fence
          /\ c.expires_at = mint[g].expires_at
      BY ONLY <2>1, Zenon DEF MintRead
    <3> HIDE DEF c
    <3>2. CASE ActiveLease(mint[g].fence)
      <4>1. mint' = [mint EXCEPT ![g] = c]
        BY <2>1, <3>2, Zenon DEF c
      <4> QED BY <3>1, <4>1, Zenon
    <3>3. CASE ~ActiveLease(mint[g].fence)
      <4>1. mint' = [mint EXCEPT ![g] = NoRow]
        BY <2>1, <3>3, Zenon
      <4> QED BY <4>1, Zenon
    <3> QED BY <3>2, <3>3, Zenon
  <2>3. mint \in [Grants -> MintRead \cup {NoRow}]
    BY Zenon DEF MutationTypeOK
  <2>4. mint' \in [Grants -> MintRead \cup {NoRow}]
    BY <2>2, <2>3, Zenon
  <2>5. ASSUME NEW h \in Grants, mint'[h] # NoRow
        PROVE  Within(mint'[h].fence, mint'[h].expires_at)
    <3>1. CASE h = g
      BY <2>1, <2>2, <2>3, <2>5, <3>1, Zenon
    <3>2. CASE h # g
      BY <2>2, <2>3, <2>5, <3>2, Zenon
    <3> QED BY <3>1, <3>2, Zenon
  <2> QED BY <2>1, <2>4, <2>5, Zenon DEF MutationTypeOK
<1>3. CASE MintRecords(g)
  <2> DEFINE b == mint[g]
             n == [fence |-> b.fence, expires_at |-> GrantExpiry(b), consumed_at |-> NoRow]
  <2>1. /\ b # NoRow /\ b \in MintRead
        /\ mint' = [mint EXCEPT ![g] = NoRow]
        /\ nonce' \in {nonce, [nonce EXCEPT ![g] = n]}
        /\ grant' \in {grant, [grant EXCEPT ![g] =
                                 [fence |-> b.fence, authority |-> authority]]}
        /\ UNCHANGED leaseVars /\ UNCHANGED <<authority, mutationVars, admitting>>
    BY <1>3, Zenon DEF MintRecords, MutationTypeOK
  <2>2. /\ b.fence \in Fences /\ b.expires_at \in Nat
        /\ GrantExpiry(b) \in Nat /\ GrantExpiry(b) <= b.expires_at
    BY <2>1, ExpiryFacts, Zenon DEF MintRead
  <2>3. Within(b.fence, GrantExpiry(b))
    BY <2>1, <2>2, EarlierWithin, Zenon
  <2>4. /\ n \in NonceRow /\ n.fence = b.fence /\ n.expires_at = GrantExpiry(b)
        /\ n.consumed_at = NoRow
    BY <2>2, Zenon DEF NonceRow
  <2>5. [fence |-> b.fence, authority |-> authority] \in [fence : Fences, authority : Epochs]
    BY <2>2, Zenon DEF MutationTypeOK
  <2> HIDE DEF b, n
  <2>6. grant' \in [Grants -> [fence : Fences, authority : Epochs] \cup {NoRow}]
    BY <2>1, <2>5, Zenon DEF MutationTypeOK
  <2>7. mint' \in [Grants -> MintRead \cup {NoRow}]
    BY <2>1, Zenon DEF MutationTypeOK
  <2>8. nonce \in [Grants -> NonceRow \cup {NoRow}]
    BY Zenon DEF MutationTypeOK
  <2>9. nonce' \in [Grants -> NonceRow \cup {NoRow}]
    BY <2>1, <2>4, <2>8, Zenon
  <2>10. ASSUME NEW h \in Grants PROVE nonce'[h] = nonce[h] \/ nonce'[h] = n
    BY <2>1, <2>8, Zenon
  <2>11. ASSUME NEW h \in Grants, mint'[h] # NoRow
         PROVE  mint'[h] = mint[h]
    BY <2>1, <2>11, Zenon DEF MutationTypeOK
  <2>12. ASSUME NEW h \in Grants, nonce'[h] # NoRow
         PROVE  \/ nonce[h] # NoRow /\ nonce'[h] = nonce[h]
                \/ Within(nonce'[h].fence, nonce'[h].expires_at) /\ nonce'[h].consumed_at = NoRow
    BY <2>3, <2>4, <2>10, <2>12, Zenon
  <2> QED BY <2>1, <2>6, <2>7, <2>9, <2>11, <2>12, Zenon DEF MutationTypeOK
<1>4. CASE AdmitCompares(g)
  BY <1>4, Zenon DEF AdmitCompares, MutationTypeOK
<1>5. CASE AdmitConsumes(g)
  <2>1. /\ admitting' = admitting \ {g}
        /\ UNCHANGED leaseVars /\ UNCHANGED <<authority, mutationVars, mint, grant>>
    BY <1>5, Zenon DEF AdmitConsumes
  <2>2. CASE Consumable(g)
    <3>1. /\ nonce[g] \in NonceRow /\ nonce[g] # NoRow
          /\ now < nonce[g].expires_at /\ now \in Nat
          /\ nonce' = [nonce EXCEPT ![g].consumed_at = now]
      BY <1>5, <2>2, Zenon DEF AdmitConsumes, Consumable, MutationTypeOK
    <3>2. PICK n \in NonceRow :
            /\ nonce' = [nonce EXCEPT ![g] = n]
            /\ n.fence = nonce[g].fence /\ n.expires_at = nonce[g].expires_at
            /\ n.consumed_at = now
      <4>1. [nonce[g] EXCEPT !.consumed_at = now] \in NonceRow
        BY <3>1, Zenon DEF NonceRow
      <4> QED BY <3>1, <4>1, Zenon DEF NonceRow
    <3> QED BY <2>1, <3>1, <3>2, ZenonT(40) DEF MutationTypeOK
  <2>3. CASE ~Consumable(g)
    BY <1>5, <2>1, <2>3, Zenon DEF AdmitConsumes, MutationTypeOK
  <2> QED BY <2>2, <2>3, Zenon
<1> QED BY <1>1, <1>2, <1>3, <1>4, <1>5, Zenon

LEMMA GrantInv ==
  ASSUME Inv, GrantSteps
  PROVE  Inv'
<1> PICK g \in Grants :
      \/ MintReadsLease(g) \/ MintChecksLease(g) \/ MintRecords(g)
      \/ AdmitCompares(g) \/ AdmitConsumes(g)
  BY Zenon DEF GrantSteps
<1>0. TypeInv /\ UseFacts /\ RowFacts
  BY Zenon DEF Inv
<1>1. /\ UNCHANGED leaseVars /\ UNCHANGED <<authority, mutationVars>>
      /\ mint' \in [Grants -> MintRead \cup {NoRow}]
      /\ nonce' \in [Grants -> NonceRow \cup {NoRow}]
      /\ grant' \in [Grants -> [fence : Fences, authority : Epochs] \cup {NoRow}]
      /\ admitting' \in SUBSET Grants
      /\ \A h \in Grants : mint'[h] # NoRow => Within(mint'[h].fence, mint'[h].expires_at)
      /\ \A h \in Grants : nonce'[h] # NoRow =>
           /\ Within(nonce'[h].fence, nonce'[h].expires_at)
           /\ nonce'[h].consumed_at # NoRow =>
                nonce'[h].consumed_at < nonce'[h].expires_at
  BY <1>0, GrantStepFacts, Zenon
<1>2. MutationTypeOK'
  BY <1>0, <1>1, Zenon DEF TypeInv, MutationTypeOK, leaseVars, mutationVars
<1>3. LeaseFacts'
  BY <1>0, <1>1, Zenon DEF TypeInv, LeaseFacts, leaseVars
<1>4. RowFacts'
  BY <1>0, <1>1, Zenon DEF RowFacts, EveryRowLoads, RowLoads, leaseVars, mutationVars, Open
<1>5. UseFacts'
  BY <1>0, <1>1, Zenon
  DEF UseFacts, PresentedWithin, NonceWithin, Within, leaseVars, mutationVars
<1> QED BY <1>2, <1>3, <1>4, <1>5, Zenon DEF Inv, TypeInv

LEMMA LeaseInv ==
  ASSUME Inv, LeaseSteps
  PROVE  Inv'
<1>0. TypeInv /\ UseFacts /\ RowFacts /\ MutationTypeOK /\ LeaseFacts
  BY Zenon DEF Inv, TypeInv
<1>1. /\ TypeInv'
      /\ UNCHANGED <<authority, mutationVars, grantVars>>
      /\ \A f \in Fences : f <= fence => fingerprint'[f] = fingerprint[f]
      /\ \A f \in Fences, t \in Nat : Within(f, t) => Within(f, t)'
  BY <1>0, LeaseStepFacts, Zenon
<1>2. RowFacts'
  <2>1. ASSUME NEW m \in Mutations, mutation[m] # NoRow
        PROVE  fingerprint'[mutation[m].fence] = fingerprint[mutation[m].fence]
    <3>1. /\ mutation[m].fence \in Fences /\ mutation[m].authority \in Epochs
          /\ fingerprint[mutation[m].fence] = mutation[m].authority
      BY <1>0, <2>1, Zenon DEF MutationTypeOK, MutationRow, RowFacts, EveryRowLoads, RowLoads
    <3>2. mutation[m].fence <= fence
      BY <1>0, <3>1, BoundFenceIssued, Zenon
    <3> QED BY <1>1, <3>1, <3>2, Zenon
  <2> QED BY <1>0, <1>1, <2>1, Zenon DEF RowFacts, EveryRowLoads, RowLoads, mutationVars, Open
<1>3. UseFacts'
  <2>1. ASSUME NEW g \in Grants, mint[g] # NoRow
        PROVE  Within(mint[g].fence, mint[g].expires_at)'
    <3>1. mint[g].fence \in Fences /\ mint[g].expires_at \in Nat
      BY <1>0, <2>1, Zenon DEF MutationTypeOK, MintRead
    <3>2. Within(mint[g].fence, mint[g].expires_at)
      BY <1>0, <2>1, Zenon DEF UseFacts
    <3>3. mint' = mint
      BY <1>1, Zenon DEF grantVars
    <3> QED BY <1>1, <3>1, <3>2, <3>3, Zenon DEF Within
  <2>2. ASSUME NEW g \in Grants, nonce[g] # NoRow
        PROVE  NonceWithin(g)'
    <3>1. nonce[g].fence \in Fences /\ nonce[g].expires_at \in Nat
      BY <1>0, <2>2, Zenon DEF MutationTypeOK, NonceRow
    <3>2. NonceWithin(g)
      BY <1>0, <2>2, Zenon DEF UseFacts
    <3>3. nonce' = nonce
      BY <1>1, Zenon DEF grantVars
    <3> QED BY <1>1, <3>1, <3>2, <3>3, Zenon DEF Within, NonceWithin
  <2>3. ASSUME NEW m \in Mutations, presentation[m] # NoRow
        PROVE  PresentedWithin(m)'
    <3>1. /\ presentation[m].permit.fence \in Fences
          /\ presentation[m].presented_at + 1 \in Nat
      BY <1>0, <2>3 DEF MutationTypeOK, Presentation, Permit
    <3>2. PresentedWithin(m)
      BY <1>0, <2>3, Zenon DEF UseFacts
    <3>3. presentation' = presentation /\ mutation' = mutation
      BY <1>1, Zenon DEF mutationVars
    <3> QED BY <1>1, <3>1, <3>2, <3>3, Zenon DEF Within, PresentedWithin
  <2> QED BY <1>1, <2>1, <2>2, <2>3, Zenon DEF UseFacts, grantVars, mutationVars
<1> QED BY <1>1, <1>2, <1>3, Zenon DEF Inv

-----------------------------------------------------------------------------
LEMMA NextInv == Inv /\ [Next]_vars => Inv'
<1> SUFFICES ASSUME Inv, [Next]_vars PROVE Inv'
  BY Zenon
<1>1. CASE LeaseSteps
  BY <1>1, LeaseInv, Zenon
<1>2. CASE MoveAuthority
  BY <1>2, MoveAuthorityInv, Zenon
<1>3. CASE MutationSteps
  <2>1. ASSUME NEW m \in Mutations, NEW r \in Requests, NEW f \in Fences,
               ReserveMutation(m, r, f)
        PROVE  Inv'
    BY <2>1, ReserveInv, Zenon
  <2>2. ASSUME NEW m \in Mutations, NEW e \in Epochs, MintPermit(m, e)
        PROVE  Inv'
    BY <2>2, MintPermitInv, Zenon
  <2>3. ASSUME NEW p \in permits, PresentMutation(p)
        PROVE  Inv'
    BY <2>3, PresentInv, Zenon
  <2>4. ASSUME NEW m \in Mutations, NEW next \in {"SETTLED", "UNKNOWN"},
               NEW d \in Readbacks, CompleteMutation(m, next, d)
        PROVE  Inv'
    BY <2>4, CompleteInv, Zenon
  <2> QED BY <1>3, <2>1, <2>2, <2>3, <2>4, Zenon DEF MutationSteps
<1>4. CASE GrantSteps
  BY <1>4, GrantInv, Zenon
<1>5. CASE UNCHANGED vars
  <2>1. /\ MutationTypeOK' /\ LeaseFacts' /\ RowFacts'
    BY <1>5, Zenon DEF Inv, TypeInv, MutationTypeOK, LeaseFacts, RowFacts, EveryRowLoads,
                RowLoads, vars, leaseVars, mutationVars, grantVars
  <2>2. UseFacts'
    BY <1>5, Zenon DEF Inv, UseFacts, PresentedWithin, NonceWithin, Within,
                vars, leaseVars, mutationVars, grantVars
  <2> QED BY <2>1, <2>2, Zenon DEF Inv, TypeInv
<1> QED BY <1>1, <1>2, <1>3, <1>4, <1>5, Zenon DEF Next

\* The strengthening the other theorems rest on: rows are typed, the lease row
\* holds the newest fence, and nothing outlives the lease it was granted under.
THEOREM AuthorityInvariant == Spec => []Inv
<1>1. Init => Inv
  BY InitInv, Zenon
<1>2. Inv /\ [Next]_vars => Inv'
  BY NextInv, Zenon
<1> QED BY <1>1, <1>2, PTL DEF Spec

\* Type correctness of the reservation, permit, nonce and lease rows.
THEOREM AuthorityTypes == Spec => []MutationTypeOK
<1>1. Inv => MutationTypeOK
  BY Zenon DEF Inv, TypeInv
<1> QED BY <1>1, AuthorityInvariant, PTL

\* Every stored reservation loads: validate_mutation_row never refuses a row
\* the ledger itself wrote, for any number of mutations, fences and epochs.
THEOREM ReservationsLoad == Spec => []EveryRowLoads
<1>1. Inv => EveryRowLoads
  BY Zenon DEF Inv, RowFacts
<1> QED BY <1>1, AuthorityInvariant, PTL

\* One-use authority (a launch-grant nonce, a mutation permit) is used before
\* its own lease is reclaimed.
THEOREM UsesAreLeased == Spec => []UsedUnderOwnLease
<1>1. Inv => UsedUnderOwnLease
  <2> SUFFICES ASSUME Inv PROVE UsedUnderOwnLease
    BY Zenon
  <2>1. MutationTypeOK /\ UseFacts /\ RowFacts
    BY Zenon DEF Inv, TypeInv
  <2>2. ASSUME NEW g \in Grants, nonce[g] # NoRow, nonce[g].consumed_at # NoRow,
               reclaimed[nonce[g].fence] # NoRow
        PROVE  nonce[g].consumed_at < reclaimed[nonce[g].fence]
    <3>1. /\ nonce[g].fence \in Fences /\ nonce[g].expires_at \in Nat
          /\ nonce[g].consumed_at \in Nat /\ reclaimed[nonce[g].fence] \in Nat
      BY <2>1, <2>2, Zenon DEF MutationTypeOK, NonceRow
    <3>2. NonceWithin(g)
      BY <2>1, <2>2, Zenon DEF UseFacts
    <3>3. /\ nonce[g].consumed_at < nonce[g].expires_at
          /\ nonce[g].expires_at <= reclaimed[nonce[g].fence]
      BY <2>2, <3>2, Zenon DEF NonceWithin, Within
    <3> QED BY <3>1, <3>3
  <2>3. ASSUME NEW m \in Mutations, presentation[m] # NoRow,
               reclaimed[presentation[m].permit.fence] # NoRow
        PROVE  presentation[m].presented_at < reclaimed[presentation[m].permit.fence]
    <3>1. /\ presentation[m].permit.fence \in Fences
          /\ presentation[m].presented_at \in Nat
          /\ reclaimed[presentation[m].permit.fence] \in Nat
      BY <2>1, <2>3, Zenon DEF MutationTypeOK, Presentation, Permit
    <3>2. Within(presentation[m].permit.fence, presentation[m].presented_at + 1)
      BY <2>1, <2>3, Zenon DEF UseFacts, PresentedWithin
    <3>3. presentation[m].presented_at + 1 <= reclaimed[presentation[m].permit.fence]
      BY <2>3, <3>2, Zenon DEF Within
    <3> QED BY <3>1, <3>3, SMTT(30)
  <2> QED BY <2>1, <2>2, <2>3, Zenon DEF UsedUnderOwnLease, UseFacts, PresentedWithin, RowFacts
<1> QED BY <1>1, AuthorityInvariant, PTL

\* Both together: what validate_mutation_row accepts is what the ledger wrote,
\* and one-use authority is used under its own lease.
THEOREM BoundUses == Spec => []UsesAreBound
<1> QED BY ReservationsLoad, UsesAreLeased, PTL DEF UsesAreBound

\* A closed row (SETTLED, UNKNOWN, INVALIDATED) is never written again, by a
\* late read-back, an authority move or a new reservation.
THEOREM OutcomesFinal == Spec => OutcomeIsFinal
<1>1. Inv /\ [Next]_vars => [ClosedRowKept]_vars
  <2> SUFFICES ASSUME Inv, Next, NEW m \in Mutations, mutation[m] # NoRow,
                      mutation[m].disposition \notin Open
               PROVE  mutation'[m] = mutation[m]
    BY Zenon DEF ClosedRowKept
  <2>0. mutation \in [Mutations -> MutationRow \cup {NoRow}]
    BY Zenon DEF Inv, TypeInv, MutationTypeOK
  <2>1. CASE LeaseSteps
    BY <2>1, LeaseStepFacts, Zenon DEF Inv, mutationVars
  <2>2. CASE MoveAuthority
    BY <2>0, <2>2, Zenon DEF MoveAuthority, Invalidate, Open
  <2>3. CASE MutationSteps
    <3>1. ASSUME NEW n \in Mutations, NEW r \in Requests, NEW f \in Fences,
                 ReserveMutation(n, r, f)
          PROVE  mutation'[m] = mutation[m]
      BY <2>0, <3>1, Zenon DEF ReserveMutation
    <3>2. ASSUME NEW n \in Mutations, NEW e \in Epochs, MintPermit(n, e)
          PROVE  mutation'[m] = mutation[m]
      BY <3>2, Zenon DEF MintPermit
    <3>3. ASSUME NEW p \in permits, PresentMutation(p)
          PROVE  mutation'[m] = mutation[m]
      <4>1. m # p.mutation
        BY <3>3, Zenon DEF PresentMutation, Presentable, Open
      <4> QED BY <2>0, <3>3, <4>1, Zenon DEF PresentMutation
    <3>4. ASSUME NEW n \in Mutations, NEW next \in {"SETTLED", "UNKNOWN"},
                 NEW d \in Readbacks, CompleteMutation(n, next, d)
          PROVE  mutation'[m] = mutation[m]
      <4>1. m # n
        BY <3>4, Zenon DEF CompleteMutation, Completable, Open
      <4> QED BY <2>0, <3>4, <4>1, Zenon DEF CompleteMutation
    <3> QED BY <2>3, <3>1, <3>2, <3>3, <3>4, Zenon DEF MutationSteps
  <2>4. CASE GrantSteps
    BY <2>4, Zenon DEF GrantSteps, MintReadsLease, MintChecksLease, MintRecords,
                AdmitCompares, AdmitConsumes, mutationVars
  <2> QED BY <2>1, <2>2, <2>3, <2>4, Zenon DEF Next
<1> QED BY <1>1, AuthorityInvariant, PTL DEF Spec, OutcomeIsFinal
=============================================================================
