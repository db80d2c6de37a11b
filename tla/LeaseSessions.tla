---------------------------- MODULE LeaseSessions ----------------------------
(***************************************************************************)
(* The Unix socket under the signed lease transport:                       *)
(*   server  apps/bullet-farmd/src/lease_transport_rpc.rs with peer.rs,    *)
(*           deadline.rs and lease_transport_custody.rs                    *)
(*   client  SignedLeaseRpcClient::call of                                 *)
(*           crates/runner/src/signed_lease_rpc.rs.                        *)
(*                                                                         *)
(* farmd is started, killed and started again, and an operator may remove  *)
(* its socket at any time: incarnation s binds the socket with inode s (an *)
(* inode number the file system reuses would be farmd's own all the same). *)
(* Every await point is a step boundary, so a deadline may fire while a    *)
(* frame is awaited, while the ledger lock is awaited and while an answer  *)
(* is written.  What a request does to the ledger is LeaseTransport's      *)
(* matter: here it commits or is refused.                                  *)
(***************************************************************************)
EXTENDS Integers, Sequences, FiniteSets

CONSTANTS
  LsServers,   \* bound: farmd incarnations are 1..LsServers
  LsConns,     \* bound: connections are 1..LsConns
  LsClients,   \* runner processes, each with a uid of its own
  LsSlots      \* TransportBounds::max_in_flight_sessions

ASSUME SessionConstants == LsServers \in Nat /\ LsConns \in Nat /\ LsSlots \in Nat \ {0}

VARIABLES
  lsFiles,    \* custody: the signing key and the peer registry
  lsPath,     \* the socket path: inode, and whether its mode is 0660 yet
  lsServer,   \* what each incarnation is doing
  lsBound,    \* BoundSocketIdentity: the path inode an incarnation recorded
  lsClient,   \* the call each runner has under way, and the inode it admitted
  lsConn,     \* connections, with both ends of each
  lsDone      \* requests applied to the ledger

sessionVars == <<lsFiles, lsPath, lsServer, lsBound, lsClient, lsConn, lsDone>>

Incarnations == 1..LsServers
Conns == 1..LsConns
Absent == [ino |-> 0, mode |-> FALSE]

\* A hello names the Runner incarnation its process is configured with, its
\* own or, by mistake, another's (client c's uid is registered for runner c);
\* one of another version may name another protocol, not parse, or be longer
\* than HELLO_MAX.
Hellos == LsClients \cup {"proto", "unparsed", "oversized"}

\* RpcRequest: a lease or Candidate method names its runner in the body, a
\* command method runs as the hello's.
Bodies == LsClients \cup {"command", "params", "unparsed", "oversized"}

\* TransportRefusal's codes, a refusal of the operation, the answer "ok", and
\* what is left of an answer whose write was cut short.
Codes == {"FRAME_TOO_LARGE", "READ_DEADLINE", "SESSION_DEADLINE", "OVERLOADED"}
Replies == Codes \cup {"INVALID", "PEER_UNREGISTERED", "MISMATCH", "refused", "ok", "cut"}

\* What SignedLeaseRpcClient::call made of a connection.
Told == {"nothing", "lost"} \cup Replies

Open == {"hello", "idle", "locked", "answer", "closing"}

\* The two ends of a connection.  "in" is the frame on its way to the server,
\* "out" the frames on their way to the client; "who" is the hello's runner
\* and "req" the request under way.
Unused == [at |-> "unused", c |-> "nobody", srv |-> 0, ino |-> 0, who |-> "nobody", in |-> "",
            req |-> "", ans |-> "", out |-> <<>>, left |-> FALSE, told |-> "nothing"]

SessionsInit ==
  /\ lsFiles = [f \in {"key", "registry"} |-> "none"]
  /\ lsPath = Absent
  /\ lsServer = [s \in Incarnations |-> "down"]
  /\ lsBound = [s \in Incarnations |-> 0]
  /\ lsClient = [c \in LsClients |-> [at |-> "rest", ino |-> 0, conn |-> 0]]
  /\ lsConn = [k \in Conns |-> Unused]
  /\ lsDone = {}

-----------------------------------------------------------------------------
(* Custody and the socket path. *)

\* write_new_signing_key and write_peer_registry: create_new, write, sync.  A
\* crash after the create leaves a short file that nothing replaces, and the
\* registry is written without the checks its load makes.
LsWriteCustody(f) ==
  /\ lsFiles[f] = "none"
  /\ \E bytes \in {"whole", "torn", "flawed"} :
       /\ bytes = "flawed" => f = "registry"
       /\ lsFiles' = [lsFiles EXCEPT ![f] = bytes]
  /\ UNCHANGED <<lsPath, lsServer, lsBound, lsClient, lsConn, lsDone>>

\* load_durable_lease_transport: a key that is not 64 bytes, a registry that
\* does not parse, an epoch 0, a duplicate or an empty list stops the start.
Loads == \A f \in {"key", "registry"} : lsFiles[f] = "whole"

\* bind_admitted_socket, up to the bind: validate_socket_path refuses to
\* replace anything at the path, a dead incarnation's socket included.
LsBind(s) ==
  /\ lsServer[s] = "down" /\ Loads
  /\ \A t \in Incarnations : t < s => lsServer[t] # "down"
  /\ lsPath = Absent
  /\ lsPath' = [ino |-> s, mode |-> FALSE]
  /\ lsServer' = [lsServer EXCEPT ![s] = "bound"]
  /\ UNCHANGED <<lsFiles, lsBound, lsClient, lsConn, lsDone>>

\* The server's end closes: what the session held goes with it.
Close(conn) == [conn EXCEPT !.at = "closed", !.who = "nobody", !.in = "", !.req = "", !.ans = ""]
Closed(k) == Close(lsConn[k])

\* serve returns, or farmd dies: listener and sessions close.
Gone(s) ==
  /\ lsServer' = [lsServer EXCEPT ![s] = "dead"]
  /\ lsConn' = [k \in Conns |-> IF lsConn[k].srv = s THEN Closed(k) ELSE lsConn[k]]

\* The rest of bind_admitted_socket: the mode is set and the identity read
\* through the path, whatever is bound there by then.
LsAdmitOwnSocket(s) ==
  /\ lsServer[s] = "bound"
  /\ IF lsPath = Absent
     THEN Gone(s) /\ UNCHANGED <<lsPath, lsBound>>
     ELSE /\ lsPath' = [lsPath EXCEPT !.mode = TRUE]
          /\ lsBound' = [lsBound EXCEPT ![s] = lsPath.ino]
          /\ lsServer' = [lsServer EXCEPT ![s] = "up"] /\ UNCHANGED lsConn
  /\ UNCHANGED <<lsFiles, lsClient, lsDone>>

\* farmd dies at any step; its path stays.
LsStop(s) ==
  /\ lsServer[s] \in {"bound", "up"}
  /\ Gone(s)
  /\ UNCHANGED <<lsFiles, lsPath, lsBound, lsClient, lsDone>>

\* An operator removes the path, stale or not.
LsUnlink ==
  /\ lsPath # Absent
  /\ lsPath' = Absent
  /\ UNCHANGED <<lsFiles, lsServer, lsBound, lsClient, lsConn, lsDone>>

-----------------------------------------------------------------------------
(* The client: SignedLeaseRpcClient::call. *)

\* admit_socket: a socket owned by farmd, mode 0660.
Admits == lsPath.mode

Calling(c, at) == lsClient[c].at = at
Rest(c) == lsClient' = [lsClient EXCEPT ![c] = [at |-> "rest", ino |-> 0, conn |-> 0]]

LsCall(c) ==
  /\ Calling(c, "rest") /\ Admits
  /\ Cardinality({k \in Conns : lsConn[k].at = "unused"}) >
       Cardinality({d \in LsClients : Calling(d, "connect")})   \* within LsConns
  /\ lsClient' = [lsClient EXCEPT ![c].at = "connect", ![c].ino = lsPath.ino]
  /\ UNCHANGED <<lsFiles, lsPath, lsServer, lsBound, lsConn, lsDone>>

\* connect reaches whichever incarnation listens at the path by now.
LsConnect(c) ==
  /\ Calling(c, "connect")
  /\ IF lsPath # Absent /\ lsServer[lsPath.ino] \in {"bound", "up"}
     THEN \E k \in Conns :
            /\ lsConn[k].at = "unused" /\ \A j \in Conns : j < k => lsConn[j].at # "unused"
            /\ lsConn' = [lsConn EXCEPT ![k] = [Unused EXCEPT !.at = "backlog", !.c = c,
                                                 !.srv = lsPath.ino, !.ino = lsClient[c].ino]]
            /\ lsClient' = [lsClient EXCEPT ![c].at = "hello", ![c].conn = k]
     ELSE Rest(c) /\ UNCHANGED lsConn
  /\ UNCHANGED <<lsFiles, lsPath, lsServer, lsBound, lsDone>>

\* The caller's end goes: it drops the stream with the outcome told.
Leave(c, told) ==
  LET k == lsClient[c].conn
  IN /\ lsConn' = [lsConn EXCEPT ![k] = [@ EXCEPT !.left = TRUE, !.told = told, !.out = <<>>]]
     /\ Rest(c)

\* admit_socket a second and a third time: the identity has not changed.
SameSocket(c) == Admits /\ lsPath.ino = lsClient[c].ino

Send(c, frame, at) ==
  LET k == lsClient[c].conn
  IN IF lsConn[k].at = "closed"
     THEN Leave(c, "lost")
     ELSE /\ lsConn' = [lsConn EXCEPT ![k].in = frame]
          /\ lsClient' = [lsClient EXCEPT ![c].at = at]

\* authenticate_connected_server, then the hello.
LsHello(c) ==
  /\ Calling(c, "hello")
  /\ IF SameSocket(c) THEN \E h \in Hellos : Send(c, h, "ack") ELSE Leave(c, "lost")
  /\ UNCHANGED <<lsFiles, lsPath, lsServer, lsBound, lsDone>>

\* read_json: the next frame, or the end of the stream.
Readable(c) == LET k == lsClient[c].conn
               IN lsConn[k].out # <<>> \/ lsConn[k].at = "closed"
NextFrame(c) == LET k == lsClient[c].conn
                IN IF lsConn[k].out = <<>> THEN "eof" ELSE Head(lsConn[k].out)

\* HelloAck must bind the admitted socket; any other frame does not decode.
LsRequest(c) ==
  LET k == lsClient[c].conn
  IN /\ Calling(c, "ack") /\ Readable(c)
     /\ IF NextFrame(c) = "ack" /\ lsBound[lsConn[k].srv] = lsClient[c].ino /\ SameSocket(c)
        THEN \E b \in Bodies :
               IF lsConn[k].at = "closed" THEN Leave(c, "lost")
               ELSE /\ lsConn' = [lsConn EXCEPT ![k] = [@ EXCEPT !.in = b, !.out = Tail(@)]]
                    /\ lsClient' = [lsClient EXCEPT ![c].at = "reply"]
        ELSE Leave(c, "lost")
     /\ UNCHANGED <<lsFiles, lsPath, lsServer, lsBound, lsDone>>

\* A reply that was cut short, or none, tells the caller nothing.
LsReply(c) ==
  /\ Calling(c, "reply") /\ Readable(c)
  /\ Leave(c, IF NextFrame(c) \in {"eof", "cut"} THEN "lost" ELSE NextFrame(c))
  /\ UNCHANGED <<lsFiles, lsPath, lsServer, lsBound, lsDone>>

\* The runner is killed, or drops the call, at any await point.
LsAbandon(c) ==
  /\ lsClient[c].conn # 0
  /\ Leave(c, "lost")
  /\ UNCHANGED <<lsFiles, lsPath, lsServer, lsBound, lsDone>>

-----------------------------------------------------------------------------
(* The server: serve_inner's accept loop and one session per connection. *)

SlotsTaken(s) == Cardinality({k \in Conns : lsConn[k].srv = s /\ lsConn[k].at \in Open})

\* admit_peer: the path still holds the identity recorded at bind.
AdmitPeer(s) == Admits /\ lsPath.ino = lsBound[s]

\* SessionSlots::try_admit.
TryAdmit(s) == SlotsTaken(s) < LsSlots

Reply(k, frame) == [lsConn[k] EXCEPT !.out = IF lsConn[k].left THEN <<>> ELSE Append(@, frame)]

LsAccept(k) ==
  LET s == lsConn[k].srv
  IN /\ lsConn[k].at = "backlog" /\ lsServer[s] = "up"
     /\ lsConn' = [lsConn EXCEPT ![k] =
          IF ~AdmitPeer(s) THEN Closed(k)
          ELSE IF TryAdmit(s) THEN [lsConn[k] EXCEPT !.at = "hello"]
          ELSE Close(Reply(k, "OVERLOADED"))]
     /\ UNCHANGED <<lsFiles, lsPath, lsServer, lsBound, lsClient, lsDone>>

\* Bug: any registered Runner, whatever the peer's uid.
AdmitRunnerAnyUid(c, who) == who \in LsClients

\* LeasePeerRegistry::admit_runner.
AdmitRunner(c, who) == who = c

\* handle, from the hello frame to its answer.
LsServeHello(k) ==
  LET h == lsConn[k].in
      refuses(code) == Close(Reply(k, code))
  IN /\ lsConn[k].at = "hello" /\ h # ""
     /\ lsConn' = [lsConn EXCEPT ![k] =
          CASE h = "unparsed" -> Closed(k)
            [] h = "oversized" -> [@ EXCEPT !.at = "closing", !.in = "", !.ans = "FRAME_TOO_LARGE"]
            [] h = "proto" -> refuses("INVALID")
            [] h \in LsClients /\ ~AdmitRunner(lsConn[k].c, h) -> refuses("PEER_UNREGISTERED")
            [] OTHER -> [Reply(k, "ack") EXCEPT !.in = "", !.at = "idle", !.who = h]]
     /\ UNCHANGED <<lsFiles, lsPath, lsServer, lsBound, lsClient, lsDone>>

\* A whole frame arrived in time: it is parsed, and dispatch waits for the
\* ledger lock.  A frame one byte too long closes the session with its code.
LsReadRequest(k) ==
  LET b == lsConn[k].in
  IN /\ lsConn[k].at = "idle" /\ b # ""
     /\ lsConn' = [lsConn EXCEPT ![k] =
          CASE b = "unparsed" -> Closed(k)
            [] b = "oversized" -> [@ EXCEPT !.at = "closing", !.in = "", !.ans = "FRAME_TOO_LARGE"]
            [] OTHER -> [@ EXCEPT !.at = "locked", !.in = "", !.req = b]]
     /\ UNCHANGED <<lsFiles, lsPath, lsServer, lsBound, lsClient, lsDone>>

\* dispatch under the lock: no await between taking and releasing it.  A body
\* for another runner is refused; one whose parameters do not parse ends the
\* session.  The transaction commits or is refused, and the look-up of the
\* authority token after a committed acquire may itself fail.
LsDispatch(k) ==
  LET q == lsConn[k].req
      runs == q \in {"command", lsConn[k].who}
      answers(a) == [lsConn EXCEPT ![k] = [@ EXCEPT !.at = "answer", !.ans = a]]
  IN /\ lsConn[k].at = "locked"
     /\ \/ q = "params" /\ lsConn' = [lsConn EXCEPT ![k] = Closed(k)] /\ UNCHANGED lsDone
        \/ q # "params" /\ ~runs /\ lsConn' = answers("MISMATCH") /\ UNCHANGED lsDone
        \/ runs /\ lsConn' = answers("refused") /\ UNCHANGED lsDone
        \/ /\ runs
           /\ lsDone' = lsDone \cup {[conn |-> k, runner |-> lsConn[k].who]}
           /\ \E a \in {"ok"} \cup (IF q = "command" THEN {} ELSE {"refused"}) :
                lsConn' = answers(a)
     /\ UNCHANGED <<lsFiles, lsPath, lsServer, lsBound, lsClient>>

\* The answer is written whole; a peer that has gone ends the session.
LsAnswer(k) ==
  /\ lsConn[k].at = "answer"
  /\ lsConn' = [lsConn EXCEPT ![k] =
       IF lsConn[k].left THEN Closed(k)
       ELSE [Reply(k, lsConn[k].ans) EXCEPT !.at = "idle", !.req = "", !.ans = ""]]
  /\ UNCHANGED <<lsFiles, lsPath, lsServer, lsBound, lsClient, lsDone>>

\* read_frame sees the end of the stream.
LsEof(k) ==
  /\ lsConn[k].at \in {"hello", "idle"} /\ lsConn[k].in = "" /\ lsConn[k].left
  /\ lsConn' = [lsConn EXCEPT ![k] = Closed(k)]
  /\ UNCHANGED <<lsFiles, lsPath, lsServer, lsBound, lsClient, lsDone>>

\* read_deadline: one whole frame did not arrive.
LsReadDeadline(k) ==
  /\ lsConn[k].at \in {"hello", "idle"} /\ lsConn[k].in = ""
  /\ lsConn' = [lsConn EXCEPT ![k] = [@ EXCEPT !.at = "closing", !.ans = "READ_DEADLINE"]]
  /\ UNCHANGED <<lsFiles, lsPath, lsServer, lsBound, lsClient, lsDone>>

\* session_deadline, at any await point.  Of an answer being written, some or
\* none may have gone out.
LsSessionDeadline(k) ==
  /\ lsConn[k].at \in {"hello", "idle"} => lsConn[k].in = ""
  /\ lsConn[k].at \in Open \ {"closing"}
  /\ \E cut \in BOOLEAN :
       /\ cut => lsConn[k].at = "answer" /\ ~lsConn[k].left
       /\ lsConn' = [lsConn EXCEPT ![k] =
            [@ EXCEPT !.at = "closing", !.ans = "SESSION_DEADLINE",
                      !.out = IF cut THEN Append(@, "cut") ELSE @]]
  /\ UNCHANGED <<lsFiles, lsPath, lsServer, lsBound, lsClient, lsDone>>

\* close_with_reason: one refusal frame, if the peer drains it in time; only
\* then is the slot given back.
LsClose(k) ==
  /\ lsConn[k].at = "closing"
  /\ \E c \in {Reply(k, lsConn[k].ans), lsConn[k]} :
       lsConn' = [lsConn EXCEPT ![k] = Close(c)]
  /\ UNCHANGED <<lsFiles, lsPath, lsServer, lsBound, lsClient, lsDone>>

SessionStep(k) ==
  \/ LsAccept(k) \/ LsServeHello(k) \/ LsReadRequest(k) \/ LsDispatch(k) \/ LsAnswer(k)
  \/ LsEof(k) \/ LsReadDeadline(k) \/ LsSessionDeadline(k) \/ LsClose(k)

ClientCall(c) == LsConnect(c) \/ LsHello(c) \/ LsRequest(c) \/ LsReply(c)

SessionsNext ==
  \/ \E f \in {"key", "registry"} : LsWriteCustody(f)
  \/ \E s \in Incarnations : LsBind(s) \/ LsAdmitOwnSocket(s) \/ LsStop(s)
  \/ LsUnlink
  \/ \E c \in LsClients : LsCall(c) \/ ClientCall(c) \/ LsAbandon(c)
  \/ \E k \in Conns : SessionStep(k)

-----------------------------------------------------------------------------
(* Properties. *)

SessionsTypeOK ==
  /\ lsFiles \in [{"key", "registry"} -> {"none", "torn", "flawed", "whole"}]
  /\ lsPath \in [ino : 0..LsServers, mode : BOOLEAN]
  /\ lsServer \in [Incarnations -> {"down", "bound", "up", "dead"}]
  /\ lsBound \in [Incarnations -> 0..LsServers]
  /\ lsClient \in [LsClients -> [at : {"rest", "connect", "hello", "ack", "reply"},
                                ino : 0..LsServers, conn : 0..LsConns]]
  /\ \A k \in Conns : /\ lsConn[k].at \in Open \cup {"unused", "backlog", "closed"}
                      /\ lsConn[k].in \in {""} \cup Hellos \cup Bodies
                      /\ lsConn[k].ans \in {""} \cup Replies /\ lsConn[k].told \in Told
                      /\ lsConn[k].out \in Seq(Replies \cup {"ack"})
  /\ lsDone \subseteq [conn : Conns, runner : LsClients]

\* Sessions hold no more than the socket's slots, from accept until the
\* refusal frame is written or given up (deadline.rs: "never a queue").
SlotsAreBounded == \A s \in Incarnations : SlotsTaken(s) <= LsSlots

\* A request that was applied came from the process whose uid is registered
\* for the runner it runs as, and went to the incarnation whose own socket the
\* caller admitted before it connected, although incarnations come and go and
\* the path is removed and bound again between any two of the caller's checks.
AppliedIsAuthentic ==
  \A d \in lsDone : /\ d.runner = lsConn[d.conn].c
                    /\ lsConn[d.conn].ino = lsConn[d.conn].srv

\* What the caller was told is so: "ok" was applied, and a refusal by a bound
\* on a frame, or of a body for another runner, applied nothing.  A session
\* deadline, a lost answer and a refusal after the commit leave it open, and
\* the caller reads back.
RepliesAreTrue ==
  \A k \in Conns :
    LET applied == \E d \in lsDone : d.conn = k
    IN /\ lsConn[k].told = "ok" => applied
       /\ lsConn[k].told \in {"FRAME_TOO_LARGE", "READ_DEADLINE", "MISMATCH"} => ~applied

SessionsAreHonest == SlotsAreBounded /\ AppliedIsAuthentic /\ RepliesAreTrue

\* No connection is waiting to be accepted and no session holds a slot.
SessionsAreOver == \A k \in Conns : lsConn[k].at \notin Open \cup {"backlog"}
=============================================================================
