------------------------------- MODULE Egress -------------------------------
(***************************************************************************)
(* The egress sandbox of harness-egress: EgressSandbox::prepare_with with   *)
(* its namespace holder, uplink, ruleset and probes, the CONNECT proxy with *)
(* one thread per connection, the drop that takes everything down, and the  *)
(* filesystem profile that pins what a provider child may see.  At most one *)
(* thing is wrong with the host, with the profile or with a request: its    *)
(* flaw.  A validator is the set of flaws it looks for.                     *)
(***************************************************************************)
EXTENDS Integers, Sequences, FiniteSets

CONSTANTS
  EgConns,      \* the connections made to the proxy
  EgTunnels,    \* ProxyLimits::max_tunnels
  FxChanges     \* bound: changes made to the host's files while they are used

ASSUME EgressBounds == EgTunnels \in Nat \ {0} /\ FxChanges \in Nat

VARIABLES
  eg,           \* prepare, the namespace, the proxy's shared state
  conns,        \* the proxy's connection threads
  fx            \* the filesystem profile and the objects it names

egressVars == <<eg, conns, fx>>

-----------------------------------------------------------------------------
(* Requests: read_head, parse_connect_target and the policy. *)

HeadFlaws == {"oversized", "malformed", "method"}
TargetFlaws == {"authority", "port", "host"}
Requests == {"admitted", "login", "other_host", "other_port"} \cup HeadFlaws \cup TargetFlaws

ReadHead == {"oversized", "malformed"}                   \* bounded reading
ParseHead == {"method", "malformed", "oversized"}        \* the request line
HeadStatus(req) == CASE req = "method" -> 405 [] req = "oversized" -> 431 [] OTHER -> 400

ParsePort == {"port"}
NormalizeHost == {"host"}
ParseConnectTarget == {"authority"} \cup ParsePort \cup NormalizeHost

\* EgressPolicy: the hosts of a provider's table, and port 443.
ForProvider(mode) == IF mode = "Extended" THEN {"api", "login"} ELSE {"api"}
PolicyPorts == {443}
HostOf(req) == CASE req = "other_host" -> "elsewhere" [] req = "login" -> "login" [] OTHER -> "api"
PortOf(req) == IF req = "other_port" THEN 80 ELSE 443
EgDecide(mode, req) ==
  CASE HostOf(req) \notin ForProvider(mode) -> "host-not-allowlisted"
    [] PortOf(req) \notin PolicyPorts -> "port-not-allowed"
    [] OTHER -> "Allow"

\* What the log says of a request that is settled before armed is read.
Refusal(mode, req) ==
  CASE req \in ReadHead \cup ParseHead -> [decision |-> "Malformed", reason |-> req, status |-> HeadStatus(req)]
    [] req \in ParseConnectTarget -> [decision |-> "Deny", reason |-> req, status |-> 403]
    [] EgDecide(mode, req) # "Allow" -> [decision |-> "Deny", reason |-> EgDecide(mode, req), status |-> 403]
    [] OTHER -> [decision |-> "Allow", reason |-> "disarmed", status |-> 503]

LogTarget(req) == IF req \in HeadFlaws THEN "" ELSE req
Unlogged == [decision |-> "Malformed", reason |-> "<none>", status |-> 0]

\* DecisionLog::record; recent() is searched from its end, so the last
\* record of a target is all anyone can see of it.  Only the probes look:
\* the log is kept for the targets they ask for, while they run.
ProbedTargets == {"", "other_host", "admitted"}
Record(e, req, entry) ==
  IF LogTarget(req) \in ProbedTargets /\ e.pc = "probes"
  THEN [e EXCEPT !.log = [@ EXCEPT ![LogTarget(req)] = entry]] ELSE e

-----------------------------------------------------------------------------
(* The proxy. *)

NewConn == [pc |-> "idle", from |-> "inside", req |-> "unread"]
EgSet(c, pc) ==
  conns' = [conns EXCEPT ![c] = IF pc = "closed" THEN [NewConn EXCEPT !.pc = pc] ELSE [@ EXCEPT !.pc = pc]]
EgAdmitted(pc) == {c \in EgConns : conns[c].pc = pc}
Holders == EgAdmitted("dial") \cup EgAdmitted("relay")

\* accept_loop: a child of the sandbox through the uplink, or a process of
\* the host; the probes' own requests are EgProxyAsk.
EgAccept(c, from) ==
  /\ eg.acceptor = "up" /\ ~eg.stop /\ conns[c].pc = "idle"
  /\ from = "inside" => eg.slirp = "up" /\ eg.child # "none"
  /\ conns' = [conns EXCEPT ![c] = [pc |-> "head", from |-> from, req |-> "unread"]]
  /\ UNCHANGED <<eg, fx>>

\* serve, to the armed check: only an admitted target of an armed proxy goes on.
EgServe(c, req) ==
  /\ conns[c].pc = "head"
  /\ LET entry == Refusal(eg.mode, req)
     IN  IF entry.decision = "Allow" /\ eg.armed
         THEN conns' = [conns EXCEPT ![c].pc = "acquire", ![c].req = req] /\ UNCHANGED eg
         ELSE EgSet(c, "closed") /\ eg' = Record(eg, req, entry)
  /\ UNCHANGED fx

\* TunnelGuard::acquire: fetch_add, and for the one over the limit fetch_sub.
Acquire(previous) == IF previous >= EgTunnels THEN "over" ELSE "dial"

EgAcquire(c) ==
  /\ conns[c].pc = "acquire"
  /\ EgSet(c, Acquire(eg.tunnels))
  /\ eg' = [eg EXCEPT !.tunnels = @ + 1]
  /\ UNCHANGED fx

EgOverLimit(c) ==
  /\ conns[c].pc = "over"
  /\ EgSet(c, "closed")
  /\ eg' = Record([eg EXCEPT !.tunnels = @ - 1], conns[c].req,
                  [decision |-> "Limit", reason |-> "tunnel-limit", status |-> 503])
  /\ UNCHANGED fx

\* connect_upstream, the answer and the bytes that came with the head; the
\* guard is dropped on every return.
EgDial(c, fails) ==
  /\ conns[c].pc = "dial"
  /\ EgSet(c, IF fails = "no" THEN "relay" ELSE "closed")
  /\ LET logged == Record(eg, conns[c].req,
                          [decision |-> "Allow", reason |-> IF fails = "upstream" THEN "upstream" ELSE "tunnel",
                           status |-> IF fails = "upstream" THEN 502 ELSE 200])
     IN  eg' = IF fails = "no" THEN logged ELSE [logged EXCEPT !.tunnels = @ - 1]
  /\ UNCHANGED fx

\* relay: one end closes, fails or stays silent for the idle time; the pump
\* that notices shuts both ends, so the other pump ends too.
EgRelayEnds(c) ==
  /\ conns[c].pc = "relay"
  /\ EgSet(c, "closed")
  /\ eg' = [eg EXCEPT !.tunnels = @ - 1]
  /\ UNCHANGED fx

-----------------------------------------------------------------------------
(* Preparing the sandbox. *)

ListingFlaws == {"rule_missing", "surplus_accept", "policy_accept", "second_table"}
Destinations == {"direct-internet", "host-jeryu", "host-decoy", "dns-blocked-tcp", "dns-blocked-udp"}
ProxyProbes == {"proxy-reachable", "proxy-disallowed", "proxy-allowed-path"}
RunProbes == <<"direct-internet", "host-jeryu", "host-decoy", "dns-blocked-tcp", "dns-blocked-udp",
               "proxy-reachable", "proxy-disallowed", "proxy-allowed-path">>

\* tools, directory, log and ruleset steps that work or fail; the rest have
\* actions of their own.
EgSteps == <<"tools", "workdir", "log", "proxy", "namespace", "uplink", "install", "listing", "decoy", "probes",
             "seal", "require", "write", "arm">>
After(step) == LET i == CHOOSE i \in 1 .. Len(EgSteps) : EgSteps[i] = step
               IN  IF i = Len(EgSteps) THEN "prepared" ELSE EgSteps[i + 1]

NewSandbox(mode, flaw) ==
  [pc |-> "tools", mode |-> mode, flaw |-> flaw, holder |-> "none", slirp |-> "none", pipes |-> FALSE,
   acceptor |-> "none", stop |-> FALSE, armed |-> FALSE, tunnels |-> 0,
   probed |-> 0, outcomes |-> {}, evidence |-> TRUE, asked |-> FALSE, receipt |-> FALSE, child |-> "none", ended |-> "no",
   log |-> [t \in ProbedTargets |-> Unlogged]]

EgFail(e) == [e EXCEPT !.pc = "drop", !.ended = "failed"]
EgGo(e) == [e EXCEPT !.pc = After(eg.pc)]

\* Tooling::discover, create_dir_all, DecisionLog::open, nft -f, the decoy
\* listener and seal: each can fail and leaves nothing else behind.
EgPlainStep(fails) ==
  /\ eg.pc \in {"tools", "workdir", "log", "install", "decoy", "seal"}
  /\ eg' = IF fails THEN EgFail(eg) ELSE EgGo(eg)
  /\ UNCHANGED <<conns, fx>>

EgProxyStart(fails) ==
  /\ eg.pc = "proxy"
  /\ eg' = IF fails THEN EgFail(eg) ELSE EgGo([eg EXCEPT !.acceptor = "up"])
  /\ UNCHANGED <<conns, fx>>

\* Namespace::create: the holder is this process's child from the spawn on;
\* it exits early, never enters the namespace and is killed, or is ready.
EgCreate(how) ==
  /\ eg.pc = "namespace"
  /\ eg' = CASE how = "spawn" -> EgFail(eg)
             [] how \in {"exited", "deadline"} -> EgFail([eg EXCEPT !.holder = "gone"])
             [] how = "unread" -> EgFail([eg EXCEPT !.holder = "up", !.pipes = FALSE])
             [] OTHER -> EgGo([eg EXCEPT !.holder = "up", !.pipes = TRUE])
  /\ UNCHANGED <<conns, fx>>

\* attach_uplink: the ready byte within its time, or the child is killed.
EgAttach(ready) ==
  /\ eg.pc = "uplink"
  /\ eg' = IF ready THEN EgGo([eg EXCEPT !.slirp = "up"]) ELSE EgFail([eg EXCEPT !.slirp = "gone"])
  /\ UNCHANGED <<conns, fx>>

\* verify_listing looks for every rule, two accepts, no accepting policy and
\* one table.
VerifyListing == {"rule_missing", "surplus_accept", "policy_accept", "second_table"}

EgListing(fails) ==
  /\ eg.pc = "listing"
  /\ eg' = IF fails \/ eg.flaw \in VerifyListing THEN EgFail(eg) ELSE EgGo(eg)
  /\ UNCHANGED <<conns, fx>>

\* What curl and the counter of the rule can show of one destination: it
\* answers, or it does not and the counter may have moved.
CurlOutcomes(answers) ==
  IF answers THEN [code : {0}, late : {FALSE}, delta : {0, 1}]
  ELSE [code : {7, 28, 6}, late : {FALSE}, delta : {0, 1}] \cup [code : {28}, late : {TRUE}, delta : {0, 1}]

Contained(out) ==
  CASE out.late -> "Unknown"
    [] out.code = 0 -> "Reached"
    [] out.code = 7 /\ out.delta >= 1 -> "Refused"
    [] out.code = 28 /\ out.delta >= 1 -> "Unreachable"
    [] OTHER -> "Unknown"

EvaluateRefusal(out) ==
  [outcome |-> IF ~out.late /\ out.code \in {7, 28} /\ out.delta >= 1 THEN "Pass" ELSE "Fail",
   containment |-> Contained(out)]

\* One more ProbeRecord; of the containment verdicts that evidence() keeps
\* the model remembers whether admission would take them all.
ProbeNow == RunProbes[eg.probed + 1]
Evidence(v) == v.containment \in {"None", "Refused", "Unreachable"}
EgJudged(v) ==
  LET e == [eg EXCEPT !.probed = @ + 1, !.asked = FALSE, !.outcomes = @ \cup {v.outcome},
                      !.evidence = @ /\ Evidence(v)]
  IN  IF e.probed = Len(RunProbes) THEN EgGo([e EXCEPT !.log = [t \in ProbedTargets |-> Unlogged]]) ELSE e

EgRefusalProbe(out) ==
  /\ eg.pc = "probes" /\ ProbeNow \in Destinations
  /\ out \in CurlOutcomes(eg.flaw = ProbeNow)
  /\ eg' = EgJudged(EvaluateRefusal(out))
  /\ UNCHANGED <<conns, fx>>

\* curl through the proxy, and later the log's last word on that target.
ProbeRequest(name) ==
  CASE name = "proxy-reachable" -> "method" [] name = "proxy-disallowed" -> "other_host" [] OTHER -> "admitted"
EgProxyAsk ==
  /\ eg.pc = "probes" /\ ProbeNow \in ProxyProbes /\ ~eg.asked
  /\ eg' = LET req == ProbeRequest(ProbeNow)
               e == [eg EXCEPT !.asked = TRUE]
           IN  IF eg.flaw = "proxy_unreachable" THEN e ELSE Record(e, req, Refusal(eg.mode, req))
  /\ UNCHANGED <<conns, fx>>

EvaluateProxy(name, logged) ==
  LET want == Refusal(eg.mode, ProbeRequest(name))
  IN  [outcome |-> IF logged.decision = want.decision /\ logged.reason = want.reason /\ eg.flaw # "proxy_unreachable"
                   THEN "Pass" ELSE "Fail",
       containment |-> "None"]

EgProxyProbe ==
  /\ eg.pc = "probes" /\ ProbeNow \in ProxyProbes /\ eg.asked
  /\ eg' = EgJudged(EvaluateProxy(ProbeNow, eg.log[LogTarget(ProbeRequest(ProbeNow))]))
  /\ UNCHANGED <<conns, fx>>

\* run_captured cannot start curl or nft, or the counters cannot be read.
EgProbeBreaks ==
  /\ eg.pc = "probes"
  /\ eg' = EgFail(eg)
  /\ UNCHANGED <<conns, fx>>

AllProbesPassed == "Fail" \notin eg.outcomes
RequireAllPass == eg.outcomes # {} /\ AllProbesPassed

EgRequire ==
  /\ eg.pc = "require"
  /\ eg' = IF RequireAllPass THEN EgGo(eg) ELSE EgFail(eg)
  /\ UNCHANGED <<conns, fx>>

EgWriteReceipt(fails) ==
  /\ eg.pc = "write"
  /\ eg' = IF fails THEN EgFail(eg) ELSE EgGo([eg EXCEPT !.receipt = TRUE])
  /\ UNCHANGED <<conns, fx>>

EgArm ==
  /\ eg.pc = "arm"
  /\ eg' = EgGo([eg EXCEPT !.armed = TRUE])
  /\ UNCHANGED <<conns, fx>>

-----------------------------------------------------------------------------
(* Using it and taking it down. *)

\* command joins the sandbox's process group; filesystem_command leads a
\* group of its own, for its supervisor to kill.
EgCommand(group) ==
  /\ eg.pc = "prepared" /\ eg.child = "none"
  /\ eg' = [eg EXCEPT !.child = group]
  /\ UNCHANGED <<conns, fx>>

EgDrop ==
  /\ eg.pc = "prepared"
  /\ eg' = [eg EXCEPT !.pc = "drop", !.ended = "dropped"]
  /\ UNCHANGED <<conns, fx>>

\* teardown: the pipes are closed and the group told to stop; each of the
\* two may go by itself before the grace is over.
EgTerm ==
  /\ eg.pc = "drop"
  /\ eg' = [eg EXCEPT !.pc = IF eg.pipes THEN "grace" ELSE "shutdown", !.pipes = FALSE]
  /\ UNCHANGED <<conns, fx>>

EgGoes(who) ==
  /\ ~eg.pipes /\ eg[who] = "up"
  /\ eg.ended # "no"
  /\ eg' = [eg EXCEPT ![who] = "gone"]
  /\ UNCHANGED <<conns, fx>>

EgKill ==
  /\ eg.pc = "grace"
  /\ eg' = [eg EXCEPT !.pc = "shutdown", !.holder = "gone",
                      !.slirp = IF @ = "up" THEN "gone" ELSE @,
                      !.child = IF @ = "grouped" THEN "gone" ELSE @]
  /\ UNCHANGED <<conns, fx>>

\* Proxy::shutdown raises the flag, wakes the acceptor and joins it.
EgShutdown ==
  /\ eg.pc = "shutdown"
  /\ eg' = [eg EXCEPT !.stop = TRUE, !.pc = IF eg.acceptor = "up" THEN "join" ELSE "over"]
  /\ UNCHANGED <<conns, fx>>

EgJoin ==
  /\ eg.pc = "join"
  /\ eg' = [eg EXCEPT !.acceptor = "stopped", !.pc = "over"]
  /\ UNCHANGED <<conns, fx>>

SandboxInit ==
  /\ \E mode \in {"Strict", "Extended"},
        flaw \in {"none", "proxy_unreachable"} \cup ListingFlaws \cup Destinations :
       /\ mode = "Extended" => flaw = "none"
       /\ eg = NewSandbox(mode, flaw)
  /\ conns = [c \in EgConns |-> NewConn]

EgPrepare ==
  \/ \E b \in BOOLEAN : EgPlainStep(b) \/ EgProxyStart(b) \/ EgAttach(b) \/ EgListing(b) \/ EgWriteReceipt(b)
  \/ \E how \in {"spawn", "exited", "deadline", "unread", "ready"} : EgCreate(how)
  \/ \E out \in CurlOutcomes(TRUE) \cup CurlOutcomes(FALSE) : EgRefusalProbe(out)
  \/ EgProxyAsk \/ EgProxyProbe \/ EgProbeBreaks \/ EgRequire \/ EgArm

EgTeardown == EgTerm \/ EgKill \/ EgShutdown \/ EgJoin

EgConnection(c) ==
  \/ \E from \in {"inside", "outside"} : EgAccept(c, from)
  \/ \E req \in Requests : EgServe(c, req)
  \/ EgAcquire(c) \/ EgOverLimit(c) \/ EgRelayEnds(c)
  \/ \E fails \in {"no", "upstream", "client"} : EgDial(c, fails)

SandboxNext ==
  \/ EgPrepare \/ EgDrop \/ EgTeardown
  \/ \E group \in {"grouped", "fresh"} : EgCommand(group)
  \/ \E who \in {"holder", "slirp"} : EgGoes(who)
  \/ \E c \in EgConns : EgConnection(c)

\* The steps that come by themselves: whoever prepares goes on, the threads
\* run, and what has lost its pipe or its peer ends.  A tunnel of the host's
\* own may stay busy for ever.
EgThread(c) ==
  \/ \E req \in Requests : EgServe(c, req)
  \/ EgAcquire(c) \/ EgOverLimit(c)
  \/ \E fails \in {"no", "upstream", "client"} : EgDial(c, fails)
EgUnplugged(c) == eg.slirp # "up" /\ conns[c].from = "inside" /\ EgRelayEnds(c)

-----------------------------------------------------------------------------
(* The filesystem profile. *)

FxFiles == <<"bubblewrap", "provider", "schema", "ca", "runtime">>
FxDirectories == {"clone", "scratch", "home"}
\* prepare opens in this order and revalidates in the other.
FxOpenOrder == <<"clone", "scratch", "bubblewrap", "provider", "schema", "ca", "home", "runtime">>
FxCheckOrder == <<"bubblewrap", "provider", "clone", "schema", "ca", "home", "runtime", "scratch">>
FxObjects == {FxOpenOrder[i] : i \in 1 .. Len(FxOpenOrder)}

ValidateDestinations == {"destination_outside", "destination_overlap"}
ProfileFlaws == {"credential", "too_many_files", "clone_overlap", "provider_bound", "home_overlap", "private_source"}
ValidateCanonical == {"alias"}
ValidateParentCustody == {"parent_mutable"}
ValidateOwnerParentCustody == {"parent_mutable"}
ForbiddenDirectory == {"broad"}
FileShape == {"digest_form", "not_ordinary", "size"} \cup ValidateCanonical
OwnerFlaws(o) == {"owner", "mode"} \cup IF o = "schema" THEN ValidateOwnerParentCustody ELSE ValidateParentCustody
DirectoryShape == {"not_private"} \cup ForbiddenDirectory \cup ValidateCanonical
FxFlaws ==
  [at : {"profile"}, kind : ValidateDestinations \cup ProfileFlaws]
    \cup [at : {"bubblewrap", "provider", "schema", "ca", "runtime"},
          kind : {"digest_form", "not_ordinary", "size", "alias", "owner", "mode", "parent_mutable", "digest"}]
    \cup [at : FxDirectories, kind : {"alias", "broad", "not_private"}]
NoFlaw == [at |-> "none", kind |-> "none"]

NewProfile(flaw) ==
  [pc |-> "profile", flaw |-> flaw, n |-> 1, seen |-> 0, named |-> [o \in FxObjects |-> 0],
   held |-> [o \in FxObjects |-> 9], rewritten |-> {}, late |-> {}, changes |-> 0, net |-> FALSE]

FxDeny == fx' = [fx EXCEPT !.pc = "denied"]
FxAt(order) == order[fx.n]

\* The profile's own grammar; nothing is handed out before all of it held.
FxProfile ==
  /\ fx.pc = "profile"
  /\ IF fx.flaw.at = "profile" /\ fx.flaw.kind \in ValidateDestinations \cup ProfileFlaws
     THEN FxDeny ELSE fx' = [fx EXCEPT !.pc = "stat"]
  /\ UNCHANGED <<eg, conns>>

\* open_file and open_private_directory look at the name first...
FxShape(o) == IF o \in FxDirectories THEN DirectoryShape ELSE FileShape \cup OwnerFlaws(o)
FxStat ==
  /\ fx.pc = "stat"
  /\ LET o == FxAt(FxOpenOrder)
     IN  IF fx.flaw.at = o /\ fx.flaw.kind \in FxShape(o) THEN FxDeny
         ELSE fx' = [fx EXCEPT !.pc = "open", !.seen = fx.named[o]]
  /\ UNCHANGED <<eg, conns>>

\* ... then open it, compare what was opened with what was named, and for a
\* file digest the retained descriptor.
SameIdentity(o) == fx.named[o] = fx.seen
FxDigest(o) == o \in FxDirectories \/ (fx.named[o] = 0 /\ o \notin fx.rewritten /\ fx.flaw # [at |-> o, kind |-> "digest"])
FxOpen ==
  /\ fx.pc = "open"
  /\ LET o == FxAt(FxOpenOrder)
     IN  IF ~SameIdentity(o) \/ ~FxDigest(o) THEN FxDeny
         ELSE fx' = [fx EXCEPT !.held[o] = fx.named[o],
                               !.pc = IF fx.n = Len(FxOpenOrder) THEN "prepared" ELSE "stat",
                               !.n = IF fx.n = Len(FxOpenOrder) THEN 1 ELSE @ + 1]
  /\ UNCHANGED <<eg, conns>>

\* command_plan and filesystem_command: every object once more, by name and
\* by descriptor, then a plan that mounts the descriptors.
FxPlanBegins(net) ==
  /\ fx.pc = "prepared"
  /\ fx' = [fx EXCEPT !.pc = "check", !.net = net]
  /\ UNCHANGED <<eg, conns>>

\* revalidate: identity of the name and of the descriptor, and the digest.
Revalidates(o) == fx.named[o] = fx.held[o] /\ o \notin fx.rewritten

FxCheck ==
  /\ fx.pc = "check"
  /\ LET o == FxAt(FxCheckOrder)
     IN  IF ~Revalidates(o) THEN fx' = [fx EXCEPT !.pc = "changed"]
         ELSE fx' = [fx EXCEPT !.n = @ + 1, !.pc = IF fx.n = Len(FxCheckOrder) THEN "planned" ELSE @]
  /\ UNCHANGED <<eg, conns>>

\* Whoever else is on the host: another object under the name, the first one
\* back, or the same object with other contents.
FxReplace(o) ==
  /\ fx.pc \in {"stat", "open", "prepared", "check"} /\ fx.changes < FxChanges
  /\ \E v \in {0, 1} \ {fx.named[o]} :
       fx' = [fx EXCEPT !.named[o] = v, !.changes = @ + 1]
  /\ UNCHANGED <<eg, conns>>

FxRewrite(o) ==
  /\ fx.pc \in {"stat", "open", "prepared", "check"} /\ fx.changes < FxChanges
  /\ o \notin FxDirectories /\ fx.named[o] = 0 /\ o \notin fx.rewritten
  /\ LET checked == fx.pc = "check" /\ \E i \in 1 .. fx.n - 1 : FxCheckOrder[i] = o
     IN  fx' = [fx EXCEPT !.rewritten = @ \cup {o}, !.changes = @ + 1,
                          !.late = IF checked THEN @ \cup {o} ELSE @]
  /\ UNCHANGED <<eg, conns>>

FilesystemInit == \E flaw \in {NoFlaw} \cup FxFlaws : fx = NewProfile(flaw)
FilesystemNext ==
  \/ FxProfile \/ FxStat \/ FxOpen \/ FxCheck
  \/ \E net \in BOOLEAN : FxPlanBegins(net)
  \/ \E o \in FxObjects : FxReplace(o) \/ FxRewrite(o)

-----------------------------------------------------------------------------
(* Properties. *)

\* A sandbox is handed out, and its proxy armed, only when the kernel's
\* listing was the ruleset, every probe passed and the receipt was on disk;
\* the evidence it carries then holds no verdict admission would refuse.
\* Nobody dials before, and never for a target the policy does not admit.
BoundaryIsProven ==
  /\ eg.armed => /\ eg.flaw = "none" /\ eg.receipt
                 /\ eg.probed = Len(RunProbes) /\ eg.outcomes = {"Pass"}
                 /\ eg.evidence
  /\ eg.child # "none" => eg.armed
  /\ \A c \in Holders : eg.armed /\ conns[c].req \in {"admitted"} \cup IF eg.mode = "Extended" THEN {"login"} ELSE {}

\* The counter of open tunnels counts the threads between fetch_add and
\* fetch_sub, and no more than the limit ever hold a tunnel.
TunnelsAreBounded ==
  /\ Cardinality(Holders) <= EgTunnels
  /\ eg.tunnels = Cardinality(Holders \cup EgAdmitted("over"))

\* Once the drop is over the uplink, the acceptor and every process of the
\* sandbox's group are gone.
DropLeavesNothing ==
  eg.pc = "over" => eg.slirp # "up" /\ eg.acceptor # "up" /\ eg.child # "grouped"

\* A plan mounts descriptors of the objects that were named when they were
\* opened, with the admitted contents when they were last looked at.
PlanIsPinned ==
  /\ fx.pc = "planned" =>
       /\ fx.flaw = NoFlaw
       /\ \A o \in FxObjects : fx.held[o] = 0 \/ (o \in FxDirectories /\ fx.held[o] = 1)
       /\ fx.rewritten = fx.late

EgressIsProven == BoundaryIsProven /\ TunnelsAreBounded /\ DropLeavesNothing /\ PlanIsPinned

\* "on error nothing is left running" (sandbox.rs), and after a drop: the
\* processes go, the acceptor stops, and no tunnel from inside stays open.
EgressIsDown ==
  /\ eg.pc = "over" /\ eg.holder # "up" /\ eg.slirp # "up"
  /\ \A c \in EgConns : conns[c].from = "inside" => conns[c].pc \in {"idle", "closed"}
=============================================================================
