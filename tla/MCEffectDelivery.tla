-------------------------- MODULE MCEffectDelivery --------------------------
(***************************************************************************)
(* What crosses the edges of the system, for TLC: EffectDelivery with the   *)
(* author beside one successor, and, once the author's process has stopped, *)
(* two successors; the egress sandbox a provider child runs in; the lease   *)
(* socket between runners and farmd, with two runners crowding one farmd    *)
(* ("crowd") and with one call while farmd is replaced ("restarts").  Each  *)
(* part is explored on its own: part selects it in the initial state.       *)
(***************************************************************************)
EXTENDS EffectDelivery, Egress, LeaseSessions

CONSTANT Parts

VARIABLE part

mcVars == <<vars, egressVars, sessionVars, part>>

MCInit ==
  /\ part \in Parts
  /\ Init /\ SandboxInit /\ FilesystemInit /\ SessionsInit
  /\ part # "egress" => eg = NewSandbox("Strict", "none")
  /\ part # "filesystem" => fx = NewProfile(NoFlaw)

AuthorStopped == fence' > 2 => author'.pc = "idle"

\* One farmd, set up and taken down while no runner calls.
Crowd ==
  /\ lsServer'[2] = "down"
  /\ <<lsFiles, lsPath, lsServer>>' # <<lsFiles, lsPath, lsServer>> =>
       \A c \in LsClients : Calling(c, "rest")

\* One runner, which sends what farmd expects, while a second farmd takes over
\* from the first.
OneCall ==
  /\ lsClient'["c2"].at = "rest" /\ lsConn'[2].srv # 1
  /\ \A k \in Conns : lsConn'[k].in \in {"", "c1", "command"}

MCNext ==
  /\ UNCHANGED part
  /\ \/ part = "delivery" /\ Next /\ AuthorStopped /\ UNCHANGED <<egressVars, sessionVars>>
     \/ part = "egress" /\ SandboxNext /\ UNCHANGED <<vars, sessionVars>>
     \/ part = "filesystem" /\ FilesystemNext /\ UNCHANGED <<vars, sessionVars>>
     \/ part = "crowd" /\ SessionsNext /\ Crowd /\ UNCHANGED <<vars, egressVars>>
     \/ part = "restarts" /\ SessionsNext /\ OneCall /\ UNCHANGED <<vars, egressVars>>

SandboxFairness ==
  /\ WF_egressVars(part = "egress" /\ EgPrepare)
  /\ WF_egressVars(part = "egress" /\ EgTeardown)
  /\ \A who \in {"holder", "slirp"} : WF_egressVars(part = "egress" /\ EgGoes(who))
  /\ \A c \in EgConns : /\ WF_egressVars(part = "egress" /\ EgThread(c))
                        /\ WF_egressVars(part = "egress" /\ EgUnplugged(c))

\* Sessions are tasks of farmd's runtime, calls tasks of the runner's; farmd
\* runs from the bind to its accept loop without waiting for anything.
SessionFairness ==
  /\ \A s \in Incarnations :
       WF_sessionVars(part \in {"crowd", "restarts"} /\ LsAdmitOwnSocket(s))
  /\ \A k \in Conns : WF_sessionVars(part \in {"crowd", "restarts"} /\ SessionStep(k))
  /\ \A c \in LsClients : WF_sessionVars(part \in {"crowd", "restarts"} /\ ClientCall(c))

MCSpec == MCInit /\ [][MCNext]_mcVars /\ Fairness /\ SandboxFairness /\ SessionFairness

\* The types of every part.
EdgeTypesOK == TypeOK /\ SessionsTypeOK

\* What passes an edge was admitted there: a provider's egress
\* (EgressIsProven) and a runner's request (SessionsAreHonest).
EdgeIsGuarded == EgressIsProven /\ SessionsAreHonest

\* Recovery ends: under the premises of EffectDelivery the effect does not stay
\* unresolved; and a sandbox whose owner has ended it comes down, with its
\* processes, its acceptor and every tunnel from inside (sandbox.rs: "on error
\* nothing is left running").  Every call over the lease socket returns and
\* every session ends, by its deadlines if not before, so that its slot comes
\* free.
RecoveryEnds ==
  /\ [](part = "delivery" => AuthorGone)
  /\ <>[](part = "delivery" => Serving)
  /\ <>[][~(part = "delivery" /\ NewestCrashes)]_mcVars
  => /\ <>[](/\ part = "delivery" => Settled
             /\ part = "egress" /\ eg.ended # "no" => EgressIsDown
             /\ SessionsAreOver)
     /\ \A c \in LsClients : []<>Calling(c, "rest")
=============================================================================
