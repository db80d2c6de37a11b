------------------------- MODULE MCCommandDispatch -------------------------
(***************************************************************************)
(* CommandDispatch, OperatorSessions and OperatorHistory for TLC, each     *)
(* explored by itself: they meet only in the event log and the command     *)
(* table, of which each reads its own part.                                *)
(*                                                                         *)
(* Dispatch: a demo run, a command of a kind nobody executes, two coding   *)
(* runs that the quota does not hold together, and one submitted as a      *)
(* task, which names the launch nonce of the first and fits beside the     *)
(* second.  History: two tasks, one of which needs the other.              *)
(***************************************************************************)
EXTENDS CommandDispatch, OperatorSessions, OperatorHistory, TLC

CONSTANTS demo, odd, code1, code2, task

VARIABLE part

MCUnits == code1 :> 2 @@ code2 :> 1 @@ task :> 1
MCReservation == code1 :> "r1" @@ code2 :> "r2" @@ task :> "r3"
MCNonce == code1 :> "n1" @@ code2 :> "n2" @@ task :> "n1"
MCExpected == code1 :> 1 @@ code2 :> 2 @@ task :> 1

MCNeeds == "base" :> {} @@ "top" :> {"base"}
MCLimit == "base" :> 1 @@ "top" :> 2
MCDeadline == "base" :> 1 @@ "top" :> 2

MCInit ==
  /\ Init /\ SessionInit /\ HistoryInit
  /\ part \in {"dispatch", "sessions", "history"}

MCNext ==
  /\ \/ part = "dispatch" /\ Next /\ UNCHANGED <<sessionVars, historyVars>>
     \/ part = "sessions" /\ SessionNext /\ UNCHANGED <<tables, historyVars>>
     \/ part = "history" /\ HistoryNext /\ UNCHANGED <<tables, sessionVars>>
  /\ UNCHANGED part

MCSpec == MCInit /\ [][MCNext]_<<tables, sessionVars, historyVars, part>>

\* Rows, sessions and readers have the types their tables give them.
OperatorTypesOK == TypeOK /\ SessionTypeOK /\ HistoryTypeOK
=============================================================================
