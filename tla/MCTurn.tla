------------------------------- MODULE MCTurn -------------------------------
(***************************************************************************)
(* For TLC, what a runner's turn touches on its two sides: the signed      *)
(* lease service (LeaseTransport), its permits (LeasePermits) and the      *)
(* synthetic selection that drives it, and the provider's transcripts      *)
(* (ProviderTranscript) and the Claude turn and session (ClaudeTurn), and  *)
(* the proof of what came of it (ProofChain).  None reads another's        *)
(* variables, so each is explored by itself.                               *)
(***************************************************************************)
EXTENDS LeaseTransport, LeasePermits, SyntheticSelection,
        ProviderTranscript, ClaudeTurn, ProofChain, TLC

CONSTANT Parts

VARIABLE part

mcVars == <<vars, permitVars, selVars, tr, claudeVars, pfVars, part>>

CONSTANTS k1, k2, r1, r2

\* Two runners contend for the variant.
Rivals == (k1 :> r1) @@ (k2 :> r2)

\* One runner tries, and tries again under a new key.
OneRunner == (k1 :> r1) @@ (k2 :> r1)

\* The advances run_attempt makes.
RunnerAdvances == {"Running", "Preparing"}

\* An advance cycle the state machine allows.
PauseAdvances == {"Running", "Paused"}

\* The runner's two keys are alike.
KeySymmetry == Permutations({k1, k2})

\* Every fault point of fault.rs.
AllFaults ==
  {<<l, "after_acquire">> : l \in Lanes} \cup {<<k, "after_receipt">> : k \in Receipts}
    \cup {<<"run", "before_selection">>, <<"run", "before_receipt">>,
          <<"run", "before_effect_receipt">>}
    \cup {<<"before", w>> : w \in DOMAIN Work}

\* Candidates alike, and told apart by each of tree, patch and head alone.
SomeContents == {<<1, 1, 1>>, <<2, 1, 1>>, <<1, 2, 1>>, <<1, 1, 2>>}

\* A selection meets a fault, or foreign receipts, not both.
MCInit ==
  /\ Init /\ PermitsInit /\ SelectionInit /\ part \in Parts
  /\ selForeign # {} => part = "selection"
  /\ selFault # <<"none">> => part = "selection" /\ selForeign = {}
  /\ TranscriptInit
  /\ part # "transcript" => tr = NewTranscript("agy", FALSE)
  /\ ClaudeInit
  /\ part # "turn" => cl = NewTurn("v1")
  /\ IF part = "proof" THEN ProofInit ELSE ProofIdle

MCNext ==
  /\ \/ part = "transport" /\ Next /\ UNCHANGED <<permitVars, selVars, tr, claudeVars, pfVars>>
     \/ part = "permits" /\ PermitsNext /\ UNCHANGED <<vars, selVars, tr, claudeVars, pfVars>>
     \/ part = "selection" /\ SelectionNext /\ UNCHANGED <<vars, permitVars, tr, claudeVars, pfVars>>
     \/ part = "transcript" /\ TranscriptNext /\ UNCHANGED <<vars, permitVars, selVars, claudeVars, pfVars>>
     \/ part = "turn" /\ TurnNext /\ UNCHANGED <<vars, permitVars, selVars, tr, cs, pfVars>>
     \/ part = "session" /\ SessionNext /\ UNCHANGED <<vars, permitVars, selVars, tr, cl, pfVars>>
     \/ part = "proof" /\ ProofNext /\ UNCHANGED <<vars, permitVars, selVars, tr, claudeVars>>
  /\ UNCHANGED part

MCSpec == MCInit /\ [][MCNext]_mcVars

\* The types of the transport, of its permits and of the proof chain.
TransportTypesOK == TypeOK /\ PermitsTypeOK /\ ProofTypesOK

\* What a runner is told of its lease is so (AnswersAreTrue), and nothing is
\* done for it but by a permit spent once, in time and on the attempt it names
\* (PermitsAreBound).
TransportIsTruthful == AnswersAreTrue /\ PermitsAreBound

\* A selection's receipts tell what happened (SelectionIsTruthful), and are
\* read back only as the proof of one Candidate, verified and delivered: see
\* ClosureIsEarned, NoStrayVerifier, EvidenceIsCurrent and ReceiptIsOfOneRun.
SelectionIsProven == SelectionIsTruthful /\ ProofHolds

\* Nothing is read from a provider's turn that its transcript did not prove,
\* and a session never spends or lives beyond what it was given: see
\* TranscriptIsSound, TranscriptIsFinal, ClaudeTurnIsSound, SessionIsBounded
\* and SessionIsFinal.
ProviderTurnIsProven ==
  [][/\ tr' # tr => TranscriptHolds
     /\ claudeVars' # claudeVars => ClaudeHolds]_<<tr, claudeVars>>
=============================================================================
