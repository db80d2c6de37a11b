-------------------------- MODULE CommandLifecycle --------------------------
(***************************************************************************)
(* What the Kernel promises about one public command, whatever the number  *)
(* of runners, crashes, lost answers and authority moves: it is handed to  *)
(* at most one runner incarnation, ever; it gets at most one outcome; and  *)
(* an outcome, like an abandonment, is final.  CommandDispatch implements  *)
(* this specification.                                                     *)
(***************************************************************************)
CONSTANTS Commands, Owners, None

VARIABLES state, owner

Stages == {"absent", "queued", "held", "abandoned", "resolved"}

LifecycleInit ==
    /\ state = [c \in Commands |-> "absent"]
    /\ owner = [c \in Commands |-> None]

\* The command is recorded.
Record(c) ==
    /\ state[c] = "absent"
    /\ state' = [state EXCEPT ![c] = "queued"]
    /\ UNCHANGED owner

\* The command is handed to one runner incarnation.
Hand(c, o) ==
    /\ state[c] = "queued"
    /\ state' = [state EXCEPT ![c] = "held"]
    /\ owner' = [owner EXCEPT ![c] = o]

\* The command gets its only outcome: refused or reconciled before any runner
\* executed it, or settled by the incarnation that holds it.
Resolve(c) ==
    /\ state[c] \in {"queued", "held"}
    /\ state' = [state EXCEPT ![c] = "resolved"]
    /\ UNCHANGED owner

\* Authority moved: every command in hand is abandoned at once.
Abandon ==
    /\ \E c \in Commands : state[c] = "held"
    /\ state' = [c \in Commands |->
                    IF state[c] = "held" THEN "abandoned" ELSE state[c]]
    /\ UNCHANGED owner

LifecycleNext ==
    \/ \E c \in Commands :
          \/ Record(c)
          \/ Resolve(c)
          \/ \E o \in Owners : Hand(c, o)
    \/ Abandon

lifecycleVars == <<state, owner>>

LifecycleSpec == LifecycleInit /\ [][LifecycleNext]_lifecycleVars
=============================================================================
