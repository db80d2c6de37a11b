---------------------------- MODULE FencedWriter ----------------------------
(***************************************************************************)
(* What the lease ledger promises, without clocks, queues, runners or      *)
(* packages: a variant has at most one holder, an incarnation is granted   *)
(* authority once, and the fence of a grant is larger than every fence     *)
(* granted before it for that variant.                                     *)
(***************************************************************************)
EXTENDS Naturals

CONSTANTS Variants, Attempts, None

VARIABLES
  holder,   \* the incarnation that holds each variant, or None
  granted,  \* variant and fence of each incarnation ever granted, or None
  top       \* the largest fence granted for each variant

wvars == <<holder, granted, top>>

FWInit ==
  /\ holder = [v \in Variants |-> None]
  /\ granted = [a \in Attempts |-> None]
  /\ top = [v \in Variants |-> 0]

\* Authority over v passes to the new incarnation a; the one that held it,
\* if any, has lost it.
Grant(v, a) ==
  /\ granted[a] = None
  /\ top' = [top EXCEPT ![v] = @ + 1]
  /\ granted' = [granted EXCEPT ![a] = <<v, top[v] + 1>>]
  /\ holder' = [holder EXCEPT ![v] = a]

\* The holders of V lose authority: one releases, or a sweep takes several.
End(V) ==
  /\ holder' = [v \in Variants |-> IF v \in V THEN None ELSE holder[v]]
  /\ UNCHANGED <<granted, top>>

FWNext ==
  \/ \E v \in Variants, a \in Attempts : Grant(v, a)
  \/ \E V \in SUBSET Variants : End(V)

FWSpec == FWInit /\ [][FWNext]_wvars
=============================================================================
