--------------------------- MODULE MCCommandWorker ---------------------------
(***************************************************************************)
(* Two workers, a demo run and a coding run.                               *)
(***************************************************************************)
EXTENDS CommandWorker, TLC

CONSTANTS demo, code

MCOneUnits == code :> 1
MCOneReservation == code :> "r1"
MCOneNonce == code :> "n1"
MCOneExpected == code :> 1
=============================================================================
