--------------------------- MODULE MCHttpTransfer ---------------------------
(***************************************************************************)
(* Instances of HttpTransfer for TLC.  The workers are interchangeable:    *)
(* no definition chooses among them, so the safety runs reduce the state   *)
(* space by their permutations; the liveness runs do not.                  *)
(***************************************************************************)
EXTENDS HttpTransfer, TLC

KnownOrNot == {FileLen, -1}

Symmetry == Permutations(Worker)
=============================================================================
