-------------------------- MODULE MCHttpLifecycle --------------------------
(***************************************************************************)
(* The instance of HttpLifecycle for TLC: two calls, of which the first is *)
(* a Pause or a plain Cancel and the second a Cancel that deletes, in any  *)
(* order.  The theorems are about any number of calls of any kind.         *)
(***************************************************************************)
EXTENDS HttpLifecycle
CONSTANTS p1, p2

TwoCalls ==
  /\ caller'[p1].op # "delete"
  /\ caller'[p2].op \in {"none", "delete"}

MCSpec == Init /\ [][Next /\ TwoCalls]_vars /\ Fairness
=============================================================================
