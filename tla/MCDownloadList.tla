---------------------------- MODULE MCDownloadList ----------------------------
\* Two downloads of one queue, of which one waits for it; the two are alike.
EXTENDS DownloadList, TLC

CONSTANTS a, b, q

InOneQueue == (a :> q @@ b :> q)
OneAtATime == (q :> 1)
Symmetry == Permutations({a, b})

MCInit == Init /\ \E i \in Item : list[i] = "Queued"
MCSpec == MCInit /\ [][Next]_vars
=============================================================================
