---------------------------- MODULE MCQueueManager ----------------------------
(***************************************************************************)
(* Two items and one or two queues, of which Main alone has a start time.  *)
(***************************************************************************)
EXTENDS QueueManager
CONSTANTS main, x, Work, a, b

MCInit ==
  /\ Init
  /\ order = <<a, b>> /\ queueOf[a] = MainName /\ status[a] = "Queued"
  /\ Len(queues) = 2 => queues[2].start = Never
  /\ \A k \in DOMAIN queues : queues[k].today /\ 0 \notin {queues[k].start, queues[k].stop}
MCSpec == MCInit /\ [][Next]_vars /\ Fairness
=============================================================================
