------------------------- MODULE HttpLifecycleProofs -------------------------
(***************************************************************************)
(* Theorems about HttpLifecycle, for any number of chunks, workers, calls, *)
(* attempts, retries and faults.                                           *)
(***************************************************************************)
EXTENDS HttpLifecycle, TLAPS

\* A pause between two attempts of the pre-check is followed by an attempt that the
\* setting allows.
AttemptLeft == starter.pc = "backoff" => starter.attempt < MaxAttempts

TypeInv == TypeOK /\ AttemptLeft

\* Every reachable state of a task has its type: in particular no chunk is retried
\* more often than OrchestratorLoop allows, and a worker never loses its chunk.
THEOREM LifecycleTypeCorrect == Spec => []TypeOK
<1>1. Init => TypeInv
  <2> SUFFICES ASSUME Init PROVE TypeInv
    OBVIOUS
  <2>1. starter \in [pc : {"probe"}, attempt : 1 .. MaxAttempts]
    BY LifecycleAssumption DEF Init
  <2>2. worker \in [Worker -> [pc : {"idle"}, c : {NoChunk}]]
    BY DEF Init
  <2>3. chunk \in [Chunk -> [st : {"Pending"}, retry : 0 .. MaxRetries]]
    BY LifecycleAssumption DEF Init
  <2>4. orch \in [pc : {"off"}, todo : SUBSET Chunk]
    BY DEF Init
  <2>5. caller \in [Caller -> [pc : {"idle"}, op : {"none"}]]
    BY DEF Init
  <2>6. /\ ctxDone \in BOOLEAN /\ laid \in BOOLEAN
        /\ temp \in BOOLEAN /\ dest \in BOOLEAN /\ meta \in BOOLEAN
    BY Zenon DEF Init
  <2>7. /\ status = "Pending" /\ emitter = "off" /\ handle = "nil" /\ faults \in 0 .. MaxFaults
    BY LifecycleAssumption DEF Init
  <2>8. AttemptLeft
    BY <2>1 DEF AttemptLeft
  <2> QED
    BY <2>1, <2>2, <2>3, <2>4, <2>5, <2>6, <2>7, <2>8 DEF TypeInv, TypeOK, Stopped, Operation
<1>2. TypeInv /\ [Next]_vars => TypeInv'
  <2> SUFFICES ASSUME TypeInv, [Next]_vars
               PROVE  TypeInv'
    OBVIOUS
  <2> USE LifecycleAssumption DEF TypeInv, TypeOK, AttemptLeft, Stopped, Operation, files
  <2>1. CASE ProbeOk
    BY <2>1 DEF ProbeOk, StarterAt
  <2>2. CASE Prepare
    BY <2>2 DEF Prepare, StarterAt
  <2>3. CASE PreCheckFails
    BY <2>3 DEF PreCheckFails, StarterAt
  <2>4. CASE Reconnect
    BY <2>4 DEF Reconnect, StarterAt
  <2>5. CASE Backoff
    BY <2>5 DEF Backoff, StarterAt
  <2>6. CASE CheckStopped
    BY <2>6 DEF CheckStopped, StarterAt
  <2>7. CASE Launch
    BY <2>7 DEF Launch, StarterAt
  <2>8. CASE SelectDone
    BY <2>8 DEF SelectDone, OrchAt
  <2>9. CASE ScanFinished
    BY <2>9 DEF ScanFinished, OrchAt
  <2>10. CASE ScanSpawn
    BY <2>10 DEF ScanSpawn, With, Retriable
  <2>11. CASE ScanFail
    BY <2>11 DEF ScanFail, OrchAt
  <2>12. CASE Fail
    BY <2>12 DEF Fail, OrchAt
  <2>13. CASE Quit
    BY <2>13 DEF Quit, OrchAt
  <2>14. CASE SpawnEnd
    BY <2>14 DEF SpawnEnd
  <2>15. CASE Verify
    <3>1. ctxDone' \in BOOLEAN
      BY <2>15, Zenon DEF Verify
    <3>2. /\ status' \in {"Pending", "Downloading", "Finished", "Error"} \cup Stopped
          /\ orch' \in [pc : {"rename", "done"}, todo : SUBSET Chunk]
          /\ handle' = "nil"
      BY <2>15 DEF Verify, OrchAt
    <3> QED
      BY <2>15, <3>1, <3>2 DEF Verify
  <2>16. CASE Rename
    <3>1. temp' \in BOOLEAN /\ dest' \in BOOLEAN
      BY <2>16, Zenon DEF Rename
    <3>2. orch' \in [pc : {"cleanup"}, todo : SUBSET Chunk]
      BY <2>16 DEF Rename, OrchAt
    <3> QED
      BY <2>16, <3>1, <3>2 DEF Rename
  <2>17. CASE RenameFails
    BY <2>17 DEF RenameFails, OrchAt
  <2>18. CASE CleanupCheckpoint
    <3>1. meta' \in BOOLEAN
      BY <2>18, Zenon DEF CleanupCheckpoint
    <3>2. orch' \in [pc : {"report"}, todo : SUBSET Chunk]
      BY <2>18 DEF CleanupCheckpoint, OrchAt
    <3> QED
      BY <2>18, <3>1, <3>2 DEF CleanupCheckpoint
  <2>19. CASE Report
    BY <2>19 DEF Report, OrchAt
  <2>20. CASE Tick
    BY <2>20 DEF Tick
  <2>21. CASE EmitterDone
    BY <2>21 DEF EmitterDone
  <2>22. CASE EmitterSave
    BY <2>22 DEF EmitterSave
  <2>23. ASSUME NEW w \in Worker, Spawn(w) PROVE TypeInv'
    BY <2>23 DEF Spawn
  <2>24. ASSUME NEW w \in Worker, Begin(w) PROVE TypeInv'
    BY <2>24 DEF Begin, WorkerAt
  <2>25. ASSUME NEW w \in Worker, Complete(w) PROVE TypeInv'
    BY <2>25 DEF Complete, WorkerAt
  <2>26. ASSUME NEW w \in Worker, Break(w) PROVE TypeInv'
    BY <2>26 DEF Break, WorkerAt
  <2>27. ASSUME NEW w \in Worker, Abandon(w) PROVE TypeInv'
    BY <2>27 DEF Abandon, WorkerAt
  <2>28. ASSUME NEW w \in Worker, Exit(w) PROVE TypeInv'
    BY <2>28 DEF Exit
  <2>29. ASSUME NEW p \in Caller, NEW op \in Operation, Call(p, op) PROVE TypeInv'
    BY <2>29 DEF Call
  <2>30. ASSUME NEW p \in Caller, CancelContext(p) PROVE TypeInv'
    BY <2>30 DEF CancelContext, CallerAt
  <2>31. ASSUME NEW p \in Caller, ChangeStatus(p) PROVE TypeInv'
    BY <2>31 DEF ChangeStatus, CallerAt
  <2>32. ASSUME NEW p \in Caller, WaitWorkers(p) PROVE TypeInv'
    BY <2>32 DEF WaitWorkers, CallerAt
  <2>33. ASSUME NEW p \in Caller, Close(p) PROVE TypeInv'
    BY <2>33 DEF Close, CallerAt
  <2>34. ASSUME NEW p \in Caller, Settle(p) PROVE TypeInv'
    <3>1. meta' \in BOOLEAN /\ temp' \in BOOLEAN
      BY <2>34, Zenon DEF Settle
    <3>2. caller' \in [Caller -> [pc : {"idle", "cancel", "status", "wait", "close", "files",
                                       "returned"},
                                 op : {"none"} \cup Operation]]
      BY <2>34 DEF Settle, CallerAt
    <3> QED
      BY <2>34, <3>1, <3>2 DEF Settle
  <2>35. CASE UNCHANGED vars
    BY <2>35 DEF vars
  <2> QED
    BY <2>1, <2>2, <2>3, <2>4, <2>5, <2>6, <2>7, <2>8, <2>9, <2>10, <2>11, <2>12, <2>13, <2>14, <2>15, <2>16, <2>17, <2>18, <2>19, <2>20, <2>21, <2>22, <2>23, <2>24, <2>25, <2>26, <2>27, <2>28, <2>29, <2>30, <2>31, <2>32, <2>33, <2>34, <2>35
    DEF Next, Start, Orchestrator, WorkerStep, Emitter, CallerStep
<1>3. TypeInv => TypeOK
  BY DEF TypeInv
<1> QED
  BY <1>1, <1>2, <1>3, PTL DEF Spec
-----------------------------------------------------------------------------
(***************************************************************************)
(* A stop is quiet.  A call that has gone past the cancellation of the     *)
(* context finds it cancelled for good; no request starts under a          *)
(* cancelled context, and the call has waited for the ones under way.      *)
(***************************************************************************)

Called ==
  \A p \in Caller : caller[p].pc \in {"status", "wait", "close", "files", "returned"} => ctxDone

\* The status says stopped only when the context is cancelled.
StoppedIsDone == status \in Stopped => ctxDone

StopInv == Called /\ StoppedIsDone /\ StoppedIsQuiet

\* Once the context of a stopped task is cancelled it stays so, and no worker fetches after
\* the wait (Pause, Cancel and runChunkWorker): StopInv is inductive.
LEMMA StopCorrect == Spec => []StopInv
<1>1. Init => StopInv
  BY DEF Init, Stopped, StopInv, Called, StoppedIsDone, StoppedIsQuiet
<1>2. TypeOK /\ StopInv /\ [Next]_vars => StopInv'
  <2> SUFFICES ASSUME TypeOK, StopInv, [Next]_vars
               PROVE  StopInv'
    OBVIOUS
  <2> USE DEF TypeOK, StopInv, Called, StoppedIsDone, StoppedIsQuiet, files, Stopped, Operation
  <2>1. CASE Reconnect
    BY <2>1 DEF Reconnect, StarterAt
  <2>2. CASE Launch
    BY <2>2 DEF Launch, StarterAt
  <2>3. CASE ScanSpawn
    BY <2>3 DEF ScanSpawn
  <2>4. CASE ScanFail
    BY <2>4 DEF ScanFail, OrchAt
  <2>5. CASE Quit
    BY <2>5 DEF Quit, OrchAt
  <2>6. CASE Verify
    BY <2>6 DEF Verify, OrchAt
  <2>7. CASE RenameFails
    BY <2>7 DEF RenameFails, OrchAt
  <2>8. CASE Report
    BY <2>8 DEF Report, OrchAt
  <2>9. ASSUME NEW w \in Worker, Spawn(w) PROVE StopInv'
    BY <2>9 DEF Spawn
  <2>10. ASSUME NEW w \in Worker, Begin(w) PROVE StopInv'
    BY <2>10 DEF Begin, WorkerAt
  <2>11. ASSUME NEW w \in Worker, Complete(w) PROVE StopInv'
    BY <2>11 DEF Complete, WorkerAt
  <2>12. ASSUME NEW w \in Worker, Break(w) PROVE StopInv'
    BY <2>12 DEF Break, WorkerAt
  <2>13. ASSUME NEW w \in Worker, Abandon(w) PROVE StopInv'
    BY <2>13 DEF Abandon, WorkerAt
  <2>14. ASSUME NEW w \in Worker, Exit(w) PROVE StopInv'
    BY <2>14 DEF Exit
  <2>15. ASSUME NEW p \in Caller, NEW op \in Operation, Call(p, op) PROVE StopInv'
    BY <2>15 DEF Call
  <2>16. ASSUME NEW p \in Caller, CancelContext(p) PROVE StopInv'
    BY <2>16 DEF CancelContext, CallerAt
  <2>17. ASSUME NEW p \in Caller, ChangeStatus(p) PROVE StopInv'
    BY <2>17 DEF ChangeStatus, CallerAt
  <2>18. ASSUME NEW p \in Caller, WaitWorkers(p) PROVE StopInv'
    BY <2>18 DEF WaitWorkers, CallerAt, WorkersDone, Running
  <2>19. ASSUME NEW p \in Caller, Close(p) PROVE StopInv'
    BY <2>19 DEF Close, CallerAt
  <2>20. ASSUME NEW p \in Caller, Settle(p) PROVE StopInv'
    BY <2>20 DEF Settle, CallerAt
  \* None of these touches the status, the context, a worker or a call.
  <2>21. CASE ProbeOk \/ Prepare \/ PreCheckFails \/ Backoff \/ CheckStopped \/
              SelectDone \/ ScanFinished \/ Fail \/ SpawnEnd \/ Rename \/
              CleanupCheckpoint \/ Tick \/ EmitterDone \/ EmitterSave
    BY <2>21 DEF ProbeOk, StarterAt, Prepare, PreCheckFails, Backoff, CheckStopped,
                 SelectDone, OrchAt, ScanFinished, Fail, SpawnEnd, Rename,
                 CleanupCheckpoint, Tick, EmitterDone, EmitterSave
  <2>22. CASE UNCHANGED vars
    BY <2>22 DEF vars
  <2> QED
    BY <2>1, <2>2, <2>3, <2>4, <2>5, <2>6, <2>7, <2>8, <2>9, <2>10, <2>11, <2>12, <2>13,
       <2>14, <2>15, <2>16, <2>17, <2>18, <2>19, <2>20, <2>21, <2>22
    DEF Next, Start, Orchestrator, WorkerStep, Emitter, CallerStep
<1> QED
  BY LifecycleTypeCorrect, <1>1, <1>2, PTL DEF Spec

\* Once Pause or Cancel has waited for the workers, nothing is written any more, although
\* the orchestrator may still spawn workers.
THEOREM StopIsQuiet == Spec => []StoppedIsQuiet
<1>1. StopInv => StoppedIsQuiet
  BY DEF StopInv
<1> QED
  BY StopCorrect, <1>1, PTL
-----------------------------------------------------------------------------
(***************************************************************************)
(* The container stays open under a live worker.  Before the cancellation  *)
(* of the context, each worker has a chunk of its own that is marked as    *)
(* being downloaded, which keeps OrchestratorLoop from closing anything.   *)
(***************************************************************************)

Active == {w \in Worker : worker[w].pc \in {"begin", "fetch"}}

\* Start hands over to OrchestratorLoop, which alone starts workers.
HandOver ==
  /\ starter.pc # "done" => orch.pc = "off"
  /\ orch.pc = "off" => orch.todo = {} /\ \A w \in Worker : worker[w].pc = "idle"

OpenInUse ==
  starter.pc \in {"check", "launch"} \/ orch.pc \in {"select", "spawn", "finalize", "fail"} =>
    handle = "open"

ChunkInUse ==
  \A w \in Active : /\ chunk[worker[w].c].st = "Downloading"
                    /\ orch.pc \in {"select", "spawn"}

OneWorkerEach == \A v, w \in Active : v # w => worker[v].c # worker[w].c

TodoIsPending == \A c \in orch.todo : chunk[c].st = "Pending"

LiveInv ==
  /\ HandOver
  /\ ~ctxDone => OpenInUse /\ ChunkInUse /\ OneWorkerEach /\ TodoIsPending

\* Before the cancellation, OrchestratorLoop gives each chunk to one worker at a time and
\* closes nothing while one is at work: LiveInv is inductive.
LEMMA LiveCorrect == Spec => []LiveInv
<1>1. Init => LiveInv
  BY DEF Init, Stopped, LiveInv, HandOver, OpenInUse, ChunkInUse, OneWorkerEach, TodoIsPending, Active
<1>2. TypeOK /\ StopInv /\ LiveInv /\ [Next]_vars => LiveInv'
  <2> SUFFICES ASSUME TypeOK, StopInv, LiveInv, [Next]_vars
               PROVE  LiveInv'
    OBVIOUS
  <2> USE DEF TypeOK, StopInv, Called, LiveInv, HandOver, OpenInUse, ChunkInUse, OneWorkerEach, TodoIsPending, Active, files, Stopped, Operation
  <2>1. CASE ProbeOk
    BY <2>1 DEF ProbeOk, StarterAt
  <2>2. CASE Prepare
    BY <2>2 DEF Prepare, StarterAt
  <2>3. CASE PreCheckFails
    BY <2>3 DEF PreCheckFails, StarterAt
  <2>4. CASE Reconnect
    BY <2>4 DEF Reconnect, StarterAt
  <2>5. CASE Backoff
    BY <2>5 DEF Backoff, StarterAt
  <2>6. CASE CheckStopped
    BY <2>6 DEF CheckStopped, StarterAt
  <2>7. CASE Launch
    BY <2>7 DEF Launch, StarterAt
  <2>8. CASE ScanFinished
    BY <2>8 DEF ScanFinished, OrchAt, With
  <2>9. CASE ScanSpawn
    BY <2>9 DEF ScanSpawn, With, Retriable
  <2>10. CASE ScanFail
    BY <2>10 DEF ScanFail, OrchAt, With, Retriable
  <2>11. CASE Fail
    BY <2>11 DEF Fail, OrchAt
  <2>12. CASE SpawnEnd
    BY <2>12 DEF SpawnEnd
  <2>13. ASSUME NEW w \in Worker, Spawn(w) PROVE LiveInv'
    BY <2>13 DEF Spawn
  <2>14. ASSUME NEW w \in Worker, Begin(w) PROVE LiveInv'
    BY <2>14 DEF Begin, WorkerAt
  <2>15. ASSUME NEW w \in Worker, Complete(w) PROVE LiveInv'
    BY <2>15 DEF Complete, WorkerAt
  <2>16. ASSUME NEW w \in Worker, Break(w) PROVE LiveInv'
    BY <2>16 DEF Break, WorkerAt
  <2>17. ASSUME NEW w \in Worker, Abandon(w) PROVE LiveInv'
    BY <2>17 DEF Abandon, WorkerAt
  <2>18. ASSUME NEW w \in Worker, Exit(w) PROVE LiveInv'
    BY <2>18 DEF Exit
  <2>19. ASSUME NEW p \in Caller, CancelContext(p) PROVE LiveInv'
    BY <2>19 DEF CancelContext, CallerAt
  <2>20. ASSUME NEW p \in Caller, ChangeStatus(p) PROVE LiveInv'
    BY <2>20 DEF ChangeStatus, CallerAt
  <2>21. ASSUME NEW p \in Caller, Close(p) PROVE LiveInv'
    BY <2>21 DEF Close, CallerAt
  \* The context is done after these, or stays done.
  <2>22. CASE SelectDone \/ Quit \/ Verify \/ RenameFails \/ Report
    BY <2>22 DEF SelectDone, OrchAt, Quit, Verify, RenameFails, Report
  \* None of these touches what the invariant speaks of.
  <2>23. CASE Rename \/ CleanupCheckpoint \/ Tick \/ EmitterDone \/ EmitterSave \/
              (\E p \in Caller, op \in Operation : Call(p, op)) \/
              (\E p \in Caller : WaitWorkers(p)) \/ (\E p \in Caller : Settle(p))
    BY <2>23 DEF Rename, OrchAt, CleanupCheckpoint, Tick, EmitterDone, EmitterSave, Call,
                 WaitWorkers, CallerAt, Settle
  <2>24. CASE UNCHANGED vars
    BY <2>24 DEF vars
  <2> QED
    BY <2>1, <2>2, <2>3, <2>4, <2>5, <2>6, <2>7, <2>8, <2>9, <2>10, <2>11, <2>12, <2>13,
       <2>14, <2>15, <2>16, <2>17, <2>18, <2>19, <2>20, <2>21, <2>22, <2>23, <2>24
    DEF Next, Start, Orchestrator, WorkerStep, Emitter, CallerStep
<1> QED
  BY LifecycleTypeCorrect, StopCorrect, <1>1, <1>2, PTL DEF Spec

\* No worker that has not been cancelled ever finds the container closed.
THEOREM ContainerStaysOpen == Spec => []OpenWhileFetching
<1>1. LiveInv => OpenWhileFetching
  BY DEF LiveInv, OpenInUse, ChunkInUse, Active, OpenWhileFetching
<1> QED
  BY LiveCorrect, <1>1, PTL
-----------------------------------------------------------------------------
(***************************************************************************)
(* A finished file is whole, and what was downloaded is kept.              *)
(***************************************************************************)

\* From the verification on, every chunk is finished and no worker is left to change it.
WholeInv ==
  orch.pc \in {"rename", "cleanup", "report"} \/ dest =>
    With("Finished") = Chunk /\ \A w \in Worker : worker[w].pc = "idle"

DestInv ==
  /\ orch.pc \in {"cleanup", "report"} => dest
  /\ dest => orch.pc \in {"cleanup", "report", "done"}
  /\ status = "Finished" => dest

FileInv == HandOver /\ WholeInv /\ DestInv

\* From the verification in finalizeDownload on, nothing changes a chunk, and the status
\* says finished only after the rename: FileInv is inductive.
LEMMA FileCorrect == Spec => []FileInv
<1>1. Init => FileInv
  BY DEF Init, Stopped, FileInv, HandOver, WholeInv, DestInv, With
<1>2. TypeOK /\ FileInv /\ [Next]_vars => FileInv'
  <2> SUFFICES ASSUME TypeOK, FileInv, [Next]_vars
               PROVE  FileInv'
    OBVIOUS
  <2> USE DEF TypeOK, FileInv, HandOver, WholeInv, DestInv, With, files, Stopped, Operation
  <2>1. CASE ProbeOk
    BY <2>1 DEF ProbeOk, StarterAt
  <2>2. CASE Prepare
    BY <2>2 DEF Prepare, StarterAt
  <2>3. CASE PreCheckFails
    BY <2>3 DEF PreCheckFails, StarterAt
  <2>4. CASE Reconnect
    BY <2>4 DEF Reconnect, StarterAt
  <2>5. CASE Backoff
    BY <2>5 DEF Backoff, StarterAt
  <2>6. CASE CheckStopped
    BY <2>6 DEF CheckStopped, StarterAt
  <2>7. CASE Launch
    BY <2>7 DEF Launch, StarterAt
  <2>8. CASE SelectDone
    BY <2>8 DEF SelectDone, OrchAt
  <2>9. CASE ScanFinished
    BY <2>9 DEF ScanFinished, OrchAt
  <2>10. CASE ScanSpawn
    BY <2>10 DEF ScanSpawn, Retriable
  <2>11. CASE ScanFail
    BY <2>11 DEF ScanFail, OrchAt
  <2>12. CASE Fail
    BY <2>12 DEF Fail, OrchAt
  <2>13. CASE Quit
    BY <2>13 DEF Quit, OrchAt
  <2>14. CASE SpawnEnd
    BY <2>14 DEF SpawnEnd
  <2>15. CASE Verify
    BY <2>15 DEF Verify, OrchAt, Running
  <2>16. CASE Rename
    BY <2>16 DEF Rename, OrchAt
  <2>17. CASE RenameFails
    BY <2>17 DEF RenameFails, OrchAt
  <2>18. CASE CleanupCheckpoint
    BY <2>18 DEF CleanupCheckpoint, OrchAt
  <2>19. CASE Report
    BY <2>19 DEF Report, OrchAt
  <2>20. ASSUME NEW w \in Worker, Spawn(w) PROVE FileInv'
    BY <2>20 DEF Spawn
  <2>21. ASSUME NEW w \in Worker, Begin(w) PROVE FileInv'
    BY <2>21 DEF Begin, WorkerAt
  <2>22. ASSUME NEW w \in Worker, Complete(w) PROVE FileInv'
    BY <2>22 DEF Complete, WorkerAt
  <2>23. ASSUME NEW w \in Worker, Break(w) PROVE FileInv'
    BY <2>23 DEF Break, WorkerAt
  <2>24. ASSUME NEW w \in Worker, Abandon(w) PROVE FileInv'
    BY <2>24 DEF Abandon, WorkerAt
  <2>25. ASSUME NEW w \in Worker, Exit(w) PROVE FileInv'
    BY <2>25 DEF Exit
  <2>26. ASSUME NEW p \in Caller, ChangeStatus(p) PROVE FileInv'
    BY <2>26 DEF ChangeStatus, CallerAt
  <2>27. ASSUME NEW p \in Caller, Close(p) PROVE FileInv'
    BY <2>27 DEF Close, CallerAt
  \* None of these touches a chunk, a worker, the status or the destination.
  <2>28. CASE Tick \/ EmitterDone \/ EmitterSave \/
              (\E p \in Caller, op \in Operation : Call(p, op)) \/
              (\E p \in Caller : CancelContext(p)) \/ (\E p \in Caller : WaitWorkers(p)) \/
              (\E p \in Caller : Settle(p))
    BY <2>28 DEF Tick, EmitterDone, EmitterSave, Call, CancelContext, CallerAt,
                 WaitWorkers, Settle
  <2>29. CASE UNCHANGED vars
    BY <2>29 DEF vars
  <2> QED
    BY <2>1, <2>2, <2>3, <2>4, <2>5, <2>6, <2>7, <2>8, <2>9, <2>10, <2>11, <2>12, <2>13,
       <2>14, <2>15, <2>16, <2>17, <2>18, <2>19, <2>20, <2>21, <2>22, <2>23, <2>24, <2>25,
       <2>26, <2>27, <2>28, <2>29
    DEF Next, Start, Orchestrator, WorkerStep, Emitter, CallerStep
<1> QED
  BY LifecycleTypeCorrect, <1>1, <1>2, PTL DEF Spec

\* A task is finished only with its file in place and every chunk finished, whoever
\* pauses, cancels or deletes in between.
THEOREM FinishedFileIsWhole == Spec => []FinishedIsWhole
<1>1. FileInv => FinishedIsWhole
  BY DEF FileInv, WholeInv, DestInv, FinishedIsWhole
<1> QED
  BY FileCorrect, <1>1, PTL

\* A call that has not begun has no operation, so a Cancel once begun is known for good.
IdleHasNoOp == \A p \in Caller : caller[p].pc = "idle" => caller[p].op = "none"

KeptInv == IdleHasNoOp /\ PartialKept

\* With FileInv, what the user has downloaded is there after every step of every
\* goroutine: KeptInv is inductive.
LEMMA KeptCorrect == Spec => []KeptInv
<1>1. Init => KeptInv
  BY DEF Init, Stopped, KeptInv, IdleHasNoOp, PartialKept
<1>2. TypeOK /\ FileInv /\ KeptInv /\ [Next]_vars => KeptInv'
  <2> SUFFICES ASSUME TypeOK, FileInv, KeptInv, [Next]_vars
               PROVE  KeptInv'
    OBVIOUS
  <2> USE DEF TypeOK, FileInv, DestInv, KeptInv, IdleHasNoOp, PartialKept, files, Stopped, Operation
  <2>1. CASE Prepare
    BY <2>1 DEF Prepare, StarterAt
  <2>2. CASE Rename
    BY <2>2 DEF Rename, OrchAt
  <2>3. CASE CleanupCheckpoint
    BY <2>3 DEF CleanupCheckpoint, OrchAt
  <2>4. CASE EmitterSave
    BY <2>4 DEF EmitterSave
  <2>5. ASSUME NEW p \in Caller, NEW op \in Operation, Call(p, op) PROVE KeptInv'
    BY <2>5 DEF Call
  <2>6. ASSUME NEW p \in Caller, CancelContext(p) PROVE KeptInv'
    BY <2>6 DEF CancelContext, CallerAt
  <2>7. ASSUME NEW p \in Caller, ChangeStatus(p) PROVE KeptInv'
    BY <2>7 DEF ChangeStatus, CallerAt
  <2>8. ASSUME NEW p \in Caller, WaitWorkers(p) PROVE KeptInv'
    BY <2>8 DEF WaitWorkers, CallerAt
  <2>9. ASSUME NEW p \in Caller, Close(p) PROVE KeptInv'
    BY <2>9 DEF Close, CallerAt
  <2>10. ASSUME NEW p \in Caller, Settle(p) PROVE KeptInv'
    BY <2>10 DEF Settle, CallerAt, Deleting
  \* None of these touches a file, the layout or a call.
  <2>11. CASE ProbeOk \/ PreCheckFails \/ Reconnect \/ Backoff \/ CheckStopped \/ Launch \/
              SelectDone \/ ScanFinished \/ ScanSpawn \/ ScanFail \/ Fail \/ Quit \/
              SpawnEnd \/ Verify \/ RenameFails \/ Report
    BY <2>11 DEF ProbeOk, StarterAt, PreCheckFails, Reconnect, Backoff, CheckStopped,
                 Launch, SelectDone, OrchAt, ScanFinished, ScanSpawn, ScanFail, Fail, Quit,
                 SpawnEnd, Verify, RenameFails, Report
  \* Nor do the workers, or the emitter's waits.
  <2>12. CASE (\E w \in Worker : Spawn(w)) \/ (\E w \in Worker : Begin(w)) \/
              (\E w \in Worker : Complete(w)) \/ (\E w \in Worker : Break(w)) \/
              (\E w \in Worker : Abandon(w)) \/ (\E w \in Worker : Exit(w)) \/ Tick \/
              EmitterDone
    <3>1. UNCHANGED <<laid, temp, dest, meta, caller>>
      BY <2>12 DEF Spawn, Begin, WorkerAt, Complete, Break, Abandon, Exit, Tick, EmitterDone
    <3> QED
      BY <3>1
  <2>13. CASE UNCHANGED vars
    BY <2>13 DEF vars
  <2> QED
    BY <2>1, <2>2, <2>3, <2>4, <2>5, <2>6, <2>7, <2>8, <2>9, <2>10, <2>11, <2>12, <2>13
    DEF Next, Start, Orchestrator, WorkerStep, Emitter, CallerStep
<1> QED
  BY LifecycleTypeCorrect, FileCorrect, <1>1, <1>2, PTL DEF Spec

\* Unless a Cancel that deletes was called, the container and its checkpoint exist from
\* the pre-check on, until the finished file does.
THEOREM PartialIsKept == Spec => []PartialKept
<1>1. KeptInv => PartialKept
  BY DEF KeptInv
<1> QED
  BY KeptCorrect, <1>1, PTL
=============================================================================
