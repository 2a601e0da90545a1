-------------------------- MODULE DownloadListProofs --------------------------
(***************************************************************************)
(* Theorems about DownloadList, for any items, queues, limits, commands    *)
(* and failures.                                                           *)
(***************************************************************************)
EXTENDS DownloadList, SequenceTheorems, TLAPS

\* What the engine tells is an event.
LEMMA Telling ==
  /\ \A st \in Status \ {"Queued"}, whole \in BOOLEAN : ProgressOf(st, whole) \in Event
  /\ \A k \in {"error", "exhausted", "completed", "added"} : [kind |-> k] \in Event
  BY DEF ProgressOf, Event, Progress

\* A flush gives every item a status.
LEMMA FlushedType ==
  ASSUME TypeOK, NEW b \in [Item -> Progress \cup {NoProgress}]
  PROVE  Flushed(b) \in [Item -> Status \cup Absent]
<1> SUFFICES ASSUME NEW i \in Item, b[i] # NoProgress
             PROVE  /\ Updated(i, b[i]) \in Status \cup Absent
                    /\ Discovered(i, b[i]) \in Status \cup Absent
  BY DEF TypeOK, Flushed
<1>1. b[i].st \in Status
  BY DEF Progress
<1> QED
  BY <1>1 DEF Updated, Discovered, TypeOK, Status

\* Every reachable state has its type: retries are counted up to the setting, and calls
\* and events are about items.
THEOREM ListTypeCorrect == Spec => []TypeOK
<1>1. Init => TypeOK
  BY ListAssumption DEF Init, TypeOK, Absent, Status, Progress, NoProgress, Event
<1>2. TypeOK /\ [Next]_vars => TypeOK'
  <2> SUFFICES ASSUME TypeOK, [Next]_vars
               PROVE  TypeOK'
    OBVIOUS
  <2> USE ListAssumption DEF TypeOK, Absent, Status, Who, In, Put, Frontend, retries, backend, bounds
  <2>1. ASSUME NEW i \in Handled, ResumeItem(i) PROVE TypeOK'
    BY <2>1 DEF ResumeItem, Command, Resume, Found, ClearRetries
  <2>2. ASSUME NEW i \in Handled, PauseItem(i) PROVE TypeOK'
    BY <2>2 DEF PauseItem, Command, Pause, ClearRetries
  <2>3. ASSUME NEW i \in Handled, CancelDownload(i) PROVE TypeOK'
    BY <2>3 DEF CancelDownload, Command
  <2>4. ASSUME NEW i \in Handled, AddDownload(i) PROVE TypeOK'
    BY <2>4 DEF AddDownload, Command
  <2>5. ASSUME NEW S \in SUBSET Handled, ResumeSelected(S) PROVE TypeOK'
    BY <2>5 DEF ResumeSelected, Command, Resume, Found, ClearRetries
  <2>6. ASSUME NEW S \in SUBSET Handled, PauseSelected(S) PROVE TypeOK'
    BY <2>6 DEF PauseSelected, Command, Pause, ClearRetries
  <2>7. ASSUME NEW S \in SUBSET Handled, DeleteDownloads(S) PROVE TypeOK'
    BY <2>7 DEF DeleteDownloads, Command, ClearRetries
  <2>8. ASSUME NEW S \in SUBSET Handled, NEW start \in BOOLEAN, AddBatchDownloads(S, start)
        PROVE TypeOK'
    BY <2>8 DEF AddBatchDownloads, Command
  <2>9. ASSUME NEW q \in Queue, StartQueue(q) PROVE TypeOK'
    BY <2>9 DEF StartQueue, Command, Started, Of
  <2>10. ASSUME NEW q \in Queue, StopQueue(q) PROVE TypeOK'
    BY <2>10 DEF StopQueue, Command, Of, Active
  <2>11. CASE StopAll
    BY <2>11 DEF StopAll, Command, ClearRetries, Active
  <2>12. ASSUME NEW target \in {Queue} \cup {{q} : q \in Queue}, DispatchQueueWorkers(target)
         PROVE TypeOK'
    BY <2>12 DEF DispatchQueueWorkers, Resume, Found, ClearRetries, Picks, Waiting, Of
  <2>13. CASE FlushTimer
    BY <2>13, FlushedType DEF FlushTimer, Flush, NoBatch
  <2>14. ASSUME NEW q \in Queue, BatchOver(q) PROVE TypeOK'
    BY <2>14 DEF BatchOver, Started, Of
  <2>15. ASSUME NEW i \in Item, Released(i) PROVE TypeOK'
    BY <2>15 DEF Released
  <2>16. ASSUME NEW i \in Item, ResumeNext(i) PROVE TypeOK'
    BY <2>16 DEF ResumeNext, Resume, Found, ClearRetries
  <2>17. ASSUME NEW i \in Item, DeletionOver(i) PROVE TypeOK'
    BY <2>17 DEF DeletionOver
  <2>18. ASSUME NEW i \in Item, RetryTimer(i) PROVE TypeOK'
    BY <2>18 DEF RetryTimer
  <2>19. ASSUME NEW i \in Item, OnProgress(i) PROVE TypeOK'
    <3>1. Head(events[i]) \in Event /\ Tail(events[i]) \in Seq(Event)
      BY <2>19 DEF OnProgress, Arrives
    <3>2. events' \in [Item -> Seq(Event)]
      BY <2>19, <3>1 DEF OnProgress, Taken
    <3>3. Head(events[i]).p \in Progress
      BY <2>19, <3>1 DEF OnProgress, Arrives, Event
    <3>4. CASE i \in deleting
      BY <2>19, <3>2, <3>4 DEF OnProgress
    <3>5. CASE ~(i \in deleting)
      <4> DEFINE p == Head(events[i]).p
      <4>1. PICK moving \in BOOLEAN :
              /\ IF SettlesRetries(i, p, moving) THEN ClearRetries({i})
                                                 ELSE UNCHANGED <<attempts, retryTimer>>
              /\ CASE p.st = "Error" /\ i \in retryTimer -> UNCHANGED <<list, batch>>
                   [] p.st = "Downloading" -> /\ batch' = [batch EXCEPT ![i] = p]
                                              /\ UNCHANGED list
                   [] OTHER -> Flush([batch EXCEPT ![i] = p])
        BY <2>19, <3>5 DEF OnProgress
      <4> HIDE DEF p
      <4>2. attempts' \in [Item -> 0..MaxRetries] /\ retryTimer' \subseteq Item
        BY <4>1 DEF ClearRetries
      <4>3. [batch EXCEPT ![i] = p] \in [Item -> Progress \cup {NoProgress}]
        BY <3>3 DEF p
      <4>4. /\ batch' \in [Item -> Progress \cup {NoProgress}]
            /\ list' \in [Item -> Status \cup Absent]
        <5>1. CASE p.st = "Error" /\ i \in retryTimer
          BY <4>1, <5>1
        <5>2. CASE p.st = "Downloading"
          BY <4>1, <4>3, <5>2
        <5>3. CASE ~(p.st = "Error" /\ i \in retryTimer) /\ p.st # "Downloading"
          <6>1. Flush([batch EXCEPT ![i] = p])
            BY <4>1, <5>3
          <6> QED
            BY <4>3, <6>1, FlushedType DEF Flush, NoBatch
        <5> QED
          BY <5>1, <5>2, <5>3
      <4> QED
        BY <2>19, <3>2, <4>2, <4>4 DEF OnProgress
    <3> QED
      BY <3>4, <3>5
  <2>20. ASSUME NEW i \in Item, OnError(i) PROVE TypeOK'
    <3>1. Head(events[i]) \in Event /\ Tail(events[i]) \in Seq(Event)
      BY <2>20 DEF OnError, Arrives
    <3>2. events' \in [Item -> Seq(Event)]
      BY <2>20, <3>1 DEF OnError, Taken
    <3> QED
      BY <2>20, <3>2 DEF OnError, Arrives
  <2>21. ASSUME NEW i \in Item, ErrorHandled(i) PROVE TypeOK'
    <3>1. attempts' \in [Item -> 0..MaxRetries]
      <4>1. CASE erring[i] = "error" /\ attempts[i] < MaxRetries
        BY <2>21, <4>1 DEF ErrorHandled
      <4>2. CASE ~(erring[i] = "error" /\ attempts[i] < MaxRetries)
        <5>1. attempts' = [attempts EXCEPT ![i] = MaxRetries]
          BY <2>21, <4>2 DEF ErrorHandled
        <5> QED
          BY <5>1
      <4> QED
        BY <4>1, <4>2
    <3>2. retryTimer' \subseteq Item /\ list' \in [Item -> Status \cup Absent]
      BY <2>21 DEF ErrorHandled
    <3> QED
      BY <2>21, <3>1, <3>2 DEF ErrorHandled
  <2>22. ASSUME NEW i \in Item, OnCompleted(i) PROVE TypeOK'
    BY <2>22 DEF OnCompleted, Arrives, Taken
  <2>23. ASSUME NEW i \in Item, OnAdded(i) PROVE TypeOK'
    <3>1. Head(events[i]) \in Event /\ Tail(events[i]) \in Seq(Event)
      BY <2>23 DEF OnAdded, Arrives
    <3>2. events' \in [Item -> Seq(Event)]
      BY <2>23, <3>1 DEF OnAdded, Taken
    <3> QED
      BY <2>23, <3>2 DEF OnAdded
  <2>24. ASSUME NEW i \in Item, NEW w \in Who, Accepted(i, w) PROVE TypeOK'
    <3>1. [kind |-> "added"] \in Event
      BY Telling
    <3>2. Append(events[i], [kind |-> "added"]) \in Seq(Event)
      BY <3>1
    <3>3. events' \in [Item -> Seq(Event)]
      BY <2>24, <3>2 DEF Accepted
    <3> QED
      BY <2>24, <3>3 DEF Accepted
  <2>25. ASSUME NEW i \in Item, NEW w \in Who, Refused(i, w) PROVE TypeOK'
    BY <2>25 DEF Refused
  <2>26. CASE PauseAllCall
    BY <2>26 DEF PauseAllCall, EnginePause, Busy
  <2>27. ASSUME NEW i \in Item, PauseCall(i) PROVE TypeOK'
    BY <2>27 DEF PauseCall, EnginePause, Pausable
  <2>28. ASSUME NEW i \in Item, PauseDone(i) PROVE TypeOK'
    <3>1. events' \in [Item -> Seq(Event)]
      BY <2>28, Telling DEF PauseDone, Emit
    <3> QED
      BY <2>28, <3>1 DEF PauseDone
  <2>29. ASSUME NEW i \in Item, CancelCall(i) PROVE TypeOK'
    <3>1. ProgressOf("Canceled", FALSE) \in Event
      BY Telling
    <3>2. \A e \in Event : [events EXCEPT ![i] = events[i] \o <<e>>] \in [Item -> Seq(Event)]
      OBVIOUS
    <3>3. events' \in [Item -> Seq(Event)]
      BY <2>29, <3>1, <3>2 DEF CancelCall, Emit
    <3> QED
      BY <2>29, <3>3 DEF CancelCall
  <2>30. ASSUME NEW i \in Item, DeleteCall(i) PROVE TypeOK'
    <3>1. ProgressOf("Canceled", FALSE) \in Event
      BY Telling
    <3>2. \A e \in Event : [events EXCEPT ![i] = events[i] \o <<e>>] \in [Item -> Seq(Event)]
      OBVIOUS
    <3>3. events' \in [Item -> Seq(Event)]
      BY <2>30, <3>1, <3>2 DEF DeleteCall, Emit
    <3> QED
      BY <2>30, <3>3 DEF DeleteCall
  <2>31. ASSUME NEW i \in Item, EngineProgress(i) PROVE TypeOK'
    <3>1. events' \in [Item -> Seq(Event)]
      BY <2>31, Telling DEF EngineProgress, Emit
    <3> QED
      BY <2>31, <3>1 DEF EngineProgress
  <2>32. ASSUME NEW i \in Item, EngineFinish(i) PROVE TypeOK'
    <3>1. ProgressOf("Finished", TRUE) \in Event /\ [kind |-> "completed"] \in Event
      BY Telling
    <3>2. \A e, f \in Event : [events EXCEPT ![i] = events[i] \o <<e, f>>] \in [Item -> Seq(Event)]
      OBVIOUS
    <3>3. events' \in [Item -> Seq(Event)]
      BY <2>32, <3>1, <3>2 DEF EngineFinish, Emit
    <3> QED
      BY <2>32, <3>3 DEF EngineFinish
  <2>33. ASSUME NEW i \in Item, EngineError(i) PROVE TypeOK'
    <3>1. PICK whole \in BOOLEAN, kind \in {"error", "exhausted"} :
            Emit(i, <<ProgressOf("Error", whole), [kind |-> kind]>>)
      BY <2>33 DEF EngineError
    <3>2. ProgressOf("Error", whole) \in Event /\ [kind |-> kind] \in Event
      BY Telling
    <3>3. events[i] \o <<ProgressOf("Error", whole), [kind |-> kind]>> \in Seq(Event)
      BY <3>2
    <3>4. events' \in [Item -> Seq(Event)]
      BY <3>1, <3>3 DEF Emit
    <3>5. /\ errors' \in 0..MaxErrors
          /\ engine' \in [Item -> {"none", "running", "paused", "failed", "finished"}]
          /\ UNCHANGED <<Frontend, calls, pausing>>
      BY <2>33 DEF EngineError
    <3> QED
      BY <3>4, <3>5
  <2>34. CASE UNCHANGED vars
    BY <2>34 DEF vars
  <2> QED
    BY <2>1, <2>2, <2>3, <2>4, <2>5, <2>6, <2>7, <2>8, <2>9, <2>10, <2>11, <2>12, <2>13,
       <2>14, <2>15, <2>16, <2>17, <2>18, <2>19, <2>20, <2>21, <2>22, <2>23, <2>24, <2>25,
       <2>26, <2>27, <2>28, <2>29, <2>30, <2>31, <2>32, <2>33, <2>34
    DEF Next, User, Window, Engine, Dispatch
<1> QED
  BY <1>1, <1>2, PTL DEF Spec

\* A deleted item does not come back through an event, a batch or a retry, whatever
\* deletions, calls and listeners do meanwhile.
THEOREM DeletedStays == Spec => DeletedStaysDeleted
<1>1. ASSUME TypeOK, [Next]_vars, NEW i \in Item,
             list[i] = "gone", \A w \in Who : <<i, w>> \notin resuming,
             \/ i \in deleting
             \/ engine[i] # "running" /\ events[i] = <<>> /\ batch[i] = NoProgress
      PROVE  list'[i] = "gone"
  <2> USE <1>1 DEF TypeOK, Absent, In, Put, Frontend, retries, backend, bounds
  <2>1. ASSUME NEW j \in Handled, ResumeItem(j) PROVE list'[i] = "gone"
    BY <2>1 DEF ResumeItem, Command, Resume, Found, ClearRetries
  <2>2. ASSUME NEW j \in Handled, PauseItem(j) PROVE list'[i] = "gone"
    BY <2>2 DEF PauseItem, Command, Pause, ClearRetries
  <2>3. ASSUME NEW j \in Handled, CancelDownload(j) PROVE list'[i] = "gone"
    BY <2>3 DEF CancelDownload, Command
  <2>4. ASSUME NEW j \in Handled, AddDownload(j) PROVE list'[i] = "gone"
    BY <2>4 DEF AddDownload, Command
  <2>5. ASSUME NEW S \in SUBSET Handled, ResumeSelected(S) PROVE list'[i] = "gone"
    BY <2>5 DEF ResumeSelected, Command, Resume, Found, ClearRetries
  <2>6. ASSUME NEW S \in SUBSET Handled, PauseSelected(S) PROVE list'[i] = "gone"
    BY <2>6 DEF PauseSelected, Command, Pause, ClearRetries
  <2>7. ASSUME NEW S \in SUBSET Handled, DeleteDownloads(S) PROVE list'[i] = "gone"
    BY <2>7 DEF DeleteDownloads, Command, ClearRetries
  <2>8. ASSUME NEW S \in SUBSET Handled, NEW start \in BOOLEAN, AddBatchDownloads(S, start)
        PROVE list'[i] = "gone"
    BY <2>8 DEF AddBatchDownloads, Command
  <2>9. ASSUME NEW q \in Queue, StartQueue(q) PROVE list'[i] = "gone"
    BY <2>9 DEF StartQueue, Command, Started, Of
  <2>10. ASSUME NEW q \in Queue, StopQueue(q) PROVE list'[i] = "gone"
    BY <2>10 DEF StopQueue, Command, Of, Active
  <2>11. CASE StopAll
    BY <2>11 DEF StopAll, Command, ClearRetries, Active
  <2>12. ASSUME NEW target \in {Queue} \cup {{q} : q \in Queue}, DispatchQueueWorkers(target)
         PROVE list'[i] = "gone"
    BY <2>12 DEF DispatchQueueWorkers, Resume, Found, ClearRetries, Picks, Waiting, Of
  <2>13. CASE FlushTimer
    BY <2>13 DEF FlushTimer, Flush, Flushed, Updated, Discovered, NoBatch
  <2>14. ASSUME NEW q \in Queue, BatchOver(q) PROVE list'[i] = "gone"
    BY <2>14 DEF BatchOver, Started, Of
  <2>15. ASSUME NEW j \in Item, Released(j) PROVE list'[i] = "gone"
    BY <2>15 DEF Released
  <2>16. ASSUME NEW j \in Item, ResumeNext(j) PROVE list'[i] = "gone"
    BY <2>16 DEF ResumeNext, Resume, Found, ClearRetries
  <2>17. ASSUME NEW j \in Item, DeletionOver(j) PROVE list'[i] = "gone"
    BY <2>17 DEF DeletionOver
  <2>18. ASSUME NEW j \in Item, RetryTimer(j) PROVE list'[i] = "gone"
    BY <2>18 DEF RetryTimer
  <2>19. ASSUME NEW j \in Item, OnProgress(j) PROVE list'[i] = "gone"
    BY <2>19 DEF OnProgress, Arrives, Taken, SettlesRetries, ClearRetries, Flush, Flushed,
                 Updated, Discovered, NoBatch
  <2>20. ASSUME NEW j \in Item, OnError(j) PROVE list'[i] = "gone"
    BY <2>20 DEF OnError, Arrives, Taken
  <2>21. ASSUME NEW j \in Item, ErrorHandled(j) PROVE list'[i] = "gone"
    BY <2>21 DEF ErrorHandled
  <2>22. ASSUME NEW j \in Item, OnCompleted(j) PROVE list'[i] = "gone"
    BY <2>22 DEF OnCompleted, Arrives, Taken
  <2>23. ASSUME NEW j \in Item, OnAdded(j) PROVE list'[i] = "gone"
    BY <2>23 DEF OnAdded, Arrives, Taken
  <2>24. ASSUME NEW j \in Item, NEW w \in Who, Accepted(j, w) PROVE list'[i] = "gone"
    BY <2>24 DEF Accepted
  <2>25. ASSUME NEW j \in Item, NEW w \in Who, Refused(j, w) PROVE list'[i] = "gone"
    BY <2>25 DEF Refused
  <2>26. CASE PauseAllCall
    BY <2>26 DEF PauseAllCall, EnginePause, Busy
  <2>27. ASSUME NEW j \in Item, PauseCall(j) PROVE list'[i] = "gone"
    BY <2>27 DEF PauseCall, EnginePause, Pausable
  <2>28. ASSUME NEW j \in Item, PauseDone(j) PROVE list'[i] = "gone"
    BY <2>28 DEF PauseDone, Emit, ProgressOf
  <2>29. ASSUME NEW j \in Item, CancelCall(j) PROVE list'[i] = "gone"
    BY <2>29 DEF CancelCall, Emit, ProgressOf
  <2>30. ASSUME NEW j \in Item, DeleteCall(j) PROVE list'[i] = "gone"
    BY <2>30 DEF DeleteCall, Emit, ProgressOf
  <2>31. ASSUME NEW j \in Item, EngineProgress(j) PROVE list'[i] = "gone"
    BY <2>31 DEF EngineProgress, Emit, ProgressOf
  <2>32. ASSUME NEW j \in Item, EngineFinish(j) PROVE list'[i] = "gone"
    BY <2>32 DEF EngineFinish, Emit, ProgressOf
  <2>33. ASSUME NEW j \in Item, EngineError(j) PROVE list'[i] = "gone"
    BY <2>33 DEF EngineError, Emit, ProgressOf
  <2>34. CASE UNCHANGED vars
    BY <2>34 DEF vars
  <2> QED
    BY <2>1, <2>2, <2>3, <2>4, <2>5, <2>6, <2>7, <2>8, <2>9, <2>10, <2>11, <2>12, <2>13,
       <2>14, <2>15, <2>16, <2>17, <2>18, <2>19, <2>20, <2>21, <2>22, <2>23, <2>24, <2>25,
       <2>26, <2>27, <2>28, <2>29, <2>30, <2>31, <2>32, <2>33, <2>34
    DEF Next, User, Window, Engine, Dispatch
<1>2. TypeOK /\ [Next]_vars => [DeletedStep]_vars
  BY <1>1 DEF DeletedStep
<1> QED
  BY ListTypeCorrect, <1>2, PTL DEF Spec, DeletedStaysDeleted

\* The dispatcher, the retry timers and late flushes leave a paused item alone.
THEOREM PausedStays == Spec => PausedStaysPaused
<1>1. ASSUME TypeOK, [Next]_vars, NEW i \in Item,
             list[i] = "Paused", engine[i] # "running",
             events[i] = <<>>, batch[i] = NoProgress, erring[i] = "none",
             \A w \in Who : <<i, w>> \notin resuming,
             i \notin toResume, <<"startQueue", QueueOf[i]>> \notin calls,
             commands' = commands
      PROVE  list'[i] = "Paused"
  <2> USE <1>1 DEF TypeOK, Absent, In, Put, Frontend, retries, backend, bounds
  <2>1. ASSUME NEW j \in Handled, ResumeItem(j) PROVE list'[i] = "Paused"
    BY <2>1 DEF ResumeItem, Command, Resume, Found, ClearRetries
  <2>2. ASSUME NEW j \in Handled, PauseItem(j) PROVE list'[i] = "Paused"
    BY <2>2 DEF PauseItem, Command, Pause, ClearRetries
  <2>3. ASSUME NEW j \in Handled, CancelDownload(j) PROVE list'[i] = "Paused"
    BY <2>3 DEF CancelDownload, Command
  <2>4. ASSUME NEW j \in Handled, AddDownload(j) PROVE list'[i] = "Paused"
    BY <2>4 DEF AddDownload, Command
  <2>5. ASSUME NEW S \in SUBSET Handled, ResumeSelected(S) PROVE list'[i] = "Paused"
    BY <2>5 DEF ResumeSelected, Command, Resume, Found, ClearRetries
  <2>6. ASSUME NEW S \in SUBSET Handled, PauseSelected(S) PROVE list'[i] = "Paused"
    BY <2>6 DEF PauseSelected, Command, Pause, ClearRetries
  <2>7. ASSUME NEW S \in SUBSET Handled, DeleteDownloads(S) PROVE list'[i] = "Paused"
    BY <2>7 DEF DeleteDownloads, Command, ClearRetries
  <2>8. ASSUME NEW S \in SUBSET Handled, NEW start \in BOOLEAN, AddBatchDownloads(S, start)
        PROVE list'[i] = "Paused"
    BY <2>8 DEF AddBatchDownloads, Command
  <2>9. ASSUME NEW q \in Queue, StartQueue(q) PROVE list'[i] = "Paused"
    BY <2>9 DEF StartQueue, Command, Started, Of
  <2>10. ASSUME NEW q \in Queue, StopQueue(q) PROVE list'[i] = "Paused"
    BY <2>10 DEF StopQueue, Command, Of, Active
  <2>11. CASE StopAll
    BY <2>11 DEF StopAll, Command, ClearRetries, Active
  <2>12. ASSUME NEW target \in {Queue} \cup {{q} : q \in Queue}, DispatchQueueWorkers(target)
         PROVE list'[i] = "Paused"
    BY <2>12 DEF DispatchQueueWorkers, Resume, Found, ClearRetries, Picks, Waiting, Of
  <2>13. CASE FlushTimer
    BY <2>13 DEF FlushTimer, Flush, Flushed, Updated, Discovered, NoBatch
  <2>14. ASSUME NEW q \in Queue, BatchOver(q) PROVE list'[i] = "Paused"
    BY <2>14 DEF BatchOver, Started, Of
  <2>15. ASSUME NEW j \in Item, Released(j) PROVE list'[i] = "Paused"
    BY <2>15 DEF Released
  <2>16. ASSUME NEW j \in Item, ResumeNext(j) PROVE list'[i] = "Paused"
    BY <2>16 DEF ResumeNext, Resume, Found, ClearRetries
  <2>17. ASSUME NEW j \in Item, DeletionOver(j) PROVE list'[i] = "Paused"
    BY <2>17 DEF DeletionOver
  <2>18. ASSUME NEW j \in Item, RetryTimer(j) PROVE list'[i] = "Paused"
    BY <2>18 DEF RetryTimer
  <2>19. ASSUME NEW j \in Item, OnProgress(j) PROVE list'[i] = "Paused"
    BY <2>19 DEF OnProgress, Arrives, Taken, SettlesRetries, ClearRetries, Flush, Flushed,
                 Updated, Discovered, NoBatch
  <2>20. ASSUME NEW j \in Item, OnError(j) PROVE list'[i] = "Paused"
    BY <2>20 DEF OnError, Arrives, Taken
  <2>21. ASSUME NEW j \in Item, ErrorHandled(j) PROVE list'[i] = "Paused"
    BY <2>21 DEF ErrorHandled
  <2>22. ASSUME NEW j \in Item, OnCompleted(j) PROVE list'[i] = "Paused"
    BY <2>22 DEF OnCompleted, Arrives, Taken
  <2>23. ASSUME NEW j \in Item, OnAdded(j) PROVE list'[i] = "Paused"
    BY <2>23 DEF OnAdded, Arrives, Taken
  <2>24. ASSUME NEW j \in Item, NEW w \in Who, Accepted(j, w) PROVE list'[i] = "Paused"
    BY <2>24 DEF Accepted
  <2>25. ASSUME NEW j \in Item, NEW w \in Who, Refused(j, w) PROVE list'[i] = "Paused"
    BY <2>25 DEF Refused
  <2>26. CASE PauseAllCall
    BY <2>26 DEF PauseAllCall, EnginePause, Busy
  <2>27. ASSUME NEW j \in Item, PauseCall(j) PROVE list'[i] = "Paused"
    BY <2>27 DEF PauseCall, EnginePause, Pausable
  <2>28. ASSUME NEW j \in Item, PauseDone(j) PROVE list'[i] = "Paused"
    BY <2>28 DEF PauseDone, Emit, ProgressOf
  <2>29. ASSUME NEW j \in Item, CancelCall(j) PROVE list'[i] = "Paused"
    BY <2>29 DEF CancelCall, Emit, ProgressOf
  <2>30. ASSUME NEW j \in Item, DeleteCall(j) PROVE list'[i] = "Paused"
    BY <2>30 DEF DeleteCall, Emit, ProgressOf
  <2>31. ASSUME NEW j \in Item, EngineProgress(j) PROVE list'[i] = "Paused"
    BY <2>31 DEF EngineProgress, Emit, ProgressOf
  <2>32. ASSUME NEW j \in Item, EngineFinish(j) PROVE list'[i] = "Paused"
    BY <2>32 DEF EngineFinish, Emit, ProgressOf
  <2>33. ASSUME NEW j \in Item, EngineError(j) PROVE list'[i] = "Paused"
    BY <2>33 DEF EngineError, Emit, ProgressOf
  <2>34. CASE UNCHANGED vars
    BY <2>34 DEF vars
  <2> QED
    BY <2>1, <2>2, <2>3, <2>4, <2>5, <2>6, <2>7, <2>8, <2>9, <2>10, <2>11, <2>12, <2>13,
       <2>14, <2>15, <2>16, <2>17, <2>18, <2>19, <2>20, <2>21, <2>22, <2>23, <2>24, <2>25,
       <2>26, <2>27, <2>28, <2>29, <2>30, <2>31, <2>32, <2>33, <2>34
    DEF Next, User, Window, Engine, Dispatch
<1>2. TypeOK /\ [Next]_vars => [PausedStep]_vars
  BY <1>1 DEF PausedStep
<1> QED
  BY ListTypeCorrect, <1>2, PTL DEF Spec, PausedStaysPaused

-----------------------------------------------------------------------------
(***************************************************************************)
(* What is shown as Downloading and what the engine does.                  *)
(***************************************************************************)

LastOf(s) == s[Len(s)]
Live(i) == batch[i].st = "Downloading"
Stopped(i) == engine[i] \in {"none", "paused"} /\ i \notin deleting /\ i \notin pausing
Broken(i) == engine[i] = "failed" /\ i \notin deleting /\ i \notin pausing

\* Something of the window is under way that will ask the engine, or set a status.
Pending(i) ==
  \/ i \in retryTimer
  \/ erring[i] # "none"
  \/ \E w \in Who : <<i, w>> \in resuming

\* The last thing on its way is that the task has stopped.
Halt(e) == e.kind = "progress" /\ e.p.st \in {"Paused", "Canceled"}
Told(i) == events[i] # <<>> /\ Halt(LastOf(events[i]))

\* Nothing is on its way, and what the window shows is no leftover.
Quiet(i) ==
  /\ events[i] = <<>>
  /\ ~Live(i)
  /\ list[i] = "Downloading" => Pending(i)

\* An item that is being deleted is gone, with its batch.
Deletions == \A i \in Item :
  /\ i \in deleting => list[i] = "gone" /\ batch[i] = NoProgress
  /\ <<"delete", i>> \in calls => i \in deleting

\* The window has been told, or will be, of every task that has stopped.
Halted == \A i \in Item : Stopped(i) => Told(i) \/ Quiet(i)

\* Failures as the events tell of them.
IsFailure(e) == e.kind \in {"error", "exhausted"}
Fault(e) == IsFailure(e) \/ (e.kind = "progress" /\ e.p.st = "Error")

\* The last of what has been appended to, and of what an event was taken from.
LEMMA Appended ==
  ASSUME NEW T, NEW s \in Seq(T), NEW e \in T
  PROVE  Append(s, e) # <<>> /\ LastOf(Append(s, e)) = e
  BY DEF LastOf

\* The last element outlives the removal of the first, unless it is the first.
LEMMA Shortened ==
  ASSUME NEW T, NEW s \in Seq(T), s # <<>>
  PROVE  IF Tail(s) = <<>> THEN LastOf(s) = Head(s) ELSE LastOf(Tail(s)) = LastOf(s)
<1>1. Len(s) \in Nat \ {0} /\ Len(Tail(s)) = Len(s) - 1
  OBVIOUS
<1>2. CASE Tail(s) = <<>>
  BY <1>1, <1>2 DEF LastOf
<1>3. CASE Tail(s) # <<>>
  <2>1. Len(Tail(s)) \in 1..(Len(s) - 1)
    BY <1>1, <1>3
  <2>2. Tail(s)[Len(Tail(s))] = s[Len(s)]
    BY <1>1, <2>1
  <2> QED
    BY <1>3, <2>2 DEF LastOf
<1> QED
  BY <1>2, <1>3

\* What a step does to the events about an item: nothing, one is taken, or one is told
\* that is no fault and that says, of a task that does not run, that it has stopped;
\* only the end of a transfer tells two.
LEMMA EventsStep ==
  ASSUME TypeOK, [Next]_vars, NEW i \in Item
  PROVE  \/ events'[i] = events[i]
         \/ /\ OnProgress(i) \/ OnError(i) \/ OnCompleted(i) \/ OnAdded(i)
            /\ events[i] # <<>> /\ events'[i] = Tail(events[i])
         \/ \E e \in Event : /\ events'[i] = Append(events[i], e)
                             /\ ~Fault(e)
                             /\ engine'[i] = "running" \/ Halt(e)
         \/ EngineFinish(i)
         \/ EngineError(i)
<1> USE DEF TypeOK, Frontend, retries, backend, bounds
<1> DEFINE Goal == \/ events'[i] = events[i]
                   \/ /\ OnProgress(i) \/ OnError(i) \/ OnCompleted(i) \/ OnAdded(i)
                      /\ events[i] # <<>> /\ events'[i] = Tail(events[i])
                   \/ \E e \in Event : /\ events'[i] = Append(events[i], e)
                                       /\ ~Fault(e)
                                       /\ engine'[i] = "running" \/ Halt(e)
                   \/ EngineFinish(i)
                   \/ EngineError(i)
<1>1. CASE User
  BY <1>1 DEF User, ResumeItem, PauseItem, CancelDownload, AddDownload, ResumeSelected,
     PauseSelected, DeleteDownloads, AddBatchDownloads, StartQueue, Started, StopQueue, StopAll
<1>2. CASE Dispatch \/ FlushTimer \/ (\E q \in Queue : BatchOver(q))
  BY <1>2 DEF Dispatch, DispatchQueueWorkers, FlushTimer, BatchOver, Started
<1>3. ASSUME NEW j \in Item,
             Released(j) \/ ResumeNext(j) \/ DeletionOver(j) \/ RetryTimer(j) \/ ErrorHandled(j)
      PROVE  events'[i] = events[i]
  BY <1>3 DEF Released, ResumeNext, DeletionOver, RetryTimer, ErrorHandled
<1>4. ASSUME NEW j \in Item, OnProgress(j) \/ OnError(j) \/ OnCompleted(j) \/ OnAdded(j)
      PROVE  Goal
  <2>1. events[j] # <<>> /\ Taken(j)
    BY <1>4 DEF OnProgress, OnError, OnCompleted, OnAdded, Arrives
  <2> QED
    BY <1>4, <2>1 DEF Taken
<1>5. ASSUME NEW j \in Item, NEW w \in Who, Accepted(j, w) PROVE Goal
  <2>1. [kind |-> "added"] \in Event /\ ~Fault([kind |-> "added"])
    BY Telling DEF Fault, IsFailure
  <2>2. CASE UNCHANGED <<engine, events>>
    BY <2>2
  <2>3. CASE /\ engine' = [engine EXCEPT ![j] = "running"]
             /\ events' = [events EXCEPT ![j] = Append(@, [kind |-> "added"])]
    BY <2>1, <2>3
  <2> QED
    BY <1>5, <2>2, <2>3 DEF Accepted
<1>6. ASSUME NEW j \in Item, NEW w \in Who, Refused(j, w) PROVE Goal
  BY <1>6 DEF Refused
<1>7. ASSUME PauseAllCall \/ \E j \in Item : PauseCall(j)
      PROVE  events' = events
  BY <1>7 DEF PauseAllCall, PauseCall, EnginePause
<1>8. ASSUME NEW j \in Item, NEW e \in Event, Emit(j, <<e>>), ~Fault(e),
             engine'[j] = "running" \/ Halt(e)
      PROVE  Goal
  <2>1. events[j] \o <<e>> = Append(events[j], e)
    OBVIOUS
  <2> QED
    BY <1>8, <2>1 DEF Emit
<1>9. \A st \in {"Paused", "Canceled", "Downloading"}, whole \in BOOLEAN :
        /\ ProgressOf(st, whole) \in Event
        /\ ~Fault(ProgressOf(st, whole))
        /\ st # "Downloading" => Halt(ProgressOf(st, whole))
  BY Telling DEF ProgressOf, Fault, IsFailure, Halt, Status
<1>10. ASSUME NEW j \in Item, PauseDone(j) \/ CancelCall(j) \/ DeleteCall(j) \/ EngineProgress(j)
       PROVE  Goal
  <2>1. CASE PauseDone(j)
    BY <1>8, <1>9, <2>1 DEF PauseDone
  <2>2. CASE CancelCall(j)
    BY <1>8, <1>9, <2>2 DEF CancelCall
  <2>3. CASE DeleteCall(j)
    BY <1>8, <1>9, <2>3 DEF DeleteCall
  <2>4. CASE EngineProgress(j)
    BY <1>8, <1>9, <2>4 DEF EngineProgress
  <2> QED
    BY <1>10, <2>1, <2>2, <2>3, <2>4
<1>11. ASSUME NEW j \in Item, EngineFinish(j) \/ EngineError(j)
       PROVE  Goal
  <2>1. CASE j = i
    BY <1>11, <2>1
  <2>2. CASE j # i
    BY <1>11, <2>2 DEF EngineFinish, EngineError, Emit
  <2> QED
    BY <2>1, <2>2
<1>12. CASE UNCHANGED vars
  BY <1>12 DEF vars
<1> QED
  BY <1>1, <1>2, <1>3, <1>4, <1>5, <1>6, <1>7, <1>10, <1>11, <1>12 DEF Next, Window, Engine

\* Progress enters the batch with its event only; every other step keeps or drops it.
LEMMA BatchStep ==
  ASSUME TypeOK, [Next]_vars, NEW i \in Item
  PROVE  batch'[i] = batch[i] \/ batch'[i] = NoProgress \/ OnProgress(i)
<1> USE DEF TypeOK, Frontend, retries, backend, bounds
<1>1. CASE User
  BY <1>1 DEF User, ResumeItem, PauseItem, CancelDownload, AddDownload, ResumeSelected,
     PauseSelected, DeleteDownloads, AddBatchDownloads, StartQueue, Started, StopQueue, StopAll
<1>2. CASE Dispatch \/ FlushTimer \/ (\E q \in Queue : BatchOver(q))
  BY <1>2 DEF Dispatch, DispatchQueueWorkers, FlushTimer, BatchOver, Started, Flush, NoBatch
<1>3. ASSUME NEW j \in Item,
             \/ Released(j) \/ ResumeNext(j) \/ DeletionOver(j) \/ RetryTimer(j)
             \/ OnError(j) \/ ErrorHandled(j) \/ OnCompleted(j) \/ OnAdded(j)
             \/ \E w \in Who : Accepted(j, w) \/ Refused(j, w)
      PROVE  batch' = batch
  BY <1>3 DEF Released, ResumeNext, DeletionOver, RetryTimer, OnError, ErrorHandled,
     OnCompleted, OnAdded, Accepted, Refused
<1>4. ASSUME NEW j \in Item, OnProgress(j), j # i
      PROVE  batch'[i] = batch[i] \/ batch'[i] = NoProgress
  BY <1>4 DEF OnProgress, Flush, NoBatch
<1>5. CASE Engine
  BY <1>5 DEF Engine, PauseAllCall, PauseCall, EnginePause, PauseDone, CancelCall, DeleteCall,
     EngineProgress, EngineFinish, EngineError
<1>6. CASE UNCHANGED vars
  BY <1>6 DEF vars
<1> QED
  BY <1>1, <1>2, <1>3, <1>4, <1>5, <1>6 DEF Next, Window

\* No step but an event's makes the window show as Downloading what neither runs nor is
\* about to be asked for.
LEMMA ShownStep ==
  ASSUME TypeOK, Deletions, [Next]_vars, NEW i \in Item,
         Quiet(i), engine[i] \notin {"running", "finished"},
         list'[i] = "Downloading", engine'[i] # "running"
  PROVE  Pending(i)'
<1> USE DEF TypeOK, Absent, In, Put, Pending, Quiet, Live, Frontend, retries, backend, bounds
<1>1. ASSUME NEW j \in Handled, ResumeItem(j) PROVE Pending(i)'
  BY <1>1 DEF ResumeItem, Command, Resume, Found, ClearRetries, Who
<1>2. ASSUME NEW j \in Handled, PauseItem(j) PROVE Pending(i)'
  BY <1>2 DEF PauseItem, Command, Pause, ClearRetries
<1>3. ASSUME NEW j \in Handled, CancelDownload(j) PROVE Pending(i)'
  BY <1>3 DEF CancelDownload, Command
<1>4. ASSUME NEW j \in Handled, AddDownload(j) PROVE Pending(i)'
  BY <1>4 DEF AddDownload, Command, Who
<1>5. ASSUME NEW S \in SUBSET Handled, ResumeSelected(S) PROVE Pending(i)'
  BY <1>5 DEF ResumeSelected, Command, Resume, Found, ClearRetries, Who
<1>6. ASSUME NEW S \in SUBSET Handled, PauseSelected(S) PROVE Pending(i)'
  BY <1>6 DEF PauseSelected, Command, Pause, ClearRetries
<1>7. ASSUME NEW S \in SUBSET Handled, DeleteDownloads(S) PROVE Pending(i)'
  BY <1>7 DEF DeleteDownloads, Command, ClearRetries
<1>8. ASSUME NEW S \in SUBSET Handled, NEW start \in BOOLEAN, AddBatchDownloads(S, start)
      PROVE  Pending(i)'
  BY <1>8 DEF AddBatchDownloads, Command, Who
<1>9. ASSUME NEW q \in Queue, StartQueue(q) \/ BatchOver(q) PROVE Pending(i)'
  <2>1. Started(q)
    BY <1>9 DEF StartQueue, BatchOver
  <2>2. list[i] = "Downloading"
    BY <2>1 DEF Started
  <2> QED
    BY <2>1, <2>2 DEF Started
<1>10. ASSUME NEW q \in Queue, StopQueue(q) PROVE Pending(i)'
  BY <1>10 DEF StopQueue, Command, Of, Active
<1>11. CASE StopAll
  BY <1>11 DEF StopAll, Command, ClearRetries, Active
<1>12. ASSUME NEW target \in {Queue} \cup {{q} : q \in Queue}, DispatchQueueWorkers(target)
       PROVE  Pending(i)'
  BY <1>12 DEF DispatchQueueWorkers, Resume, Found, ClearRetries, Picks, Waiting, Of, Who
<1>13. CASE FlushTimer
  BY <1>13 DEF FlushTimer, Flush, Flushed, Updated, Discovered, NoBatch
<1>14. ASSUME NEW j \in Item, Released(j) \/ DeletionOver(j) PROVE Pending(i)'
  BY <1>14 DEF Released, DeletionOver
<1>15. ASSUME NEW j \in Item, ResumeNext(j) PROVE Pending(i)'
  BY <1>15 DEF ResumeNext, Resume, Found, ClearRetries, Who
<1>16. ASSUME NEW j \in Item, RetryTimer(j) PROVE Pending(i)'
  BY <1>16 DEF RetryTimer, Deletions, Who
<1>17. ASSUME NEW j \in Item, OnProgress(j) PROVE Pending(i)'
  <2>1. j # i
    BY <1>17 DEF OnProgress, Arrives
  <2> QED
    BY <1>17, <2>1 DEF OnProgress, SettlesRetries, ClearRetries, Flush, Flushed, Updated, Discovered, NoBatch
<1>18. ASSUME NEW j \in Item, OnError(j) PROVE Pending(i)'
  BY <1>18 DEF OnError, Arrives
<1>19. ASSUME NEW j \in Item, ErrorHandled(j) PROVE Pending(i)'
  <2>1. CASE j # i
    <3>1. erring'[i] = erring[i] /\ list'[i] = list[i] /\ resuming' = resuming
      BY <1>19, <2>1 DEF ErrorHandled
    <3>2. i \in retryTimer => i \in retryTimer'
      BY <1>19, <2>1 DEF ErrorHandled
    <3> QED
      BY <3>1, <3>2
  <2>2. CASE j = i
    BY <1>19, <2>2 DEF ErrorHandled
  <2> QED
    BY <2>1, <2>2
<1>20. ASSUME NEW j \in Item, OnCompleted(j) \/ OnAdded(j) PROVE Pending(i)'
  BY <1>20 DEF OnCompleted, OnAdded, Arrives
<1>21. ASSUME NEW j \in Item, NEW w \in Who, Accepted(j, w) PROVE Pending(i)'
  BY <1>21 DEF Accepted
<1>22. ASSUME NEW j \in Item, NEW w \in Who, Refused(j, w) PROVE Pending(i)'
  BY <1>22 DEF Refused
<1>23. CASE Engine
  BY <1>23 DEF Engine, PauseAllCall, PauseCall, EnginePause, PauseDone, CancelCall, DeleteCall,
     EngineProgress, EngineFinish, EngineError
<1>24. CASE UNCHANGED vars
  BY <1>24 DEF vars
<1> QED
  BY <1>1, <1>2, <1>3, <1>4, <1>5, <1>6, <1>7, <1>8, <1>9, <1>10, <1>11, <1>12, <1>13, <1>14,
     <1>15, <1>16, <1>17, <1>18, <1>19, <1>20, <1>21, <1>22, <1>23, <1>24
  DEF Next, User, Window, Dispatch

\* Nothing brings back, or gathers progress for, an item that is being deleted, and
\* every deletion the engine has to make is remembered by the window.
LEMMA DeletionsStep ==
  ASSUME TypeOK, Deletions, [Next]_vars, NEW i \in Item
  PROVE  /\ (i \in deleting => list[i] = "gone" /\ batch[i] = NoProgress)'
         /\ (<<"delete", i>> \in calls => i \in deleting)'
<1> USE DEF TypeOK, Absent, In, Put, Deletions, Frontend, retries, backend, bounds
<1> DEFINE Goal == /\ (i \in deleting => list[i] = "gone" /\ batch[i] = NoProgress)'
                   /\ (<<"delete", i>> \in calls => i \in deleting)'
<1>1. ASSUME NEW j \in Handled,
             ResumeItem(j) \/ PauseItem(j) \/ CancelDownload(j) \/ AddDownload(j)
      PROVE  Goal
  BY <1>1 DEF ResumeItem, PauseItem, CancelDownload, AddDownload, Command, Resume, Found,
     ClearRetries, Pause
<1>2. ASSUME NEW S \in SUBSET Handled, ResumeSelected(S) \/ PauseSelected(S)
      PROVE  Goal
  BY <1>2 DEF ResumeSelected, PauseSelected, Command, Resume, Found, ClearRetries, Pause
<1>3. ASSUME NEW S \in SUBSET Handled, DeleteDownloads(S)
      PROVE  Goal
  BY <1>3 DEF DeleteDownloads, Command, ClearRetries
<1>4. ASSUME NEW S \in SUBSET Handled, NEW start \in BOOLEAN, AddBatchDownloads(S, start)
      PROVE  Goal
  BY <1>4 DEF AddBatchDownloads, Command
<1>5. ASSUME NEW q \in Queue, StartQueue(q) \/ BatchOver(q) \/ StopQueue(q)
      PROVE  Goal
  BY <1>5 DEF StartQueue, BatchOver, StopQueue, Command, Started, Of, Active
<1>6. CASE StopAll
  BY <1>6 DEF StopAll, Command, ClearRetries, Active
<1>7. ASSUME NEW target \in {Queue} \cup {{q} : q \in Queue}, DispatchQueueWorkers(target)
      PROVE  Goal
  BY <1>7 DEF DispatchQueueWorkers, Resume, Found, ClearRetries
<1>8. CASE FlushTimer
  BY <1>8 DEF FlushTimer, Flush, Flushed, NoBatch
<1>9. ASSUME NEW j \in Item, OnProgress(j) PROVE Goal
  BY <1>9 DEF OnProgress, Flush, Flushed, NoBatch
<1>10. ASSUME NEW j \in Item,
              \/ Released(j) \/ ResumeNext(j) \/ DeletionOver(j) \/ RetryTimer(j)
              \/ OnError(j) \/ ErrorHandled(j) \/ OnCompleted(j) \/ OnAdded(j)
              \/ \E w \in Who : Accepted(j, w) \/ Refused(j, w)
       PROVE  Goal
  <2>1. calls' = calls /\ batch' = batch
    BY <1>10 DEF Released, ResumeNext, DeletionOver, RetryTimer, OnError, ErrorHandled,
       OnCompleted, OnAdded, Accepted, Refused
  <2>2. i \in deleting' => i \in deleting
    BY <1>10 DEF Released, ResumeNext, DeletionOver, RetryTimer, OnError, ErrorHandled,
       OnCompleted, OnAdded, Accepted, Refused
  <2>3. <<"delete", i>> \in calls => (i \in deleting => i \in deleting')
    BY <1>10 DEF Released, ResumeNext, DeletionOver, RetryTimer, OnError, ErrorHandled,
       OnCompleted, OnAdded, Accepted, Refused
  <2>4. i \in deleting => list'[i] = list[i]
    <3>1. CASE Released(j) \/ ResumeNext(j) \/ DeletionOver(j) \/ RetryTimer(j)
      BY <3>1 DEF Released, ResumeNext, Resume, Found, DeletionOver, RetryTimer
    <3>2. CASE OnError(j) \/ OnCompleted(j) \/ OnAdded(j)
      BY <3>2 DEF OnError, OnCompleted, OnAdded
    <3>3. CASE ErrorHandled(j)
      BY <3>3 DEF ErrorHandled
    <3>4. CASE \E w \in Who : Accepted(j, w) \/ Refused(j, w)
      BY <3>4 DEF Accepted, Refused
    <3> QED
      BY <1>10, <3>1, <3>2, <3>3, <3>4
  <2> QED
    BY <2>1, <2>2, <2>3, <2>4
<1>11. CASE Engine
  BY <1>11 DEF Engine, PauseAllCall, PauseCall, EnginePause, PauseDone, CancelCall, DeleteCall,
     EngineProgress, EngineFinish, EngineError
<1>12. CASE UNCHANGED vars
  BY <1>12 DEF vars
<1> QED
  BY <1>1, <1>2, <1>3, <1>4, <1>5, <1>6, <1>7, <1>8, <1>9, <1>10, <1>11, <1>12
  DEF Next, User, Window, Dispatch

\* A task comes to stand still by a pause whose workers have ended, by a cancellation,
\* which is told, or by the end of a deletion with nothing left to tell.
LEMMA StopStep ==
  ASSUME TypeOK, Deletions, [Next]_vars, NEW i \in Item,
         Stopped(i)' \/ Broken(i)'
  PROVE  \/ Stopped(i)' /\ Stopped(i)
         \/ Broken(i)' /\ Broken(i)
         \/ Told(i)'
         \/ Quiet(i)'
         \/ EngineError(i)
<1> USE DEF TypeOK, Frontend, retries, backend, bounds, Stopped, Broken
<1> DEFINE Goal == \/ Stopped(i)' /\ Stopped(i)
                   \/ Broken(i)' /\ Broken(i)
                   \/ Told(i)'
                   \/ Quiet(i)'
                   \/ EngineError(i)
<1>1. CASE User
  BY <1>1 DEF User, ResumeItem, PauseItem, CancelDownload, AddDownload, ResumeSelected,
     PauseSelected, DeleteDownloads, AddBatchDownloads, StartQueue, Started, StopQueue, StopAll
<1>2. CASE Dispatch \/ FlushTimer \/ (\E q \in Queue : BatchOver(q))
  BY <1>2 DEF Dispatch, DispatchQueueWorkers, FlushTimer, BatchOver, Started
<1>3. ASSUME NEW j \in Item,
             \/ Released(j) \/ ResumeNext(j) \/ RetryTimer(j) \/ OnProgress(j) \/ OnError(j)
             \/ ErrorHandled(j) \/ OnCompleted(j) \/ OnAdded(j)
             \/ \E w \in Who : Accepted(j, w) \/ Refused(j, w)
      PROVE  Goal
  BY <1>3 DEF Released, ResumeNext, RetryTimer, OnProgress, OnError, ErrorHandled, OnCompleted,
     OnAdded, Accepted, Refused
<1>4. ASSUME NEW j \in Item, DeletionOver(j) PROVE Goal
  <2>1. CASE j = i
    BY <1>4, <2>1 DEF DeletionOver, Deletions, Quiet, Live, NoProgress
  <2>2. CASE j # i
    BY <1>4, <2>2 DEF DeletionOver
  <2> QED
    BY <2>1, <2>2
<1>5. CASE PauseAllCall \/ \E j \in Item : PauseCall(j)
  BY <1>5 DEF PauseAllCall, PauseCall, EnginePause
<1>6. ASSUME NEW j \in Item, NEW e \in Event, Emit(j, <<e>>), Halt(e), j = i
      PROVE  Told(i)'
  <2>1. events'[i] = Append(events[i], e)
    BY <1>6 DEF Emit
  <2>2. /\ Append(events[i], e) # <<>>
        /\ LastOf(Append(events[i], e)) = e
    BY <1>6, Appended
  <2> QED
    BY <1>6, <2>1, <2>2 DEF Told
<1>7. \A st \in {"Paused", "Canceled"}, whole \in BOOLEAN :
        ProgressOf(st, whole) \in Event /\ Halt(ProgressOf(st, whole))
  BY Telling DEF ProgressOf, Halt, Status
<1>8. ASSUME NEW j \in Item, PauseDone(j) PROVE Goal
  <2>1. CASE j = i
    BY <1>6, <1>7, <1>8, <2>1 DEF PauseDone
  <2>2. CASE j # i
    BY <1>8, <2>2 DEF PauseDone
  <2> QED
    BY <2>1, <2>2
<1>9. ASSUME NEW j \in Item, CancelCall(j) PROVE Goal
  <2>1. CASE j = i /\ engine[i] # "finished"
    BY <1>6, <1>7, <1>9, <2>1 DEF CancelCall
  <2>2. CASE j # i \/ engine[i] = "finished"
    BY <1>9, <2>2 DEF CancelCall
  <2> QED
    BY <2>1, <2>2
<1>10. ASSUME NEW j \in Item, DeleteCall(j) PROVE Goal
  <2>1. CASE j = i
    BY <1>10, <2>1 DEF DeleteCall, Deletions
  <2>2. CASE j # i
    BY <1>10, <2>2 DEF DeleteCall
  <2> QED
    BY <2>1, <2>2
<1>11. ASSUME NEW j \in Item, EngineProgress(j) \/ EngineFinish(j) \/ EngineError(j) PROVE Goal
  BY <1>11 DEF EngineProgress, EngineFinish, EngineError
<1>12. CASE UNCHANGED vars
  BY <1>12 DEF vars
<1> QED
  BY <1>1, <1>2, <1>3, <1>4, <1>5, <1>8, <1>9, <1>10, <1>11, <1>12 DEF Next, Window, Engine

\* Taking the word of a stop: what was gathered is flushed and the item is not shown as
\* Downloading.
LEMMA StopTaken ==
  ASSUME TypeOK, NEW i \in Item, OnProgress(i), Halt(Head(events[i])), i \notin deleting
  PROVE  batch' = NoBatch /\ list'[i] # "Downloading"
<1> DEFINE p == Head(events[i]).p
<1> DEFINE b == [batch EXCEPT ![i] = p]
<1>1. p.st \in {"Paused", "Canceled"}
  BY DEF Halt
<1>2. Flush(b)
  BY <1>1 DEF OnProgress
<1>3. list'[i] = Flushed(b)[i] /\ batch' = NoBatch
  BY <1>2 DEF Flush
<1>4. b[i] = p
  BY DEF TypeOK
<1>5. Updated(i, p) # "Downloading" /\ Discovered(i, p) = list[i]
  BY <1>1 DEF Updated, Discovered
<1>6. ~In(i) => list[i] # "Downloading"
  BY DEF In, Absent
<1>7. p # NoProgress
  BY <1>1 DEF NoProgress
<1>8. Flushed(b)[i] = IF In(i) THEN Updated(i, p) ELSE list[i]
  <2> HIDE DEF p
  <2> QED
    BY <1>4, <1>5, <1>7 DEF Flushed
<1> QED
  BY <1>3, <1>5, <1>6, <1>8

\* While a task stands still, what the window will be told is kept to its end, and from
\* then on nothing but a request to the engine shows the item as Downloading.
LEMMA ToldOrQuiet ==
  ASSUME TypeOK, Deletions, [Next]_vars, NEW i \in Item,
         Told(i) \/ Quiet(i), i \notin deleting,
         engine[i] \notin {"running", "finished"}, engine'[i] # "running"
  PROVE  Told(i)' \/ Quiet(i)'
<1>1. events[i] \in Seq(Event)
  BY DEF TypeOK
<1>2. ~EngineFinish(i) /\ ~EngineError(i)
  BY DEF EngineFinish, EngineError
<1>3. \A e \in Event : Halt(e) /\ events'[i] = Append(events[i], e) => Told(i)'
  BY <1>1, Appended DEF Told
<1>4. CASE Told(i)
  <2>1. CASE events'[i] = events[i]
    BY <1>4, <2>1 DEF Told
  <2>2. CASE events'[i] = Tail(events[i]) /\ Tail(events[i]) # <<>>
    BY <1>1, <1>4, <2>2, Shortened DEF Told
  <2>3. CASE /\ OnProgress(i) \/ OnError(i) \/ OnCompleted(i) \/ OnAdded(i)
             /\ events'[i] = Tail(events[i]) /\ Tail(events[i]) = <<>>
    <3>1. Halt(Head(events[i])) /\ events[i] # <<>>
      BY <1>1, <1>4, <2>3, Shortened DEF Told
    <3>2. OnProgress(i)
      BY <2>3, <3>1 DEF Halt, OnError, OnCompleted, OnAdded, Arrives
    <3>3. batch' = NoBatch /\ list'[i] # "Downloading"
      BY <3>1, <3>2, StopTaken
    <3>4. ~Live(i)'
      BY <3>3 DEF Live, NoBatch, NoProgress
    <3> QED
      BY <2>3, <3>3, <3>4 DEF Quiet
  <2> QED
    BY <1>2, <1>3, <2>1, <2>2, <2>3, EventsStep
<1>5. CASE Quiet(i)
  <2>1. events'[i] = <<>> \/ Told(i)'
    BY <1>2, <1>3, <1>5, EventsStep DEF Quiet
  <2>2. ~OnProgress(i)
    BY <1>5 DEF Quiet, OnProgress, Arrives
  <2>3. ~Live(i)'
    BY <1>5, <2>2, BatchStep DEF Quiet, Live, NoProgress
  <2>4. list'[i] = "Downloading" => Pending(i)'
    BY <1>5, ShownStep
  <2> QED
    BY <2>1, <2>3, <2>4 DEF Quiet
<1> QED
  BY <1>4, <1>5

\* A row that nothing moves is not shown as Downloading while its task is paused,
\* cancelled or unknown to the engine: for any number of items, commands and failures.
ShownIsNotStopped == \A i \in Item :
  Settled(i) /\ list[i] = "Downloading" => engine[i] \in {"running", "finished", "failed"}

\* Whatever the list shows when nothing moves an item, it never shows a download under
\* way that was stopped: every path that stops the task tells the row, or is asked to.
THEOREM StoppedIsShown == Spec => []ShownIsNotStopped
<1>1. Init => Deletions /\ Halted
  BY DEF Init, Deletions, Halted, Stopped, Quiet, Live, NoProgress
<1>2. TypeOK /\ Deletions /\ Halted /\ [Next]_vars => Deletions' /\ Halted'
  <2> SUFFICES ASSUME TypeOK, Deletions, Halted, [Next]_vars
               PROVE  Deletions' /\ Halted'
    OBVIOUS
  <2>1. Deletions'
    BY DeletionsStep DEF Deletions
  <2>2. ASSUME NEW i \in Item, Stopped(i)' PROVE Told(i)' \/ Quiet(i)'
    <3>1. ~EngineError(i) /\ ~Broken(i)'
      BY <2>2 DEF EngineError, Stopped, Broken, TypeOK
    <3>2. CASE Stopped(i)
      BY <2>2, <3>2, ToldOrQuiet DEF Halted, Stopped
    <3> QED
      BY <2>2, <3>1, <3>2, StopStep
  <2> QED
    BY <2>1, <2>2 DEF Halted
<1>3. TypeOK /\ Deletions /\ Halted => ShownIsNotStopped
  BY DEF TypeOK, Deletions, Halted, ShownIsNotStopped, Settled, Stopped, Told, Quiet, Pending
<1> QED
  BY <1>1, <1>2, <1>3, ListTypeCorrect, PTL DEF Spec
-----------------------------------------------------------------------------
(***************************************************************************)
(* Failures.  From a second failure on the above is all that can be said:  *)
(* the window ignores what it is told of a failure while a retry timer     *)
(* runs, and a timer that the failure before has set may then show the     *)
(* item again.  Up to one failure an item shown as Downloading is          *)
(* downloaded.                                                             *)
(***************************************************************************)

Clean(s) == \A k \in 1..Len(s) : ~Fault(s[k])
LastFault(s) == \A k, m \in 1..Len(s) : IsFailure(s[k]) /\ k < m => ~Fault(s[m])
Retrying(i) == i \in retryTimer \/ erring[i] # "none"

\* A failure is retried only when all of it has been taken.
Failures == \A i \in Item :
  /\ errors = 0 => Clean(events[i]) /\ ~Retrying(i)
  /\ Retrying(i) => Clean(events[i])
  /\ LastFault(events[i])

\* The failure of a task is on its way as two events, of which the first, an Error of
\* the progress, drops what was gathered before.
Failing(i) ==
  /\ events[i] # <<>> /\ IsFailure(LastOf(events[i]))
  /\ IF Len(events[i]) = 1 THEN ~Live(i)
     ELSE LET e == events[i][Len(events[i]) - 1] IN Fault(e) /\ ~IsFailure(e)

Failed == \A i \in Item : Broken(i) => Told(i) \/ Quiet(i) \/ Failing(i)

\* Faults in what is left when an event is taken, and in what is appended to.
LEMMA FaultsTaken ==
  ASSUME NEW s \in Seq(Event), s # <<>>
  PROVE  /\ Clean(s) => ~Fault(Head(s)) /\ Clean(Tail(s))
         /\ LastFault(s) => LastFault(Tail(s))
         /\ LastFault(s) /\ IsFailure(Head(s)) => Clean(Tail(s))
<1>1. /\ Len(s) \in Nat \ {0} /\ Len(Tail(s)) = Len(s) - 1 /\ Head(s) = s[1]
      /\ \A k \in 1..Len(Tail(s)) : Tail(s)[k] = s[k + 1]
  OBVIOUS
<1>2. \A k \in 1..Len(Tail(s)) : k + 1 \in 1..Len(s) /\ 1 < k + 1
  BY <1>1
<1>3. 1 \in 1..Len(s)
  BY <1>1
<1>4. Clean(s) => ~Fault(Head(s)) /\ Clean(Tail(s))
  BY <1>1, <1>2, <1>3 DEF Clean
<1>5. LastFault(s) => LastFault(Tail(s))
  BY <1>1, <1>2 DEF LastFault
<1>6. LastFault(s) /\ IsFailure(Head(s)) => Clean(Tail(s))
  BY <1>1, <1>2, <1>3 DEF LastFault, Clean
<1> QED
  BY <1>4, <1>5, <1>6

\* A queue without faults takes one more; after a fault only what is none may follow.
LEMMA FaultsAppended ==
  ASSUME NEW s \in Seq(Event), NEW e \in Event
  PROVE  /\ Clean(s) /\ ~Fault(e) => Clean(Append(s, e))
         /\ LastFault(s) /\ ~Fault(e) => LastFault(Append(s, e))
         /\ Clean(s) => LastFault(Append(s, e))
<1>1. /\ Len(s) \in Nat /\ Len(Append(s, e)) = Len(s) + 1
      /\ \A k \in 1..Len(s) : Append(s, e)[k] = s[k]
      /\ Append(s, e)[Len(s) + 1] = e
  OBVIOUS
<1>2. \A k \in 1..Len(Append(s, e)) : k \in 1..Len(s) \/ k = Len(s) + 1
  BY <1>1
<1>3. \A k, m \in 1..Len(Append(s, e)) : k < m => k \in 1..Len(s)
  BY <1>1
<1>4. Clean(s) => \A k \in 1..Len(s) : ~IsFailure(s[k])
  BY DEF Clean, Fault
<1> QED
  BY <1>1, <1>2, <1>3, <1>4 DEF Clean, LastFault

\* The two events of a transfer's end.
LEMMA EndTold ==
  ASSUME TypeOK, NEW i \in Item, EngineFinish(i) \/ EngineError(i)
  PROVE  \E e, f \in Event :
           /\ events'[i] = Append(Append(events[i], e), f)
           /\ ~IsFailure(e)
           /\ EngineFinish(i) => ~Fault(e) /\ ~Fault(f)
           /\ EngineError(i) => Fault(e) /\ IsFailure(f)
<1>1. \A e, f \in Event : events[i] \o <<e, f>> = Append(Append(events[i], e), f)
  BY DEF TypeOK
<1>2. ~(EngineFinish(i) /\ EngineError(i))
  BY DEF EngineFinish, EngineError, TypeOK
<1>3. CASE EngineFinish(i)
  <2> DEFINE e == ProgressOf("Finished", TRUE)
             f == [kind |-> "completed"]
  <2>1. e \in Event /\ f \in Event
    BY Telling DEF Status
  <2>2. ~IsFailure(e) /\ ~Fault(e) /\ ~Fault(f)
    BY DEF ProgressOf, IsFailure, Fault
  <2>3. events'[i] = events[i] \o <<e, f>>
    BY <1>3 DEF EngineFinish, Emit, TypeOK
  <2> QED
    BY <1>1, <1>2, <1>3, <2>1, <2>2, <2>3
<1>4. CASE EngineError(i)
  <2>1. PICK whole \in BOOLEAN, kind \in {"error", "exhausted"} :
          Emit(i, <<ProgressOf("Error", whole), [kind |-> kind]>>)
    BY <1>4 DEF EngineError
  <2> DEFINE e == ProgressOf("Error", whole)
             f == [kind |-> kind]
  <2>2. e \in Event /\ f \in Event
    BY Telling DEF Status
  <2>3. ~IsFailure(e) /\ Fault(e) /\ IsFailure(f)
    BY DEF ProgressOf, IsFailure, Fault
  <2>4. events'[i] = events[i] \o <<e, f>>
    BY <2>1 DEF Emit, TypeOK
  <2> QED
    BY <1>1, <1>2, <1>4, <2>2, <2>3, <2>4
<1> QED
  BY <1>3, <1>4

\* Retries begin when the listener takes a failure.
LEMMA RetryStep ==
  ASSUME TypeOK, [Next]_vars, NEW i \in Item, Retrying(i)'
  PROVE  Retrying(i) \/ OnError(i)
<1> USE DEF TypeOK, Frontend, retries, backend, bounds, Retrying
<1>1. CASE User
  BY <1>1 DEF User, ResumeItem, PauseItem, CancelDownload, AddDownload, ResumeSelected, Resume,
     ClearRetries, Pause, PauseSelected, DeleteDownloads, AddBatchDownloads, StartQueue, Started,
     StopQueue, StopAll
<1>2. CASE Dispatch \/ FlushTimer \/ (\E q \in Queue : BatchOver(q))
  BY <1>2 DEF Dispatch, DispatchQueueWorkers, Resume, ClearRetries, FlushTimer, BatchOver, Started
<1>3. ASSUME NEW j \in Item,
             \/ Released(j) \/ ResumeNext(j) \/ DeletionOver(j) \/ RetryTimer(j)
             \/ OnCompleted(j) \/ OnAdded(j)
             \/ \E w \in Who : Accepted(j, w) \/ Refused(j, w)
      PROVE  Retrying(i)
  BY <1>3 DEF Released, ResumeNext, Resume, ClearRetries, DeletionOver, RetryTimer, OnCompleted,
     OnAdded, Accepted, Refused
<1>4. ASSUME NEW j \in Item, OnProgress(j) PROVE Retrying(i)
  BY <1>4 DEF OnProgress, ClearRetries
<1>5. ASSUME NEW j \in Item, OnError(j), j # i PROVE Retrying(i)
  BY <1>5 DEF OnError
<1>6. ASSUME NEW j \in Item, ErrorHandled(j) PROVE Retrying(i)
  BY <1>6 DEF ErrorHandled
<1>7. CASE Engine
  BY <1>7 DEF Engine, PauseAllCall, PauseCall, EnginePause, PauseDone, CancelCall, DeleteCall,
     EngineProgress, EngineFinish, EngineError
<1>8. CASE UNCHANGED vars
  BY <1>8 DEF vars
<1> QED
  BY <1>1, <1>2, <1>3, <1>4, <1>5, <1>6, <1>7, <1>8 DEF Next, Window

\* Failures are counted.
LEMMA ErrorsStep ==
  ASSUME TypeOK, [Next]_vars
  PROVE  errors' = errors \/ (errors' = errors + 1 /\ errors < MaxErrors)
<1> USE DEF TypeOK, Frontend, retries, backend, bounds
<1>1. CASE User
  BY <1>1 DEF User, Command, ResumeItem, PauseItem, CancelDownload, AddDownload, ResumeSelected,
     PauseSelected, DeleteDownloads, AddBatchDownloads, StartQueue, StopQueue, StopAll
<1>2. CASE Window
  BY <1>2 DEF Window, Dispatch, DispatchQueueWorkers, FlushTimer, BatchOver, Released, ResumeNext,
     DeletionOver, RetryTimer, OnProgress, OnError, ErrorHandled, OnCompleted, OnAdded, Accepted,
     Refused
<1>3. CASE Engine
  BY <1>3 DEF Engine, PauseAllCall, PauseCall, EnginePause, PauseDone, CancelCall, DeleteCall,
     EngineProgress, EngineFinish, EngineError
<1>4. CASE UNCHANGED vars
  BY <1>4 DEF vars
<1> QED
  BY <1>1, <1>2, <1>3, <1>4 DEF Next

\* Of one failure at most nothing is left on its way when it is retried.
LEMMA FailuresStep ==
  ASSUME MaxErrors <= 1, TypeOK, Failures, [Next]_vars
  PROVE  Failures'
<1> SUFFICES ASSUME NEW i \in Item
             PROVE  /\ errors' = 0 => Clean(events'[i]) /\ ~Retrying(i)'
                    /\ Retrying(i)' => Clean(events'[i])
                    /\ LastFault(events'[i])
  BY DEF Failures
<1> DEFINE s == events[i]
<1>1. s \in Seq(Event) /\ errors \in Nat /\ MaxErrors \in Nat
  BY ListAssumption DEF TypeOK
<1>2. /\ errors = 0 => Clean(s) /\ ~Retrying(i)
      /\ Retrying(i) => Clean(s)
      /\ LastFault(s)
  BY DEF Failures
<1>3. CASE EngineError(i)
  <2>1. errors = 0 /\ errors' # 0
    BY <1>1, <1>3 DEF EngineError
  <2>2. PICK e, f \in Event : s' = Append(Append(s, e), f) /\ ~IsFailure(e)
    BY <1>3, EndTold
  <2>3. ~Retrying(i)'
    BY <1>2, <1>3, <2>1 DEF EngineError, Frontend, retries, Retrying
  <2>4. LastFault(Append(Append(s, e), f))
    <3> DEFINE r == Append(Append(s, e), f)
    <3>1. /\ Len(s) \in Nat /\ Len(r) = Len(s) + 2
          /\ \A k \in 1..Len(s) : r[k] = s[k]
          /\ r[Len(s) + 1] = e
      BY <1>1
    <3>2. \A k, m \in 1..Len(r) : k < m => k \in 1..Len(s) \/ k = Len(s) + 1
      BY <3>1
    <3>3. \A k \in 1..Len(s) : ~IsFailure(s[k])
      BY <1>2, <2>1 DEF Clean, Fault
    <3> QED
      BY <2>2, <3>1, <3>2, <3>3 DEF LastFault
  <2> QED
    BY <2>1, <2>2, <2>3, <2>4
<1>4. CASE ~EngineError(i)
  <2>1. Clean(s) => Clean(s')
    <3>1. CASE EngineFinish(i)
      <4>1. PICK e, f \in Event : s' = Append(Append(s, e), f) /\ ~Fault(e) /\ ~Fault(f)
        BY <3>1, EndTold
      <4>2. Append(s, e) \in Seq(Event)
        BY <1>1
      <4> QED
        BY <1>1, <4>1, <4>2, FaultsAppended
    <3> QED
      BY <1>1, <1>4, <3>1, EventsStep, FaultsTaken, FaultsAppended
  <2>2. LastFault(s')
    <3>1. CASE EngineFinish(i)
      <4>1. PICK e, f \in Event : s' = Append(Append(s, e), f) /\ ~Fault(e) /\ ~Fault(f)
        BY <3>1, EndTold
      <4>2. Append(s, e) \in Seq(Event)
        BY <1>1
      <4> QED
        BY <1>1, <1>2, <4>1, <4>2, FaultsAppended
    <3> QED
      BY <1>1, <1>2, <1>4, <3>1, EventsStep, FaultsTaken, FaultsAppended
  <2>3. OnError(i) => s # <<>> /\ IsFailure(Head(s)) /\ s' = Tail(s)
    BY DEF OnError, Arrives, Taken, IsFailure, TypeOK
  <2>4. Retrying(i)' => Clean(s')
    BY <1>1, <1>2, <2>1, <2>3, RetryStep, FaultsTaken
  <2>5. errors' = 0 => errors = 0
    BY <1>1, ErrorsStep
  <2>6. errors = 0 => ~Retrying(i)'
    BY <1>1, <1>2, <2>3, RetryStep, FaultsTaken DEF Fault
  <2> QED
    BY <1>2, <2>1, <2>2, <2>4, <2>5, <2>6
<1> QED
  BY <1>3, <1>4

\* What is left of one, of two and of more events.
LEMMA Remaining ==
  ASSUME NEW s \in Seq(Event), s # <<>>
  PROVE  /\ Tail(s) # s /\ Head(s) = s[1]
         /\ Len(s) = 1 => Tail(s) = <<>>
         /\ Len(s) = 2 => Tail(s) # <<>> /\ Len(Tail(s)) = 1 /\ Tail(s)[1] = s[2]
         /\ Len(s) \notin {1, 2} => /\ Tail(s) # <<>> /\ Len(Tail(s)) # 1
                                    /\ Tail(s)[Len(Tail(s))] = s[Len(s)]
                                    /\ Tail(s)[Len(Tail(s)) - 1] = s[Len(s) - 1]
<1>1. Len(s) \in Nat \ {0} /\ Len(Tail(s)) = Len(s) - 1 /\ Head(s) = s[1]
  OBVIOUS
<1>2. \A k \in 1..(Len(s) - 1) : Tail(s)[k] = s[k + 1]
  OBVIOUS
<1>3. Len(Tail(s)) # Len(s)
  <2>1. \A n \in Nat : n - 1 # n
    OBVIOUS
  <2> QED
    BY <1>1, <2>1
<1>4. Tail(s) = <<>> <=> Len(Tail(s)) = 0
  BY EmptySeq, HeadTailProperties
<1>5. ASSUME Len(s) = 2 PROVE Tail(s)[1] = s[2]
  BY <1>2, <1>5
<1>6. ASSUME NEW n \in Nat, n = Len(s), n \notin {1, 2}, n # 0
      PROVE  /\ Tail(s)[n - 1] = s[n]
             /\ Tail(s)[n - 2] = s[n - 1]
             /\ (n - 1) - 1 = n - 2 /\ n - 1 # 1 /\ n - 1 # 0
  <2>1. n - 1 \in 1..(n - 1) /\ n - 2 \in 1..(n - 1)
    BY <1>6
  <2>2. (n - 1) + 1 = n /\ (n - 2) + 1 = n - 1
    OBVIOUS
  <2> QED
    BY <1>2, <1>6, <2>1, <2>2
<1>7. CASE Len(s) = 1
  BY <1>1, <1>3, <1>4, <1>7
<1>8. CASE Len(s) = 2
  <2>1. Len(Tail(s)) = 1
    BY <1>1, <1>8
  <2> QED
    BY <1>1, <1>3, <1>4, <1>5, <1>8, <2>1
<1>9. CASE Len(s) \notin {1, 2}
  BY <1>1, <1>3, <1>4, <1>6, <1>9
<1> QED
  BY <1>7, <1>8, <1>9

\* The end of a failed task's events: its Error drops what was gathered, its failure is
\* retried or given up.
LEMMA FailingStep ==
  ASSUME TypeOK, Failures, [Next]_vars, NEW i \in Item,
         Failing(i), i \notin deleting, engine[i] = "failed", engine'[i] # "running"
  PROVE  Told(i)' \/ Quiet(i)' \/ Failing(i)'
<1> DEFINE s == events[i]
<1>1. s \in Seq(Event) /\ s # <<>>
  BY DEF TypeOK, Failing
<1>2. CASE s' = s
  <2>1. ~OnProgress(i)
    <3>1. Tail(s) # s
      BY <1>1, Remaining
    <3> QED
      BY <1>1, <1>2, <3>1 DEF OnProgress, Taken, TypeOK
  <2>2. ~Live(i) => ~Live(i)'
    BY <2>1, BatchStep DEF Live, NoProgress
  <2> QED
    BY <1>2, <2>2 DEF Failing
<1>3. ASSUME NEW e \in Event, s' = Append(s, e), Halt(e) PROVE Told(i)'
  BY <1>1, <1>3, Appended DEF Told
<1>4. CASE /\ OnProgress(i) \/ OnError(i) \/ OnCompleted(i) \/ OnAdded(i)
           /\ s' = Tail(s)
  <2> DEFINE r == Tail(s)
  <2>1. s' = r
    BY <1>4
  <2>2. CASE Len(s) \notin {1, 2}
    BY <1>1, <2>1, <2>2, Remaining DEF Failing, LastOf
  <2>3. CASE Len(s) = 2
    <3>1. Fault(Head(s)) /\ ~IsFailure(Head(s))
      BY <1>1, <2>3, Remaining DEF Failing
    <3>2. Head(s).kind = "progress" /\ Head(s).p.st = "Error"
      BY <3>1 DEF Fault
    <3>3. OnProgress(i)
      BY <1>4, <3>2 DEF OnError, OnCompleted, OnAdded, Arrives
    <3>4. i \notin retryTimer
      BY <1>1, <3>1, FaultsTaken DEF Failures, Retrying, Failing
    <3>5. batch' = NoBatch
      BY <3>2, <3>3, <3>4 DEF OnProgress, Flush
    <3>6. ~Live(i)'
      BY <3>5 DEF Live, NoBatch, NoProgress
    <3> QED
      BY <1>1, <2>1, <2>3, <3>6, Remaining DEF Failing, LastOf
  <2>4. CASE Len(s) = 1
    <3>1. IsFailure(Head(s)) /\ ~Live(i) /\ s # <<>>
      BY <1>1, <2>4, Remaining DEF Failing, LastOf
    <3>2. OnError(i) /\ ~OnProgress(i)
      BY <1>4, <3>1 DEF IsFailure, OnProgress, OnCompleted, OnAdded, Arrives
    <3>3. i \notin retryTimer
      BY <1>1, <3>1, FaultsTaken DEF Failures, Retrying, Fault
    <3>4. s' = <<>>
      BY <1>1, <2>1, <2>4, Remaining
    <3>5. ~Live(i)'
      BY <3>1, <3>2, BatchStep DEF Live, NoProgress
    <3>6. list'[i] = "Downloading" => Pending(i)'
      <4>1. list' = list
        BY <3>2 DEF OnError
      <4>2. list[i] = "Downloading" => erring'[i] # "none"
        BY <3>2, <3>3 DEF OnError, TypeOK
      <4> QED
        BY <4>1, <4>2 DEF Pending
    <3> QED
      BY <3>4, <3>5, <3>6 DEF Quiet
  <2> QED
    BY <2>2, <2>3, <2>4
<1>5. ~EngineFinish(i) /\ ~EngineError(i)
  BY DEF EngineFinish, EngineError
<1> QED
  BY <1>2, <1>3, <1>4, <1>5, EventsStep

\* With one failure at most, an item that nothing moves any more and that is shown as
\* Downloading is one the engine runs or has finished.
THEOREM RunningIsShown ==
  ASSUME MaxErrors <= 1
  PROVE  Spec => []ShownIsRunning
<1>1. Init => Deletions /\ Halted /\ Failures /\ Failed
  BY DEF Init, Deletions, Halted, Failures, Failed, Stopped, Broken, Quiet, Live, NoProgress,
     Retrying, Clean, LastFault
<1>2. TypeOK /\ Deletions /\ Halted /\ Failures /\ Failed /\ [Next]_vars
        => Deletions' /\ Halted' /\ Failures' /\ Failed'
  <2> SUFFICES ASSUME TypeOK, Deletions, Halted, Failures, Failed, [Next]_vars
               PROVE  Deletions' /\ Halted' /\ Failures' /\ Failed'
    OBVIOUS
  <2>1. Deletions'
    BY DeletionsStep DEF Deletions
  <2>2. Failures'
    BY FailuresStep
  <2>3. ASSUME NEW i \in Item, Stopped(i)' PROVE Told(i)' \/ Quiet(i)'
    <3>1. ~EngineError(i) /\ ~Broken(i)'
      BY <2>3 DEF EngineError, Stopped, Broken, TypeOK
    <3>2. CASE Stopped(i)
      BY <2>3, <3>2, ToldOrQuiet DEF Halted, Stopped
    <3> QED
      BY <2>3, <3>1, <3>2, StopStep
  <2>4. ASSUME NEW i \in Item, Broken(i)' PROVE Told(i)' \/ Quiet(i)' \/ Failing(i)'
    <3>1. ~Stopped(i)' /\ engine'[i] # "running"
      BY <2>4 DEF Stopped, Broken
    <3>2. CASE EngineError(i)
      <4>1. PICK e, f \in Event : /\ events'[i] = Append(Append(events[i], e), f)
                                  /\ ~IsFailure(e) /\ Fault(e) /\ IsFailure(f)
        BY <3>2, EndTold
      <4> DEFINE r == Append(Append(events[i], e), f)
      <4>2. /\ events[i] \in Seq(Event)
            /\ Append(events[i], e) \in Seq(Event)
        BY DEF TypeOK
      <4>3. /\ r # <<>> /\ Len(r) = Len(events[i]) + 2 /\ Len(events[i]) \in Nat
            /\ r[Len(events[i]) + 2] = f /\ r[Len(events[i]) + 1] = e
        BY <4>2
      <4>4. Len(r) # 1 /\ r[Len(r)] = f /\ r[Len(r) - 1] = e
        BY <4>3
      <4> QED
        BY <4>1, <4>3, <4>4 DEF Failing, LastOf
    <3>3. CASE Broken(i)
      <4>1. CASE Failing(i)
        BY <3>1, <3>3, <4>1, FailingStep DEF Broken
      <4>2. CASE Told(i) \/ Quiet(i)
        BY <3>1, <3>3, <4>2, ToldOrQuiet DEF Broken
      <4> QED
        BY <3>3, <4>1, <4>2 DEF Failed
    <3> QED
      BY <2>4, <3>1, <3>2, <3>3, StopStep
  <2> QED
    BY <2>1, <2>2, <2>3, <2>4 DEF Halted, Failed
<1>3. TypeOK /\ Deletions /\ Halted /\ Failed => ShownIsRunning
  BY DEF TypeOK, Deletions, Halted, Failed, ShownIsRunning, Settled, Stopped, Broken, Told, Quiet,
     Failing, Pending
<1> QED
  BY <1>1, <1>2, <1>3, ListTypeCorrect, PTL DEF Spec
=============================================================================
