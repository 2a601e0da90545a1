----------------------------- MODULE DownloadList -----------------------------
(***************************************************************************)
(* The list of downloads in the main window (frontend/src/context): the    *)
(* user's commands, the dispatcher of the queues, the listeners for the    *)
(* engine's events, and the engine itself as these see it.                 *)
(*                                                                         *)
(* downloadsRef.current and the rendered list are one here.  What is saved *)
(* of the list is module ListStorage's business.                           *)
(*                                                                         *)
(* A step is what JavaScript runs without awaiting.  Pending and Merging   *)
(* are counted as Downloading everywhere in this code, and so they are     *)
(* here; names, sizes and chunks of an item are left out.                  *)
(***************************************************************************)
EXTENDS Naturals, Sequences, FiniteSets

CONSTANTS
  Item,             \* ids of downloads
  Queue, NoQueue,   \* queues, and the absence of one
  QueueOf,          \* the queue of each item (module QueueManager moves them)
  QueueMax,         \* maxConcurrent of each queue
  GeneralMax,       \* maxConcurrentDownloads: 0 is no limit
  MaxRetries,       \* maxRetries of the engine's settings
  Handled,          \* bound: items the user's commands on rows name
  MaxCommands,      \* bound: commands of the user
  MaxErrors         \* bound: failures of a download

ASSUME ListAssumption ==
  /\ IsFiniteSet(Item)
  /\ NoQueue \notin Queue
  /\ QueueOf \in [Item -> Queue \cup {NoQueue}]
  /\ QueueMax \in [Queue -> Nat]
  /\ GeneralMax \in Nat
  /\ MaxRetries \in Nat \ {0}
  /\ Handled \subseteq Item
  /\ MaxCommands \in Nat /\ MaxErrors \in Nat

Absent == {"new", "gone"}        \* not added yet; deleted
Status == {"Queued", "Downloading", "Paused", "Error", "Canceled", "Finished"}

\* Who calls resume_download or start_download.
Who == {"user", "dispatch", "retry", "add"}

\* A progress payload: its status, and whether its bytes make up the whole file.
Progress == [st : Status \ {"Queued"}, whole : BOOLEAN]
NoProgress == [st |-> "none", whole |-> FALSE]
Event == [kind : {"progress"}, p : Progress]
           \cup [kind : {"error", "exhausted", "completed", "added"}]

VARIABLES
  list,             \* the status of each item in the list
  isRunning,        \* the queues that run
  starting,         \* startingTaskIdsRef
  attempts,         \* taskRetryMapRef
  retryTimer,       \* retryTimersMapRef
  deleting,         \* deletingIdsRef
  batch,            \* pendingProgressMapRef
  erring,           \* error handlers that await the engine's settings
  toResume,         \* items resumeSelected has still to resume
  resuming,         \* calls that resume or start an item and have not returned
  calls,            \* pause, cancel and delete calls on their way to the engine
  engine,           \* the engine's task for each item
  pausing,          \* tasks whose Pause waits for their workers
  events,           \* events on their way to the window
  commands, errors

retries == <<attempts, retryTimer, erring>>
backend == <<engine, pausing, events>>
bounds == <<commands, errors>>
vars == <<list, isRunning, starting, retries, deleting, batch,
          toResume, resuming, calls, backend, bounds>>

In(i) == list[i] \notin Absent
Active == {i \in Item : list[i] = "Downloading"}
Of(q) == {i \in Item : QueueOf[i] = q}

\* The list with another status for those of S it has.
Put(S, st) == [i \in Item |-> IF i \in S /\ In(i) THEN st ELSE list[i]]

\* What loadStorageData leaves after sanitizeDownloadItem, and queues that do not run.
Init ==
  /\ list \in [Item -> {"new", "Queued", "Paused", "Finished"}]
  /\ isRunning = [q \in Queue |-> FALSE]
  /\ starting = {} /\ deleting = {} /\ retryTimer = {} /\ toResume = {}
  /\ attempts = [i \in Item |-> 0]
  /\ batch = [i \in Item |-> NoProgress]
  /\ erring = [i \in Item |-> "none"]
  /\ resuming = {}
  /\ calls = {} /\ pausing = {}
  /\ engine = [i \in Item |-> "none"]
  /\ events = [i \in Item |-> <<>>]
  /\ commands = 0 /\ errors = 0
-----------------------------------------------------------------------------
(***************************************************************************)
(* Resuming.                                                               *)
(***************************************************************************)

ClearRetries(S) ==
  /\ retryTimer' = retryTimer \ S
  /\ attempts' = [i \in Item |-> IF i \in S THEN 0 ELSE attempts[i]]

\* resumeItem up to its first await, for each of S.
Found(S) == {i \in S \ deleting : In(i)}
Resume(S, who) ==
  /\ list' = Put(Found(S), "Downloading")
  /\ ClearRetries(Found(S))
  /\ resuming' = resuming \cup (Found(S) \X {who})

\* The engine's own limit: resumeItem and addDownload name no queue to it, so that
\* every task counts as a general one.
Busy == {i \in Item : engine[i] = "running"}
EngineFull == GeneralMax \in 1..998 /\ Cardinality(Busy) >= GeneralMax

\* Engine.AddDownloadWithLimit: nothing for a task that is there and not stopped.
Accepted(i, who) ==
  /\ <<i, who>> \in resuming
  /\ resuming' = resuming \ {<<i, who>>}
  /\ IF engine[i] \in {"running", "finished"}
     THEN UNCHANGED <<engine, events>>
     ELSE /\ ~EngineFull
          /\ engine' = [engine EXCEPT ![i] = "running"]
          /\ events' = [events EXCEPT ![i] = Append(@, [kind |-> "added"])]
  /\ UNCHANGED <<list, isRunning, starting, retries, deleting, batch,
                 toResume, calls, pausing, bounds>>

\* A mutant: the caller does not catch the engine's error.
RefusedUncaught(i, who) ==
  /\ <<i, who>> \in resuming
  /\ engine[i] \notin {"running", "finished"} /\ EngineFull
  /\ resuming' = resuming \ {<<i, who>>}
  /\ UNCHANGED <<list, isRunning, starting, retries, deleting, batch, toResume,
                 calls, backend, bounds>>

\* ... or an error, which the caller catches.
Refused(i, who) ==
  /\ <<i, who>> \in resuming
  /\ engine[i] \notin {"running", "finished"} /\ EngineFull
  /\ resuming' = resuming \ {<<i, who>>}
  /\ list' = Put({i}, "Error")
  /\ UNCHANGED <<isRunning, starting, retries, deleting, batch, toResume,
                 calls, backend, bounds>>
-----------------------------------------------------------------------------
(***************************************************************************)
(* The dispatcher.  The one-second timer, the effect on the list and every *)
(* other caller find something to do only when a queue runs or an item is  *)
(* Queued; startQueue asks for one queue, the others for all.              *)
(***************************************************************************)

Larger(a, b) == IF a >= b THEN a ELSE b
Slots(limit, used) == IF used >= limit THEN 0 ELSE limit - used

InUse(q) == {i \in Of(q) : i \in Active \/ (i \in starting /\ In(i))}
Waiting(q) == {i \in Of(q) : list[i] = "Queued"} \ starting
Unlimited == GeneralMax = 0 \/ GeneralMax >= 999
Free(q) ==
  IF q = NoQueue
  THEN IF Unlimited THEN Cardinality(Item) ELSE Slots(GeneralMax, Cardinality(InUse(q)))
  ELSE IF isRunning[q] THEN Slots(Larger(1, QueueMax[q]), Cardinality(InUse(q))) ELSE 0

\* As many of those that wait as there are free slots, whichever the order of the list.
Picks(q) == {S \in SUBSET Waiting(q) :
               \/ Cardinality(S) = Free(q)
               \/ S = Waiting(q) /\ Cardinality(S) <= Free(q)}

\* A queue all of whose items are done stops running.
Done(q) ==
  LET items == {i \in Of(q) : In(i)} IN
  items # {} /\ \A i \in items : list[i] \in {"Finished", "Canceled"}

HasWork == (\E q \in Queue : isRunning[q]) \/ (\E i \in Item : list[i] = "Queued")

DispatchQueueWorkers(target) ==
  /\ HasWork
  /\ \E pick \in [target \cup {NoQueue} -> SUBSET Item] :
       /\ \A q \in target \cup {NoQueue} : pick[q] \in Picks(q)
       /\ LET started == UNION {pick[q] : q \in target \cup {NoQueue}} IN
          /\ starting' = starting \cup started
          /\ Resume(started, "dispatch")
  /\ isRunning' = [q \in Queue |-> isRunning[q] /\ ~(q \in target /\ Done(q))]
  /\ UNCHANGED <<erring, deleting, batch, toResume, calls, backend, bounds>>

Dispatch == \E target \in {Queue} \cup {{q} : q \in Queue} : DispatchQueueWorkers(target)

\* 600 ms after the call for a started item has returned.
Released(i) ==
  /\ i \in starting
  /\ <<i, "dispatch">> \notin resuming
  /\ starting' = starting \ {i}
  /\ UNCHANGED <<list, isRunning, retries, deleting, batch, toResume,
                 resuming, calls, backend, bounds>>
-----------------------------------------------------------------------------
(***************************************************************************)
(* Commands of the user, and of the schedule.                              *)
(***************************************************************************)

Command == commands < MaxCommands /\ commands' = commands + 1 /\ UNCHANGED errors

\* The menu of rows offers to resume those that are stopped or wait.
Resumable(i) == list[i] \in {"Paused", "Error", "Canceled", "Queued"}

\* The menu of a row: resume.
ResumeItem(i) ==
  /\ Command
  /\ Resumable(i)
  /\ <<i, "user">> \notin resuming
  /\ Resume({i}, "user")
  /\ UNCHANGED <<isRunning, starting, erring, deleting, batch, toResume,
                 calls, backend>>

\* The toolbar: resume what is selected, one after the other.
ResumeSelected(S) ==
  /\ Command
  /\ toResume = {} /\ \A i \in Item : <<i, "user">> \notin resuming
  /\ \A i \in S : Resumable(i)
  /\ \E i \in S \ deleting : Resume({i}, "user") /\ toResume' = S \ {i}
  /\ UNCHANGED <<isRunning, starting, erring, deleting, batch, calls, backend>>

\* Its list item, once the call for the one before has returned.
ResumeNext(i) ==
  /\ i \in toResume
  /\ \A j \in Item : <<j, "user">> \notin resuming
  /\ toResume' = toResume \ {i}
  /\ Resume({i}, "user")
  /\ UNCHANGED <<isRunning, starting, erring, deleting, batch, calls,
                 backend, bounds>>

\* Pausing shows at once; the engine is told afterwards.
Pause(S) ==
  /\ ClearRetries(S)
  /\ list' = Put(S, "Paused")
  /\ calls' = calls \cup ({"pause"} \X S)

\* The menu of a row.
PauseItem(i) ==
  /\ Command
  /\ list[i] = "Downloading"
  /\ Pause({i})
  /\ UNCHANGED <<isRunning, starting, erring, deleting, batch, toResume,
                 resuming, backend>>

\* The toolbar.
PauseSelected(S) ==
  /\ Command
  /\ S # {} /\ \A i \in S : /\ In(i)
                            /\ list[i] \in {"Downloading", "Queued"} \/ i \in retryTimer
  /\ Pause(S)
  /\ UNCHANGED <<isRunning, starting, erring, deleting, batch, toResume,
                 resuming, backend>>

\* The Cancel button of the progress window calls the engine only.
CancelDownload(i) ==
  /\ Command
  /\ list[i] = "Downloading"
  /\ calls' = calls \cup {<<"cancel", i>>}
  /\ UNCHANGED <<list, isRunning, starting, retries, deleting, batch,
                 toResume, resuming, backend>>

DeleteDownloads(S) ==
  /\ Command
  /\ S # {} /\ \A i \in S : In(i)
  /\ deleting' = deleting \cup S
  /\ batch' = [i \in Item |-> IF i \in S THEN NoProgress ELSE batch[i]]
  /\ ClearRetries(S)
  /\ list' = Put(S, "gone")
  /\ calls' = calls \cup ({"delete"} \X S)
  /\ UNCHANGED <<isRunning, starting, erring, toResume, resuming, backend>>

\* Six seconds after the engine has deleted it: longer than an event travels.
DeletionOver(i) ==
  /\ i \in deleting
  /\ <<"delete", i>> \notin calls /\ events[i] = <<>>
  /\ deleting' = deleting \ {i}
  /\ UNCHANGED <<list, isRunning, starting, retries, batch, toResume,
                 resuming, calls, backend, bounds>>

\* A new item is Downloading if its queue, or the general limit, has room for it.
HasRoom(q) ==
  IF q = NoQueue THEN Unlimited \/ Cardinality(Of(q) \cap Active) < GeneralMax
  ELSE isRunning[q] /\ Cardinality(Of(q) \cap Active) < Larger(1, QueueMax[q])

AddDownload(i) ==
  /\ Command
  /\ list[i] = "new"
  /\ list' = [list EXCEPT ![i] = IF HasRoom(QueueOf[i]) THEN "Downloading" ELSE "Queued"]
  /\ resuming' = IF HasRoom(QueueOf[i]) THEN resuming \cup {<<i, "add">>} ELSE resuming
  /\ UNCHANGED <<isRunning, starting, retries, deleting, batch, toResume,
                 calls, backend>>

\* A batch of new items: the first general ones start if asked to and while there is
\* room, and at its end the queues of the others are started.
AddBatchDownloads(S, startImmediately) ==
  /\ Command
  /\ S # {} /\ \A i \in S : list[i] = "new"
  /\ LET general == {i \in S : QueueOf[i] = NoQueue}
         room == IF Unlimited THEN Cardinality(Item)
                 ELSE Slots(GeneralMax, Cardinality(Of(NoQueue) \cap Active)) IN
     \E started \in SUBSET general :
       /\ IF startImmediately
          THEN started = general \/ Cardinality(started) = room
          ELSE started = {}
       /\ Cardinality(started) <= room
       /\ list' = [i \in Item |-> IF i \in started THEN "Downloading"
                                  ELSE IF i \in S THEN "Queued" ELSE list[i]]
       /\ resuming' = resuming \cup (started \X {"add"})
       /\ calls' = IF startImmediately
                   THEN calls \cup ({"startQueue"} \X {QueueOf[i] : i \in S \ general})
                   ELSE calls
  /\ UNCHANGED <<isRunning, starting, retries, deleting, batch, toResume, backend>>

\* A queue that runs already is only dispatched.
Started(q) ==
  /\ IF isRunning[q] THEN UNCHANGED list
     ELSE list' = Put({i \in Of(q) : list[i] \in {"Paused", "Error", "Canceled"}}, "Queued")
  /\ isRunning' = [isRunning EXCEPT ![q] = TRUE]
  /\ UNCHANGED <<starting, retries, deleting, batch, toResume, resuming, backend>>

StartQueue(q) == Command /\ Started(q) /\ UNCHANGED calls

BatchOver(q) ==
  /\ <<"startQueue", q>> \in calls
  /\ calls' = calls \ {<<"startQueue", q>>}
  /\ Started(q) /\ UNCHANGED bounds

\* What is Queued stays Queued.
StopQueue(q) ==
  /\ Command
  /\ isRunning' = [isRunning EXCEPT ![q] = FALSE]
  /\ list' = Put(Of(q) \cap Active, "Paused")
  /\ calls' = calls \cup ({"pause"} \X (Of(q) \cap Active))
  /\ UNCHANGED <<starting, retries, deleting, batch, toResume, resuming,
                 backend>>

StopAll ==
  /\ Command
  /\ starting' = {}
  /\ ClearRetries(Item)
  /\ isRunning' = [q \in Queue |-> FALSE]
  /\ list' = Put(Active, "Paused")
  /\ calls' = calls \cup {<<"pauseAll">>} \cup ({"pause"} \X Active)
  /\ UNCHANGED <<erring, deleting, batch, toResume, resuming, backend>>

User ==
  \/ \E i \in Handled :
       ResumeItem(i) \/ PauseItem(i) \/ CancelDownload(i) \/ AddDownload(i)
  \/ \E S \in SUBSET Handled : 
       \/ ResumeSelected(S) \/ PauseSelected(S) \/ DeleteDownloads(S)
       \/ \E startImmediately \in BOOLEAN : AddBatchDownloads(S, startImmediately)
  \/ \E q \in Queue : StartQueue(q) \/ StopQueue(q)
  \/ StopAll
-----------------------------------------------------------------------------
(***************************************************************************)
(* The engine, as the window knows it: its calls and its events.           *)
(***************************************************************************)

Emit(i, evs) == events' = [events EXCEPT ![i] = @ \o evs]
ProgressOf(st, whole) == [kind |-> "progress", p |-> [st |-> st, whole |-> whole]]
Frontend == <<list, isRunning, starting, retries, deleting, batch, toResume,
              resuming, commands>>

\* Pause changes the status, waits for the workers, then tells the window.
Pausable == {i \in Item : engine[i] \in {"running", "failed"}}
EnginePause(S) ==
  /\ engine' = [i \in Item |-> IF i \in S THEN "paused" ELSE engine[i]]
  /\ pausing' = pausing \cup S
  /\ UNCHANGED <<Frontend, events, errors>>

PauseCall(i) ==
  /\ <<"pause", i>> \in calls
  /\ calls' = calls \ {<<"pause", i>>}
  /\ EnginePause({i} \cap Pausable)

PauseAllCall ==
  /\ <<"pauseAll">> \in calls
  /\ calls' = calls \ {<<"pauseAll">>}
  /\ EnginePause(Busy)

PauseDone(i) ==
  /\ i \in pausing
  /\ pausing' = pausing \ {i}
  /\ \E whole \in BOOLEAN : Emit(i, <<ProgressOf("Paused", whole)>>)
  /\ UNCHANGED <<Frontend, calls, engine, errors>>

\* Cancel says so even of a task the engine does not know; the deletion of a batch
\* does not, and forgets finished tasks too.
CancelCall(i) ==
  /\ <<"cancel", i>> \in calls
  /\ calls' = calls \ {<<"cancel", i>>}
  /\ IF engine[i] = "finished" THEN UNCHANGED <<engine, events>>
     ELSE /\ engine' = [engine EXCEPT ![i] = "none"]
          /\ Emit(i, <<ProgressOf("Canceled", FALSE)>>)
  /\ UNCHANGED <<Frontend, pausing, errors>>

DeleteCall(i) ==
  /\ <<"delete", i>> \in calls
  /\ calls' = calls \ {<<"delete", i>>}
  /\ engine' = [engine EXCEPT ![i] = "none"]
  /\ IF engine[i] \in {"none", "finished"} THEN UNCHANGED events
     ELSE Emit(i, <<ProgressOf("Canceled", FALSE)>>)
  /\ UNCHANGED <<Frontend, pausing, errors>>

\* progressEmitter, once its last event was taken.
EngineProgress(i) ==
  /\ engine[i] = "running" /\ events[i] = <<>>
  /\ \E whole \in BOOLEAN : Emit(i, <<ProgressOf("Downloading", whole)>>)
  /\ UNCHANGED <<Frontend, calls, engine, pausing, errors>>

EngineFinish(i) ==
  /\ engine[i] = "running"
  /\ engine' = [engine EXCEPT ![i] = "finished"]
  /\ Emit(i, <<ProgressOf("Finished", TRUE), [kind |-> "completed"]>>)
  /\ UNCHANGED <<Frontend, calls, pausing, errors>>

\* A download that fails may have all its bytes: its rename or its check failed.
EngineError(i) ==
  /\ engine[i] = "running" /\ errors < MaxErrors
  /\ errors' = errors + 1
  /\ engine' = [engine EXCEPT ![i] = "failed"]
  /\ \E whole \in BOOLEAN, kind \in {"error", "exhausted"} :
       Emit(i, <<ProgressOf("Error", whole), [kind |-> kind]>>)
  /\ UNCHANGED <<Frontend, calls, pausing>>

Engine ==
  \/ PauseAllCall
  \/ \E i \in Item : PauseCall(i) \/ PauseDone(i) \/ CancelCall(i) \/ DeleteCall(i)
                       \/ EngineProgress(i) \/ EngineFinish(i) \/ EngineError(i)
-----------------------------------------------------------------------------
(***************************************************************************)
(* The listeners.                                                          *)
(***************************************************************************)

Arrives(i, kind) == events[i] # <<>> /\ Head(events[i]).kind = kind
Taken(i) == events' = [events EXCEPT ![i] = Tail(@)]

\* flushProgressBatch on the items of the list: the payload decides, and one that has
\* all bytes is Finished whatever it says.
Updated(i, p) == IF p.whole THEN "Finished" ELSE p.st

\* ... and on the others: an unknown item is added unless the payload is terminal.
Discovered(i, p) == IF p.st = "Downloading" THEN "Downloading" ELSE list[i]

Flushed(b) == [i \in Item |->
  IF b[i] = NoProgress \/ i \in deleting THEN list[i]
  ELSE IF In(i) THEN Updated(i, b[i]) ELSE Discovered(i, b[i])]

NoBatch == [i \in Item |-> NoProgress]
Flush(b) == batch' = NoBatch /\ list' = Flushed(b)

\* The timer of 100 ms.
FlushTimer ==
  /\ batch # NoBatch
  /\ Flush(batch)
  /\ UNCHANGED <<isRunning, starting, retries, deleting, toResume, resuming,
                 calls, backend, bounds>>

\* A download that moves, stops or starts again gives up its retries.
SettlesRetries(i, p, moving) ==
  \/ p.st \in {"Finished", "Canceled", "Paused"}
  \/ p.st = "Downloading" /\ (moving \/ list[i] \in {"Error", "Paused", "Canceled"})

OnProgress(i) ==
  /\ Arrives(i, "progress") /\ Taken(i)
  /\ LET p == Head(events[i]).p IN
     IF i \in deleting
     THEN /\ batch' = [batch EXCEPT ![i] = NoProgress]
          /\ UNCHANGED <<list, attempts, retryTimer>>
     ELSE \E moving \in BOOLEAN :
          /\ IF SettlesRetries(i, p, moving) THEN ClearRetries({i})
                                             ELSE UNCHANGED <<attempts, retryTimer>>
          /\ CASE p.st = "Error" /\ i \in retryTimer -> UNCHANGED <<list, batch>>
               [] p.st = "Downloading" -> /\ batch' = [batch EXCEPT ![i] = p]
                                          /\ UNCHANGED list
               [] OTHER -> Flush([batch EXCEPT ![i] = p])
  /\ UNCHANGED <<isRunning, starting, erring, deleting, toResume, resuming,
                 calls, engine, pausing, bounds>>

\* download-error: ignored for an item that was stopped, finished or deleted, or that
\* waits for a retry; else the handler awaits the engine's settings.
OnError(i) ==
  /\ \E kind \in {"error", "exhausted"} :
       /\ Arrives(i, kind) /\ Taken(i)
       /\ IF i \in deleting THEN UNCHANGED <<retryTimer, erring>>
          ELSE IF list[i] \in {"Canceled", "Paused", "Finished"}
          THEN retryTimer' = retryTimer \ {i} /\ UNCHANGED erring
          ELSE /\ erring' = IF i \in retryTimer THEN erring ELSE [erring EXCEPT ![i] = kind]
               /\ UNCHANGED retryTimer
  /\ UNCHANGED <<list, isRunning, starting, attempts, deleting, batch,
                 toResume, resuming, calls, engine, pausing, bounds>>

\* The rest of the handler, which looks at the item no more.
ErrorHandled(i) ==
  /\ erring[i] # "none"
  /\ erring' = [erring EXCEPT ![i] = "none"]
  /\ IF erring[i] = "error" /\ attempts[i] < MaxRetries
     THEN /\ attempts' = [attempts EXCEPT ![i] = @ + 1]
          /\ retryTimer' = retryTimer \cup {i}
          /\ list' = Put({i}, "Downloading")
     ELSE /\ attempts' = [attempts EXCEPT ![i] = MaxRetries]
          /\ retryTimer' = retryTimer \ {i}
          /\ list' = Put({i}, "Error")
  /\ UNCHANGED <<isRunning, starting, deleting, batch, toResume, resuming,
                 calls, backend, bounds>>

\* A mutant: the timer does not look at the item.
RetryTimerBlind(i) ==
  /\ i \in retryTimer
  /\ retryTimer' = retryTimer \ {i}
  /\ list' = Put({i}, "Downloading")
  /\ resuming' = resuming \cup {<<i, "retry">>}
  /\ UNCHANGED <<isRunning, starting, attempts, erring, deleting, batch, toResume,
                 calls, backend, bounds>>

\* The timer of 1.5 seconds.
RetryTimer(i) ==
  /\ i \in retryTimer
  /\ IF i \in deleting \/ ~In(i) \/ list[i] \in {"Canceled", "Paused", "Finished"}
     THEN UNCHANGED <<list, resuming>>
     ELSE /\ list' = Put({i}, "Downloading")
          /\ resuming' = resuming \cup {<<i, "retry">>}
  /\ retryTimer' = retryTimer \ {i}
  /\ UNCHANGED <<isRunning, starting, attempts, erring, deleting, batch,
                 toResume, calls, backend, bounds>>

\* download-completed looks neither at the deletions nor at the retry timer.
OnCompleted(i) ==
  /\ Arrives(i, "completed") /\ Taken(i)
  /\ attempts' = [attempts EXCEPT ![i] = 0]
  /\ list' = Put({i}, "Finished")
  /\ UNCHANGED <<isRunning, starting, retryTimer, erring, deleting, batch,
                 toResume, resuming, calls, engine, pausing, bounds>>

\* A mutant: download-added does not look at the deletions.
OnAddedAlways(i) ==
  /\ Arrives(i, "added") /\ Taken(i)
  /\ IF In(i) THEN UNCHANGED list ELSE list' = [list EXCEPT ![i] = "Downloading"]
  /\ UNCHANGED <<isRunning, starting, retries, deleting, batch, toResume, resuming,
                 calls, engine, pausing, bounds>>

\* download-added.
OnAdded(i) ==
  /\ Arrives(i, "added") /\ Taken(i)
  /\ IF i \in deleting \/ In(i) THEN UNCHANGED list
                                     ELSE list' = [list EXCEPT ![i] = "Downloading"]
  /\ UNCHANGED <<isRunning, starting, retries, deleting, batch, toResume,
                 resuming, calls, engine, pausing, bounds>>

Window ==
  \/ Dispatch \/ FlushTimer
  \/ \E q \in Queue : BatchOver(q)
  \/ \E i \in Item :
       \/ Released(i) \/ ResumeNext(i) \/ DeletionOver(i) \/ RetryTimer(i)
       \/ OnProgress(i) \/ OnError(i) \/ ErrorHandled(i) \/ OnCompleted(i) \/ OnAdded(i)
       \/ \E w \in Who : Accepted(i, w) \/ Refused(i, w)

Next == User \/ Window \/ Engine
Spec == Init /\ [][Next]_vars
-----------------------------------------------------------------------------
TypeOK ==
  /\ list \in [Item -> Status \cup Absent]
  /\ isRunning \in [Queue -> BOOLEAN]
  /\ starting \subseteq Item /\ deleting \subseteq Item /\ retryTimer \subseteq Item
  /\ toResume \subseteq Item /\ pausing \subseteq Item
  /\ attempts \in [Item -> 0..MaxRetries]
  /\ batch \in [Item -> Progress \cup {NoProgress}]
  /\ erring \in [Item -> {"none", "error", "exhausted"}]
  /\ resuming \subseteq Item \X Who
  /\ calls \subseteq ({"pause", "cancel", "delete"} \X Item) \cup {<<"pauseAll">>}
                  \cup ({"startQueue"} \X Queue)
  /\ engine \in [Item -> {"none", "running", "paused", "failed", "finished"}]
  /\ events \in [Item -> Seq(Event)]
  /\ commands \in 0..MaxCommands /\ errors \in 0..MaxErrors

\* Nothing is under way that would change item i in the list or in the engine.
Settled(i) ==
  /\ events[i] = <<>> /\ batch[i] = NoProgress
  /\ i \notin retryTimer /\ erring[i] = "none" /\ i \notin toResume
  /\ \A w \in Who : <<i, w>> \notin resuming
  /\ i \notin pausing /\ \A op \in {"pause", "cancel", "delete"} : <<op, i>> \notin calls
  /\ <<"pauseAll">> \notin calls

\* An item shown as Downloading is not a row that nothing moves: once every call,
\* event, retry and flush about it is over, the engine runs it, or has finished it (the
\* toolbar resumes from a list it took earlier, and the engine ignores that call).
\* So it is up to one failure (MaxErrors): with two, the first's retry timer makes the
\* window ignore the second, and the timer's call may be refused and late progress shown.
ShownIsRunning == \A i \in Item :
  Settled(i) /\ list[i] = "Downloading" => engine[i] \in {"running", "finished"}

\* A deleted item does not come back through an event, a batch of progress or a
\* retry: while its deletion is remembered, nor later, unless a call that was under
\* way when it was deleted has started it once more.
DeletedStep == \A i \in Item :
  /\ list[i] = "gone" /\ \A w \in Who : <<i, w>> \notin resuming
  /\ \/ i \in deleting
     \/ engine[i] # "running" /\ events[i] = <<>> /\ batch[i] = NoProgress
  => list'[i] = "gone"
DeletedStaysDeleted == [][DeletedStep]_vars

\* A paused item stays paused until a command, whatever the dispatcher and the retry
\* timer do, if nothing was on its way when it was paused.
PausedStep == \A i \in Item :
  /\ list[i] = "Paused" /\ engine[i] # "running"
  /\ events[i] = <<>> /\ batch[i] = NoProgress /\ erring[i] = "none"
  /\ \A w \in Who : <<i, w>> \notin resuming
  /\ i \notin toResume /\ <<"startQueue", QueueOf[i]>> \notin calls
  /\ commands' = commands
  => list'[i] = "Paused"
PausedStaysPaused == [][PausedStep]_vars
=============================================================================
