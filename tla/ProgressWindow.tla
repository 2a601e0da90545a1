--------------------------- MODULE ProgressWindow ---------------------------
\* The window that follows one download (RealTimeDownloadProgress.tsx and
\* progress/utils.ts): it hears the engine's events, asks for the task's status on
\* opening, every two seconds and before it retries, and commands the engine. Calls,
\* their answers and events overtake one another. The main window acts on the same
\* task.
EXTENDS Integers, Bags, BagsExt, FiniteSets

CONSTANTS
  MaxRetries,   \* the engine setting
  MaxFaults,    \* how often the task fails
  MaxClicks,    \* what the user and the main window do
  MaxAir        \* the commands, and the events, under way at a time

ASSUME ConstantsAssumption ==
  \A i \in {MaxRetries, MaxFaults, MaxClicks, MaxAir} : i \in Nat \ {0}

VARIABLES
  task,         \* the engine's task
  pauses,       \* how often the engine has paused it
  events,       \* the events the window has not received, a bag
  calls,        \* its commands the engine has not served, a bag
  asks,         \* its status questions under way, a bag
  handling,     \* the error events whose listener waits for the settings, a bag
  open, listening,
  shown,        \* statusRef
  closing,      \* isCanceledOrClosingRef
  leaving,      \* closeProgressWindow is under way
  timer,        \* autoRetryTimerRef is set
  attempts,     \* retryAttemptsRef
  faults, clicks

view == <<open, listening, shown, closing, leaving, timer, attempts, asks, handling>>
vars == <<task, pauses, events, calls, faults, clicks, view>>

Task == {"Downloading", "Paused", "Error", "Finished", "none"}
Shown == {"Downloading", "Paused", "Error", "Finished", "Canceled"}
\* A status as an event or an answer tells it: "moving" is Downloading at some speed.
Status == {"Downloading", "moving", "Paused", "Error", "Finished"}
Error == {"error", "exhausted"}       \* a download-error event, the second "failed after"

Call(do) == [do |-> do, seen |-> 0]
Retry(n) == [do |-> "retry", seen |-> n]
Question(for) == [for |-> for, value |-> "sent", seen |-> 0]

One(x) == SetToBag({x})
Plus(bag, x) == bag (+) One(x)
Minus(bag, x) == bag (-) One(x)
Has(bag, x) == BagIn(x, bag)
Count(x, bag) == IF Has(bag, x) THEN bag[x] ELSE 0
Emitted(x) == events' = IF BagCardinality(events) < MaxAir THEN Plus(events, x) ELSE events
Room == BagCardinality(calls) < MaxAir

Init ==
  /\ task = "Downloading" /\ pauses = 0
  /\ events = EmptyBag /\ calls = EmptyBag /\ handling = EmptyBag
  /\ asks = One(Question("init"))
  /\ open = TRUE /\ listening = FALSE
  /\ shown = "Downloading"
  /\ closing = FALSE /\ leaving = FALSE
  /\ timer = FALSE /\ attempts = 0
  /\ faults = 0 /\ clicks = 0

-----------------------------------------------------------------------------
\* The engine.

engine == <<task, pauses, events, faults>>

EngineMoves ==
  /\ task = "Downloading"
  /\ ~Has(events, "moving")
  /\ Emitted("moving")
  /\ UNCHANGED <<task, pauses, calls, faults, clicks, view>>

EngineFinishes ==
  /\ task = "Downloading"
  /\ task' = "Finished"
  /\ Emitted("Finished")
  /\ UNCHANGED <<pauses, calls, faults, clicks, view>>

\* The task fails: its status and the error itself are two events.
EngineFails ==
  /\ task = "Downloading" /\ faults < MaxFaults
  /\ BagCardinality(events) + 2 <= MaxAir
  /\ task' = "Error"
  /\ faults' = faults + 1
  /\ \E e \in Error : events' = Plus(Plus(events, "Error"), e)
  /\ UNCHANGED <<pauses, calls, clicks, view>>

\* Engine.AddDownloadWithLimit: a task that runs or has finished is left alone; one
\* that was removed is made again; the engine refuses when it has no room.
Resumed ==
  \/ task \in {"Paused", "Error", "none"} /\ task' = "Downloading"
  \/ UNCHANGED task

Paused ==
  IF task \in {"Downloading", "Error"}
    THEN /\ task' = "Paused" /\ pauses' = pauses + 1
         /\ Emitted("Paused")
    ELSE UNCHANGED <<task, pauses, events>>

Removed == task' = IF task = "Finished" THEN task ELSE "none"

\* What is left of a window that is gone.
Shut ==
  /\ open' = FALSE /\ timer' = FALSE
  /\ asks' = EmptyBag /\ handling' = EmptyBag
  /\ UNCHANGED <<listening, shown, closing, leaving, attempts>>

\* One of the window's commands reaches the engine. To cancel closes the window.
Serve(c) ==
  /\ Has(calls, c)
  /\ calls' = Minus(calls, c)
  /\ CASE c.do \in {"resume", "retry"} -> Resumed /\ UNCHANGED <<pauses, events, view>>
       [] c.do = "pause"  -> Paused /\ UNCHANGED view
       [] c.do = "cancel" -> Removed /\ Shut /\ UNCHANGED <<pauses, events>>
  /\ UNCHANGED <<faults, clicks>>

\* The main window pauses the task, resumes it, or deletes it, which tells the
\* progress window to close.
MainWindow ==
  /\ clicks < MaxClicks /\ clicks' = clicks + 1
  /\ \/ Paused
     \/ Resumed /\ task' # task /\ UNCHANGED <<pauses, events>>
     \/ Removed /\ task' # task /\ Emitted("close") /\ UNCHANGED pauses
  /\ UNCHANGED <<calls, faults, view>>

-----------------------------------------------------------------------------
\* The window's callbacks.

\* A download that is over closes its window.
Completed(s) == leaving' = (leaving \/ s = "Finished")

\* A faulty variant: an error is kept back as long as a retry has been made.
ApplyHoldingBack(s) ==
  IF closing
    THEN UNCHANGED <<shown, leaving, timer, attempts>>
    ELSE /\ attempts' = IF s = "moving" THEN 0 ELSE attempts
         /\ timer' = (timer /\ s \notin {"moving", "Paused", "Finished"})
         /\ shown' = IF s = "Error" /\ attempts > 0 THEN shown
                     ELSE IF s = "moving" THEN "Downloading" ELSE s
         /\ Completed(s)

\* applyProgressUpdate.
Apply(s) ==
  IF closing
    THEN UNCHANGED <<shown, leaving, timer, attempts>>
    ELSE /\ attempts' = IF s = "moving" THEN 0 ELSE attempts
         /\ timer' = (timer /\ s \notin {"moving", "Paused", "Finished"})
         /\ shown' = IF s = "Error" /\ timer THEN shown
                     ELSE IF s = "moving" THEN "Downloading" ELSE s
         /\ Completed(s)

CloseEvent == closing' = TRUE /\ timer' = FALSE /\ leaving' = TRUE

\* The listeners of download-progress and close-realtime-progress; what comes before
\* they are registered is lost.
OnEvent(e) ==
  /\ open /\ Has(events, e) /\ e \notin Error
  /\ events' = Minus(events, e)
  /\ CASE ~listening -> UNCHANGED <<shown, closing, leaving, timer, attempts>>
       [] listening /\ e = "close" -> CloseEvent /\ UNCHANGED <<shown, attempts>>
       [] OTHER -> Apply(e) /\ UNCHANGED closing
  /\ UNCHANGED <<task, pauses, calls, faults, clicks, open, listening, asks, handling>>

\* The listener of download-error, up to where it waits for the settings.
OnError(e) ==
  /\ open /\ Has(events, e) /\ e \in Error
  /\ events' = Minus(events, e)
  /\ handling' = IF listening /\ ~closing /\ shown \notin {"Canceled", "Paused"} /\ ~timer
                   THEN Plus(handling, e) ELSE handling
  /\ UNCHANGED <<task, pauses, calls, faults, clicks, open, listening, shown, closing,
                 leaving, timer, attempts, asks>>

\* The rest of it.
ErrorHandled(e) ==
  /\ Has(handling, e)
  /\ handling' = Minus(handling, e)
  /\ IF e = "error" /\ attempts < MaxRetries
       THEN attempts' = attempts + 1 /\ shown' = "Downloading" /\ timer' = TRUE
       ELSE /\ attempts' = IF e = "exhausted" THEN MaxRetries ELSE attempts
            /\ shown' = "Error" /\ timer' = FALSE
  /\ UNCHANGED <<task, pauses, events, calls, faults, clicks, open, listening, closing,
                 leaving, asks>>

\* The retry timer: unless the window is closing or paused, the status is asked for.
RetryTimer ==
  /\ timer
  /\ timer' = FALSE
  /\ asks' = IF closing \/ shown \in {"Canceled", "Paused"} THEN asks
             ELSE Plus(asks, Question("retry"))
  /\ UNCHANGED <<task, pauses, events, calls, faults, clicks, open, listening, shown,
                 closing, leaving, attempts, handling>>

\* The engine answers a status question (get_task_status).
Answer(q) ==
  /\ Has(asks, q) /\ q.value = "sent"
  /\ \E s \in (IF task = "Downloading" THEN {"Downloading", "moving"} ELSE {task}) :
       asks' = Plus(Minus(asks, q), [q EXCEPT !.value = s, !.seen = pauses])
  /\ UNCHANGED <<engine, calls, clicks, open, listening, shown, closing, leaving, timer,
                 attempts, handling>>

\* A faulty variant: a pause is not looked for.
SettledUnlessPaused == {"Downloading", "moving", "Finished"}

\* What the retry leaves to others: the statuses with which it gives up.
Settled == {"Downloading", "moving", "Paused", "Finished"}

\* A faulty variant: the window's closing is not looked at again.
AutoRetryAnyway(n) ==
  /\ calls' = Plus(calls, Retry(n))
  /\ timer' = FALSE
  /\ shown' = "Downloading"

\* handleRetryDownload(true).
AutoRetry(n) ==
  IF closing
    THEN UNCHANGED <<calls, timer, shown>>
    ELSE /\ calls' = Plus(calls, Retry(n))
         /\ timer' = FALSE
         /\ shown' = "Downloading"

\* The window receives an answer. The first one completes the registration of its
\* listeners; that of a retry decides about it.
Answered(q) ==
  /\ Has(asks, q) /\ q.value # "sent"
  /\ asks' = Minus(asks, q)
  /\ listening' = (listening \/ q.for = "init")
  /\ IF q.for = "retry"
       THEN /\ IF q.value \in Settled THEN UNCHANGED <<calls, timer, shown>>
               ELSE Room /\ AutoRetry(q.seen)
            /\ UNCHANGED <<attempts, leaving>>
       ELSE /\ IF q.value = "none" THEN UNCHANGED <<shown, leaving, timer, attempts>>
               ELSE Apply(q.value)
            /\ UNCHANGED calls
  /\ UNCHANGED <<engine, clicks, open, closing, handling>>

\* The interval of two seconds. Bound: a question is answered before the next is asked.
Poll ==
  /\ open /\ ~closing /\ ~timer
  /\ shown \notin {"Finished", "Error", "Canceled"}
  /\ \A q \in BagToSet(asks) : q.for # "poll"
  /\ asks' = Plus(asks, Question("poll"))
  /\ UNCHANGED <<engine, calls, clicks, open, listening, shown, closing, leaving, timer,
                 attempts, handling>>

-----------------------------------------------------------------------------
\* The user.

Click == open /\ clicks < MaxClicks /\ clicks' = clicks + 1 /\ Room

\* handlePauseResume: on an error it is a retry by hand, on a paused task a resume.
PauseResume ==
  /\ Click /\ ~closing
  /\ attempts' = 0
  /\ IF shown \in {"Error", "Paused"}
       THEN /\ calls' = Plus(calls, Call("resume"))
            /\ shown' = "Downloading"
            /\ timer' = (timer /\ shown = "Paused")
       ELSE /\ calls' = Plus(calls, Call("pause"))
            /\ shown' = "Paused"
            /\ timer' = FALSE
  /\ UNCHANGED <<engine, open, listening, closing, leaving, asks, handling>>

\* handleThreadCountChange asks for the status when it has told the engine.
ThreadCountChange ==
  /\ Click
  /\ \A q \in BagToSet(asks) : q.for # "poll"
  /\ asks' = Plus(asks, Question("poll"))
  /\ UNCHANGED <<engine, calls, open, listening, shown, closing, leaving, timer,
                 attempts, handling>>

\* handleClose: the task is paused and the window leaves.
Close ==
  /\ Click
  /\ closing' = TRUE /\ timer' = FALSE /\ leaving' = TRUE
  /\ calls' = IF shown = "Finished" THEN calls ELSE Plus(calls, Call("pause"))
  /\ UNCHANGED <<engine, open, listening, shown, attempts, asks, handling>>

\* handleCancelDownload.
CancelDownload ==
  /\ Click
  /\ closing' = TRUE /\ timer' = FALSE /\ shown' = "Canceled"
  /\ calls' = Plus(calls, Call("cancel"))
  /\ UNCHANGED <<engine, open, listening, leaving, attempts, asks, handling>>

\* The last step of closeProgressWindow, or Quit by itself.
Quit ==
  /\ open /\ leaving
  /\ ~Has(calls, Call("pause"))
  /\ Shut
  /\ UNCHANGED <<engine, calls, clicks>>

-----------------------------------------------------------------------------
Calls == {Call(do) : do \in {"resume", "pause", "cancel"}} \cup
         {Retry(n) : n \in 0..(MaxClicks + MaxClicks)}

Callback ==
  \/ \E e \in BagToSet(events) : OnEvent(e) \/ OnError(e)
  \/ \E e \in BagToSet(handling) : ErrorHandled(e)
  \/ \E q \in BagToSet(asks) : Answer(q) \/ Answered(q)
  \/ RetryTimer \/ Poll \/ Quit

Serves == \E c \in BagToSet(calls) : Serve(c)

Next ==
  \/ EngineMoves \/ EngineFinishes \/ EngineFails
  \/ Serves
  \/ MainWindow
  \/ Callback
  \/ PauseResume \/ ThreadCountChange \/ Close \/ CancelDownload

Spec == Init /\ [][Next]_vars

\* The engine serves every command, the runtime delivers what has arrived.
FairSpec == Spec /\ WF_vars(Serves) /\ WF_vars(Callback)

-----------------------------------------------------------------------------
TypeOK ==
  /\ task \in Task /\ shown \in Shown
  /\ IsABag(events) /\ BagToSet(events) \subseteq Status \cup Error \cup {"close"}
  /\ IsABag(calls) /\ BagToSet(calls) \subseteq Calls
  /\ IsABag(asks) /\ IsABag(handling)
  /\ BagToSet(handling) \subseteq Error
  /\ \A b \in {open, listening, closing, leaving, timer} : b \in BOOLEAN
  /\ attempts \in 0..MaxRetries
  /\ pauses \in Nat /\ faults \in 0..MaxFaults /\ clicks \in 0..MaxClicks
  /\ ~open => ~timer /\ asks = EmptyBag

\* A retry by itself never undoes a pause: one that asked for the status after the
\* last pause does not find the task paused when the engine serves it.
PauseHolds ==
  /\ TypeOK
  /\ \A c \in BagToSet(calls) : c.do = "retry" /\ c.seen = pauses => task # "Paused"

\* A window that is closing gives the engine no more orders to download.
ClosedIsQuiet ==
  [][closing => \A c \in BagToSet(calls') :
        c.do \in {"resume", "retry"} => Count(c, calls') <= Count(c, calls)]_vars

\* A window does not go on showing a download under way that has stopped.
ShowsTheTruth ==
  []<>(~open \/ closing \/ (shown = "Downloading" => task \in {"Downloading", "none"}))
=============================================================================
