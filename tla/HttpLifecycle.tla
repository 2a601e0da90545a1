---------------------------- MODULE HttpLifecycle ----------------------------
(***************************************************************************)
(* The life of one HTTP task (downloader/http): Start with the retries of  *)
(* its pre-check, OrchestratorLoop and finalizeDownload, the chunk workers,*)
(* the progress emitter, and the calls of Pause and Cancel that reach the  *)
(* task from the user interface at any time.  They share the task's status,*)
(* its context, its WaitGroup, the container file and the checkpoint.      *)
(*                                                                         *)
(* What a worker fetches is module HttpTransfer's business: here a chunk   *)
(* is its status and its retry counter, and the file has a known size.     *)
(* A step is what runs without releasing State.Mu or waiting.              *)
(***************************************************************************)
EXTENDS Naturals, FiniteSets

CONSTANTS
  Chunk,            \* the chunks preCheck lays out
  Worker,           \* identities for worker goroutines
  NoChunk,
  Caller,           \* calls of Pause or Cancel, one each
  MaxAttempts,      \* EngineConfig.MaxRetries, for the pre-check
  MaxRetries,       \* EngineConfig.MaxRetries, for a chunk
  MaxFaults         \* bound: failed requests of the workers

ASSUME LifecycleAssumption ==
  /\ IsFiniteSet(Chunk) /\ Chunk # {} /\ NoChunk \notin Chunk
  /\ MaxAttempts \in Nat \ {0}
  /\ MaxRetries \in Nat \ {0}
  /\ MaxFaults \in Nat

VARIABLES
  status,           \* State.Status
  ctxDone,          \* the task's context is cancelled
  starter,          \* Start: where it is, and its attempt
  orch,             \* OrchestratorLoop: where it is, and the chunks left to spawn
  emitter,          \* progressEmitter: where it is
  worker,           \* runChunkWorker: where each goroutine is, and its chunk
  caller,           \* Pause and Cancel: which of them, and where it is
  chunk,            \* the chunks' status and retry counter
  laid,             \* State.Chunks holds the chunks
  handle,           \* tc.targetFile: nil, open, or closed and not nil
  temp,             \* the container file exists
  dest,             \* the destination file exists
  meta,             \* a checkpoint exists
  faults            \* faults so far

goroutines == <<starter, orch, emitter, worker, caller>>
files == <<temp, dest, meta>>
vars == <<status, ctxDone, starter, orch, emitter, worker, caller, chunk, laid,
          handle, temp, dest, meta, faults>>

Stopped == {"Paused", "Canceled"}

\* A new task, or one that resumes what an earlier session left.
Init ==
  /\ status = "Pending"
  /\ ctxDone = FALSE
  /\ starter = [pc |-> "probe", attempt |-> 1]
  /\ orch = [pc |-> "off", todo |-> {}]
  /\ emitter = "off"
  /\ worker = [w \in Worker |-> [pc |-> "idle", c |-> NoChunk]]
  /\ caller = [p \in Caller |-> [pc |-> "idle", op |-> "none"]]
  /\ chunk = [c \in Chunk |-> [st |-> "Pending", retry |-> 0]]
  /\ laid = FALSE
  /\ handle = "nil"
  /\ temp \in BOOLEAN
  /\ meta \in BOOLEAN
  /\ dest = FALSE
  /\ faults = 0

Running == {w \in Worker : worker[w].pc # "idle"}
-----------------------------------------------------------------------------
(***************************************************************************)
(* Start.                                                                  *)
(***************************************************************************)

StarterAt(pc) == starter' = [starter EXCEPT !.pc = pc]

\* probeServerAttempt answers; a cancelled context makes it fail.
ProbeOk ==
  /\ starter.pc = "probe" /\ ~ctxDone
  /\ StarterAt("prepare")
  /\ UNCHANGED <<status, ctxDone, orch, emitter, worker, caller, chunk, laid,
                 handle, files, faults>>

\* The rest of preCheck: open or create the container and lay the chunks out,
\* from the checkpoint when both exist.
Prepare ==
  /\ starter.pc = "prepare"
  /\ \E finished \in IF temp /\ meta THEN SUBSET Chunk ELSE {{}} :
       chunk' = [c \in Chunk |-> [st |-> IF c \in finished THEN "Finished" ELSE "Pending",
                                  retry |-> 0]]
  /\ laid' = TRUE
  /\ handle' = "open"
  /\ temp' = TRUE
  /\ meta' = TRUE
  /\ StarterAt("check")
  /\ UNCHANGED <<status, ctxDone, orch, emitter, worker, caller, dest, faults>>

\* preCheck fails, at the server or at the disk.  Start returns if it was stopped
\* meanwhile, else it goes on to say so.
PreCheckFails ==
  /\ starter.pc \in {"probe", "prepare"}
  /\ StarterAt(IF ctxDone \/ status \in Stopped THEN "done" ELSE "failed")
  /\ UNCHANGED <<status, ctxDone, orch, emitter, worker, caller, chunk, laid,
                 handle, files, faults>>

\* Another attempt, after a pause of 1.5 seconds, or the end of the last one.
Reconnect ==
  /\ starter.pc = "failed"
  /\ IF starter.attempt < MaxAttempts
     THEN /\ status' = "Downloading"
          /\ StarterAt("backoff")
     ELSE /\ status' = "Error"
          /\ StarterAt("done")
  /\ UNCHANGED <<ctxDone, orch, emitter, worker, caller, chunk, laid, handle,
                 files, faults>>

Backoff ==
  /\ starter.pc = "backoff"
  /\ \/ ctxDone /\ StarterAt("done")
     \/ starter' = [pc |-> "probe", attempt |-> starter.attempt + 1]
  /\ UNCHANGED <<status, ctxDone, orch, emitter, worker, caller, chunk, laid,
                 handle, files, faults>>

\* Start looks at the context and the status once more ...
CheckStopped ==
  /\ starter.pc = "check"
  /\ StarterAt(IF ctxDone \/ status \in Stopped THEN "done" ELSE "launch")
  /\ UNCHANGED <<status, ctxDone, orch, emitter, worker, caller, chunk, laid,
                 handle, files, faults>>

\* ... and sets the status and starts the two loops.
Launch ==
  /\ starter.pc = "launch"
  /\ status' = "Downloading"
  /\ orch' = [orch EXCEPT !.pc = "select"]
  /\ emitter' = "wait"
  /\ StarterAt("done")
  /\ UNCHANGED <<ctxDone, worker, caller, chunk, laid, handle, files, faults>>

Start == ProbeOk \/ Prepare \/ PreCheckFails \/ Reconnect \/ Backoff \/ CheckStopped \/ Launch
-----------------------------------------------------------------------------
(***************************************************************************)
(* OrchestratorLoop and finalizeDownload.                                  *)
(***************************************************************************)

OrchAt(pc) == orch' = [orch EXCEPT !.pc = pc]

\* The context is done: the container is closed, and tc.targetFile not set to nil.
SelectDone ==
  /\ orch.pc = "select" /\ ctxDone
  /\ handle' = IF handle = "open" THEN "closed" ELSE handle
  /\ OrchAt("done")
  /\ UNCHANGED <<status, ctxDone, starter, emitter, worker, caller, chunk, laid,
                 files, faults>>

With(s) == {c \in Chunk : chunk[c].st = s}

Retriable == {c \in With("Error") : chunk[c].retry < MaxRetries}

\* A signal: the ticker sends one every 250ms, and select may take it although the
\* context is done.
ScanFinished ==
  /\ orch.pc = "select"
  /\ With("Finished") = Chunk
  /\ OrchAt("finalize")
  /\ UNCHANGED <<status, ctxDone, starter, emitter, worker, caller, chunk, laid,
                 handle, files, faults>>

ScanSpawn ==
  /\ orch.pc = "select"
  /\ With("Finished") # Chunk
  /\ With("Downloading") \cup With("Pending") \cup Retriable # {}
  /\ status' = IF Retriable # {} THEN "Downloading" ELSE status
  /\ chunk' = [c \in Chunk |-> IF c \in Retriable
                               THEN [st |-> "Pending", retry |-> chunk[c].retry + 1]
                               ELSE chunk[c]]
  /\ orch' = [pc |-> "spawn", todo |-> With("Pending") \cup Retriable]
  /\ UNCHANGED <<ctxDone, starter, emitter, worker, caller, laid, handle, files, faults>>

\* Mistake: the chunks being downloaded are not counted.
ScanFailEarly ==
  /\ orch.pc = "select"
  /\ With("Finished") # Chunk
  /\ With("Pending") \cup Retriable = {}
  /\ OrchAt("fail") /\ status' = "Error"
  /\ UNCHANGED <<ctxDone, starter, emitter, worker, caller, chunk, laid, handle,
                 files, faults>>

\* failTaskAfterRetriesLocked: a task that was stopped is left as it is.
ScanFail ==
  /\ orch.pc = "select"
  /\ With("Finished") # Chunk
  /\ With("Downloading") \cup With("Pending") \cup Retriable = {}
  /\ IF ctxDone \/ status \in Stopped
     THEN OrchAt("done") /\ UNCHANGED status
     ELSE OrchAt("fail") /\ status' = "Error"
  /\ UNCHANGED <<ctxDone, starter, emitter, worker, caller, chunk, laid, handle,
                 files, faults>>

Fail ==
  /\ orch.pc = "fail"
  /\ handle' = "nil"
  /\ OrchAt("quit")
  /\ UNCHANGED <<status, ctxDone, starter, emitter, worker, caller, chunk, laid,
                 files, faults>>

Quit ==
  /\ orch.pc = "quit"
  /\ ctxDone' = TRUE
  /\ OrchAt("done")
  /\ UNCHANGED <<status, starter, emitter, worker, caller, chunk, laid, handle,
                 files, faults>>

\* The spawning loop takes no lock.
Spawn(w) ==
  /\ orch.pc = "spawn" /\ worker[w].pc = "idle"
  /\ \E c \in orch.todo :
       /\ chunk' = [chunk EXCEPT ![c].st = "Downloading"]
       /\ worker' = [worker EXCEPT ![w] = [pc |-> "begin", c |-> c]]
       /\ orch' = [orch EXCEPT !.todo = @ \ {c}]
  /\ UNCHANGED <<status, ctxDone, starter, emitter, caller, laid, handle, files, faults>>

SpawnEnd ==
  /\ orch.pc = "spawn"
  /\ orch.todo = {} \/ Running = Worker
  /\ orch' = [pc |-> "select", todo |-> {}]
  /\ UNCHANGED <<status, ctxDone, starter, emitter, worker, caller, chunk, laid,
                 handle, files, faults>>

\* finalizeDownload, which looks neither at the context nor at the status.
Verify ==
  /\ orch.pc = "finalize" /\ Running = {}
  /\ handle' = "nil"
  /\ IF With("Finished") = Chunk
     THEN OrchAt("rename") /\ UNCHANGED <<status, ctxDone>>
     ELSE OrchAt("done") /\ status' = "Error" /\ ctxDone' = TRUE
  /\ UNCHANGED <<starter, emitter, worker, caller, chunk, laid, files, faults>>

\* Mistake: the container's absence is not noticed.
RenameBlind ==
  /\ orch.pc = "rename"
  /\ dest' = temp /\ temp' = FALSE
  /\ OrchAt("cleanup")
  /\ UNCHANGED <<status, ctxDone, starter, emitter, worker, caller, chunk, laid,
                 handle, meta, faults>>

Rename ==
  /\ orch.pc = "rename" /\ temp
  /\ dest' = TRUE /\ temp' = FALSE
  /\ OrchAt("cleanup")
  /\ UNCHANGED <<status, ctxDone, starter, emitter, worker, caller, chunk, laid,
                 handle, meta, faults>>

\* The container is gone, or the file system refuses.
RenameFails ==
  /\ orch.pc = "rename"
  /\ status' = "Error" /\ ctxDone' = TRUE
  /\ OrchAt("done")
  /\ UNCHANGED <<starter, emitter, worker, caller, chunk, laid, handle, files, faults>>

CleanupCheckpoint ==
  /\ orch.pc = "cleanup"
  /\ meta' = FALSE
  /\ OrchAt("report")
  /\ UNCHANGED <<status, ctxDone, starter, emitter, worker, caller, chunk, laid,
                 handle, temp, dest, faults>>

Report ==
  /\ orch.pc = "report"
  /\ status' = "Finished" /\ ctxDone' = TRUE
  /\ OrchAt("done")
  /\ UNCHANGED <<starter, emitter, worker, caller, chunk, laid, handle, files, faults>>

Orchestrator ==
  \/ SelectDone \/ ScanFinished \/ ScanSpawn \/ ScanFail \/ Fail \/ Quit
  \/ (\E w \in Worker : Spawn(w)) \/ SpawnEnd
  \/ Verify \/ Rename \/ RenameFails \/ CleanupCheckpoint \/ Report
-----------------------------------------------------------------------------
(***************************************************************************)
(* Chunk workers.                                                          *)
(***************************************************************************)

WorkerAt(w, pc) == worker' = [worker EXCEPT ![w].pc = pc]

\* Mistake: the context is not looked at before the request.
BeginUnchecked(w) ==
  /\ worker[w].pc = "begin"
  /\ WorkerAt(w, "fetch")
  /\ UNCHANGED <<status, ctxDone, starter, orch, emitter, caller, chunk, laid,
                 handle, files, faults>>

Begin(w) ==
  /\ worker[w].pc = "begin"
  /\ WorkerAt(w, IF ctxDone THEN "exit" ELSE "fetch")
  /\ UNCHANGED <<status, ctxDone, starter, orch, emitter, caller, chunk, laid,
                 handle, files, faults>>

\* The chunk's last bytes are written, whether or not the context is done by now.
Complete(w) ==
  /\ worker[w].pc = "fetch" /\ handle = "open"
  /\ chunk' = [chunk EXCEPT ![worker[w].c].st = "Finished"]
  /\ WorkerAt(w, "exit")
  /\ UNCHANGED <<status, ctxDone, starter, orch, emitter, caller, laid, handle,
                 files, faults>>

\* The attempts are used up, or the server refuses, or the write fails.
Break(w) ==
  /\ worker[w].pc = "fetch" /\ ~ctxDone
  /\ faults < MaxFaults /\ faults' = faults + 1
  /\ chunk' = [chunk EXCEPT ![worker[w].c].st = "Error"]
  /\ WorkerAt(w, "exit")
  /\ UNCHANGED <<status, ctxDone, starter, orch, emitter, caller, laid, handle, files>>

Abandon(w) ==
  /\ worker[w].pc = "fetch" /\ ctxDone
  /\ WorkerAt(w, "exit")
  /\ UNCHANGED <<status, ctxDone, starter, orch, emitter, caller, chunk, laid,
                 handle, files, faults>>

\* Mistake: a worker that was cancelled skips workers.Done.
ExitForgotten(w) ==
  /\ worker[w].pc = "exit" /\ ~ctxDone
  /\ worker' = [worker EXCEPT ![w] = [pc |-> "idle", c |-> NoChunk]]
  /\ UNCHANGED <<status, ctxDone, starter, orch, emitter, caller, chunk, laid, handle,
                 files, faults>>

\* The end of runChunkWorker: a chunk that has moved gets its retries back.
Exit(w) ==
  /\ worker[w].pc = "exit"
  /\ \E moved \in BOOLEAN :
       chunk' = [chunk EXCEPT ![worker[w].c].retry = IF moved THEN 0 ELSE @]
  /\ worker' = [worker EXCEPT ![w] = [pc |-> "idle", c |-> NoChunk]]
  /\ UNCHANGED <<status, ctxDone, starter, orch, emitter, caller, laid, handle,
                 files, faults>>

WorkerStep(w) == Begin(w) \/ Complete(w) \/ Break(w) \/ Abandon(w) \/ Exit(w)
-----------------------------------------------------------------------------
(***************************************************************************)
(* progressEmitter: the checkpoint it saves every half second.             *)
(***************************************************************************)

Tick ==
  /\ emitter = "wait"
  /\ emitter' = IF status \in Stopped \cup {"Finished", "Error"} THEN "done" ELSE "save"
  /\ UNCHANGED <<status, ctxDone, starter, orch, worker, caller, chunk, laid,
                 handle, files, faults>>

EmitterDone ==
  /\ emitter = "wait" /\ ctxDone
  /\ emitter' = "done"
  /\ UNCHANGED <<status, ctxDone, starter, orch, worker, caller, chunk, laid,
                 handle, files, faults>>

EmitterSave ==
  /\ emitter = "save"
  /\ meta' = (meta \/ laid)
  /\ emitter' = "wait"
  /\ UNCHANGED <<status, ctxDone, starter, orch, worker, caller, chunk, laid,
                 handle, temp, dest, faults>>

Emitter == Tick \/ EmitterDone \/ EmitterSave
-----------------------------------------------------------------------------
(***************************************************************************)
(* Pause and Cancel.                                                       *)
(***************************************************************************)

CallerAt(p, pc) == caller' = [caller EXCEPT ![p].pc = pc]

\* A call of Pause, or of Cancel with DeletePartialOnFileCancel off or on ("delete").
Operation == {"pause", "cancel", "delete"}

\* The look at the status that a call starts with.
Call(p, op) ==
  /\ caller[p].pc = "idle"
  /\ status \notin IF op = "pause" THEN Stopped \cup {"Finished"} ELSE {"Finished"}
  /\ caller' = [caller EXCEPT ![p] = [pc |-> "cancel", op |-> op]]
  /\ UNCHANGED <<status, ctxDone, starter, orch, emitter, worker, chunk, laid,
                 handle, files, faults>>

CancelContext(p) ==
  /\ caller[p].pc = "cancel"
  /\ ctxDone' = TRUE
  /\ CallerAt(p, "status")
  /\ UNCHANGED <<status, starter, orch, emitter, worker, chunk, laid, handle,
                 files, faults>>

ChangeStatus(p) ==
  /\ caller[p].pc = "status"
  /\ status' = IF caller[p].op = "pause" THEN "Paused" ELSE "Canceled"
  /\ CallerAt(p, "wait")
  /\ UNCHANGED <<ctxDone, starter, orch, emitter, worker, chunk, laid, handle,
                 files, faults>>

\* Mistake: the call does not wait for the workers.
NobodyAwaited == TRUE

WorkersDone == Running = {}

WaitWorkers(p) ==
  /\ caller[p].pc = "wait"
  /\ WorkersDone
  /\ CallerAt(p, "close")
  /\ UNCHANGED <<status, ctxDone, starter, orch, emitter, worker, chunk, laid,
                 handle, files, faults>>

\* Pause puts the unfinished chunks back to pending; Cancel closes the container.
Close(p) ==
  /\ caller[p].pc = "close"
  /\ IF caller[p].op = "pause"
     THEN /\ chunk' = [c \in Chunk |-> IF chunk[c].st = "Finished" THEN chunk[c]
                                       ELSE [chunk[c] EXCEPT !.st = "Pending"]]
          /\ UNCHANGED handle
     ELSE /\ handle' = "nil"
          /\ UNCHANGED chunk
  /\ CallerAt(p, "files")
  /\ UNCHANGED <<status, ctxDone, starter, orch, emitter, worker, laid, files, faults>>

\* Mistake: Cancel deletes the container whatever the setting says.
DeletingAlways(p) == caller[p].op # "pause"

Deleting(p) == caller[p].op = "delete"

\* Save the checkpoint, or delete it with the container, whose name is known once
\* the chunks are laid out.
Settle(p) ==
  /\ caller[p].pc = "files"
  /\ IF Deleting(p)
     THEN /\ meta' = FALSE
          /\ temp' = (temp /\ ~laid)
     ELSE /\ meta' = (meta \/ laid)
          /\ UNCHANGED temp
  /\ CallerAt(p, "returned")
  /\ UNCHANGED <<status, ctxDone, starter, orch, emitter, worker, chunk, laid,
                 handle, dest, faults>>

CallerStep(p) ==
  \/ CancelContext(p) \/ ChangeStatus(p) \/ WaitWorkers(p) \/ Close(p) \/ Settle(p)
-----------------------------------------------------------------------------
Next ==
  \/ Start
  \/ Orchestrator
  \/ \E w \in Worker : WorkerStep(w)
  \/ Emitter
  \/ \E p \in Caller : (\E op \in Operation : Call(p, op)) \/ CallerStep(p)

Spec == Init /\ [][Next]_vars

\* The goroutines run; every request, wait and file operation ends.  A select whose
\* context is done takes that branch in the end, because Go chooses at random among
\* the branches that are ready.
Fairness ==
  /\ WF_vars(Start)
  /\ WF_vars(Orchestrator) /\ SF_vars(SelectDone)
  /\ \A w \in Worker : WF_vars(WorkerStep(w))
  /\ WF_vars(Emitter) /\ SF_vars(EmitterDone)
  /\ \A p \in Caller : WF_vars(CallerStep(p))

FairSpec == Spec /\ Fairness
-----------------------------------------------------------------------------
\* The variables keep their types, and the parts of a goroutine's local state fit
\* each other: an idle worker has no chunk, a working one has one.
TypeOK ==
  /\ status \in {"Pending", "Downloading", "Finished", "Error"} \cup Stopped
  /\ ctxDone \in BOOLEAN
  /\ starter \in [pc : {"probe", "prepare", "failed", "backoff", "check", "launch", "done"},
                  attempt : 1 .. MaxAttempts]
  /\ orch \in [pc : {"off", "select", "fail", "quit", "spawn", "finalize", "rename", "cleanup",
                     "report", "done"},
               todo : SUBSET Chunk]
  /\ emitter \in {"off", "wait", "save", "done"}
  /\ worker \in [Worker -> [pc : {"idle"}, c : {NoChunk}]
                          \cup [pc : {"begin", "fetch", "exit"}, c : Chunk]]
  /\ caller \in [Caller -> [pc : {"idle", "cancel", "status", "wait", "close", "files",
                                 "returned"},
                           op : {"none"} \cup Operation]]
  /\ chunk \in [Chunk -> [st : {"Pending", "Downloading", "Finished", "Error"},
                         retry : 0 .. MaxRetries]]
  /\ laid \in BOOLEAN
  /\ handle \in {"nil", "open", "closed"}
  /\ temp \in BOOLEAN /\ dest \in BOOLEAN /\ meta \in BOOLEAN
  /\ faults \in 0 .. MaxFaults

\* Once Pause or Cancel has waited for the workers, no worker writes any more,
\* although the orchestrator, which nobody waits for, may still spawn some.
StoppedIsQuiet ==
  \A p \in Caller : caller[p].pc \in {"close", "files", "returned"} =>
    \A w \in Worker : worker[w].pc # "fetch"

\* The container is never closed, nor its handle dropped, under a worker that has
\* not been cancelled: a write fails only for the disk's own reasons.
OpenWhileFetching ==
  (\E w \in Worker : worker[w].pc = "fetch") => handle = "open" \/ ctxDone

\* The destination file appears only when every chunk is finished, and a task is
\* finished only with its file there, whoever cancels or deletes in between.
FinishedIsWhole ==
  /\ dest => With("Finished") = Chunk
  /\ status = "Finished" => dest

\* What was downloaded is kept unless somebody asked for its deletion: the container
\* and its checkpoint exist, or the finished file does.
PartialKept ==
  laid /\ (\A p \in Caller : caller[p].op # "delete") =>
    dest \/ (temp /\ meta)

\* The goroutines of the task that nobody waits for have ended.
Ended ==
  /\ starter.pc = "done"
  /\ orch.pc \in {"off", "done"}
  /\ emitter \in {"off", "done"}
  /\ Running = {}

\* Whatever is called, and when: every call of Pause and Cancel returns, and once one
\* has cancelled the context every goroutine of the task ends, those nobody waits for
\* included.  (Neither is undone: calls are made once, and the context stays done.)
StopsAndEnds ==
  []<>(/\ \A p \in Caller : caller[p].pc \in {"idle", "returned"}
       /\ ctxDone => Ended)
=============================================================================
