---------------------------- MODULE HttpTransfer ----------------------------
(***************************************************************************)
(* The transfer of one HTTP file (downloader/http): the chunk workers of   *)
(* worker.go, the orchestrator loop of task_orchestrator.go with its       *)
(* retries and work-stealing splits, the fallback to a single stream, the  *)
(* user's changes of the thread count and the verification of              *)
(* task_finalize.go.                                                       *)
(*                                                                         *)
(* Offsets are bytes as in the code, scaled down: Buf stands for the 64KB  *)
(* read buffer and MinSplit for the 256KB below which a chunk is not split.*)
(* A behaviour starts where preCheck ends: the size and the thread count   *)
(* are known and the chunks are laid out.  Pause, Cancel and the saved     *)
(* checkpoint belong to other modules; here the task's context ends only   *)
(* when the task does.                                                     *)
(***************************************************************************)
EXTENDS Integers, FiniteSets, FiniteSetsExt

CONSTANTS
  FileLen,          \* the length of the file the server holds
  ProbedSizes,      \* the sizes the probe may find: FileLen, -1 for none
  InitThreads,      \* State.ThreadCount after preCheck found a size
  ThreadRequests,   \* the counts a user may ask UpdateThreadCount for
  MaxUserChanges,   \* bound: calls of UpdateThreadCount in one behaviour
  MaxChunks,        \* bound: chunk objects ever allocated
  Worker,           \* identities for worker goroutines
  NoWorker,
  Buf,              \* bytes one Read may return
  MinSplit,         \* remaining bytes below which a chunk is not split
  MaxRetries,       \* EngineConfig.MaxRetries
  DynamicParts,     \* EngineConfig.DynamicPartCreation
  RangeSupport,     \* how the server treats a Range header
  MaxFaults         \* bound: failed requests, broken bodies and write errors

ASSUME SizeAssumption ==
  /\ FileLen \in Nat
  /\ ProbedSizes \subseteq {FileLen, -1}
  /\ InitThreads \in Nat \ {0}
  /\ InitThreads = 1 \/ FileLen >= 2 * InitThreads

ASSUME BoundAssumption ==
  /\ ThreadRequests \subseteq Int
  /\ MaxUserChanges \in Nat
  /\ MaxChunks \in Nat /\ InitThreads <= MaxChunks
  /\ NoWorker \notin Worker
  /\ Buf \in Nat \ {0}
  /\ MinSplit \in Nat /\ MinSplit >= 2
  /\ MaxRetries \in Nat \ {0}
  /\ DynamicParts \in BOOLEAN
  /\ RangeSupport \in {"honoured", "ignored", "mixed"}
  /\ MaxFaults \in Nat

Obj == 1 .. MaxChunks

VARIABLES
  status,           \* State.Status
  totalSize,        \* State.TotalSize
  threads,          \* State.ThreadCount
  live,             \* State.Chunks: the task's chunk objects, ordered by start
  nobj,             \* chunk objects allocated so far
  chunk,            \* the chunk objects (core.ChunkState)
  worker,           \* the local state of each worker goroutine
  cancelled,        \* the workers whose own context is cancelled
  entry,            \* workerCancels: the worker a chunk's cancel function reaches
  orch,             \* the local state of OrchestratorLoop
  user,             \* the local state of a call of UpdateThreadCount
  mu,               \* who keeps State.Mu from one step to the next
  ctxDone,          \* the task's context is cancelled
  written,          \* the offsets written to the container file
  faults            \* faults so far

chunkVars == <<live, nobj, chunk>>
workerVars == <<worker, cancelled, entry>>
vars == <<status, totalSize, threads, live, nobj, chunk, worker, cancelled, entry, orch,
          user, mu, ctxDone, written, faults>>

ChunkStatus == {"Pending", "Downloading", "Finished", "Error"}
NoChunk == [start |-> 0, cur |-> 0, end |-> 0, st |-> "Pending", retry |-> 0]

\* cur: currentByte; lim: the last offset asked for, then the last one the body
\* holds; dend: dynamicEnd; full: isFull200OK; got: readSuccess; from: startCur.
Idle == [pc |-> "idle", c |-> 1, cur |-> 0, lim |-> 0, dend |-> 0, full |-> FALSE,
         got |-> FALSE, attempt |-> 0, from |-> 0]
OrchIdle == [pc |-> "idle", active |-> 0, pend |-> {}, retr |-> {},
             thr |-> 0, slots |-> 0]
UserIdle == [left |-> 0, calls |-> 0]
-----------------------------------------------------------------------------
\* InitializeChunks without a checkpoint: one chunk, or ThreadCount equal ranges
\* the last of which takes the remainder.  Without a size there is one thread.
Laid == IF totalSize > 0 THEN InitThreads ELSE 1

FreshChunk(i) ==
  LET size == totalSize \div Laid
  IN  IF Laid = 1
      THEN [NoChunk EXCEPT !.end = IF totalSize >= 1 THEN totalSize - 1 ELSE totalSize]
      ELSE [NoChunk EXCEPT !.start = (i - 1) * size,
                           !.cur   = (i - 1) * size,
                           !.end   = IF i = Laid THEN totalSize - 1
                                                        ELSE i * size - 1]

Init ==
  /\ status = "Downloading"
  /\ totalSize \in ProbedSizes
  /\ threads = Laid
  /\ live = 1 .. Laid
  /\ nobj = Laid
  /\ chunk = [c \in Obj |-> IF c <= Laid THEN FreshChunk(c) ELSE NoChunk]
  /\ worker = [w \in Worker |-> Idle]
  /\ cancelled = {}
  /\ entry = [c \in Obj |-> NoWorker]
  /\ orch = OrchIdle
  /\ user = UserIdle
  /\ mu = "free"
  /\ ctxDone = FALSE
  /\ written = {}
  /\ faults = 0
-----------------------------------------------------------------------------
\* The list is kept sorted by start and renumbered, so ID 0 is the chunk that
\* starts the file; a dropped chunk keeps the ID it had.
IsFirst(c) == chunk[c].start = 0

IsDone(w) == ctxDone \/ w \in cancelled

\* Mistake: the boundary is read as exclusive.
ChunkCompleteLate(c) ==
  chunk[c].st = "Finished" /\ (chunk[c].end <= 0 \/ chunk[c].cur > chunk[c].end + 1)

ChunkComplete(c) ==
  chunk[c].st = "Finished" /\ (chunk[c].end <= 0 \/ chunk[c].cur > chunk[c].end)

Downloaded == MapThenSumSet(LAMBDA c : chunk[c].cur - chunk[c].start, live)

SetStatus(c, s) == chunk' = [chunk EXCEPT ![c].st = s]

\* The WaitGroup: the workers that have not returned.
Running == {w \in Worker : worker[w].pc # "idle"}

\* SplitLargestChunk picks the first of the unfinished chunks with most left.
Left(c) == chunk[c].end - chunk[c].cur
Splittable(c) ==
  /\ c \in live
  /\ chunk[c].st \in {"Downloading", "Pending"}
  /\ Left(c) >= MinSplit
  /\ \A d \in live : chunk[d].st \in {"Downloading", "Pending"} =>
       \/ Left(d) < Left(c)
       \/ Left(d) = Left(c) /\ chunk[c].start <= chunk[d].start

\* Where the first half of a split chunk ends.
MidPoint(c) == chunk[c].cur + Left(c) \div 2

\* SplitLargestChunk: the second half of what is left becomes a new chunk.
Split(c) ==
  LET mid == MidPoint(c)
      new == nobj + 1
  IN  /\ new \in Obj
      /\ nobj' = new
      /\ live' = live \cup {new}
      /\ chunk' = [chunk EXCEPT ![c].end = MidPoint(c),
                                ![new] = [start |-> mid + 1, cur |-> mid + 1,
                                          end |-> chunk[c].end,
                                          st |-> "Pending", retry |-> 0]]
-----------------------------------------------------------------------------
(***************************************************************************)
(* Chunk workers: DownloadChunk, and runChunkWorker around it.             *)
(***************************************************************************)

Goto(w, pc) == worker' = [worker EXCEPT ![w].pc = pc]

\* The head of the attempt loop: leave if cancelled, mark a chunk that has
\* reached its end, else send the request.
Begin(w) ==
  LET c == worker[w].c IN
  /\ worker[w].pc = "begin"
  /\ \/ /\ IsDone(w)
        /\ Goto(w, "exit")
        /\ UNCHANGED chunk
     \/ /\ ~IsDone(w)
        /\ chunk[c].end > 0 /\ chunk[c].cur > chunk[c].end
        /\ SetStatus(c, "Finished")
        /\ Goto(w, "exit")
     \/ /\ ~IsDone(w)
        /\ ~(chunk[c].end > 0 /\ chunk[c].cur > chunk[c].end)
        /\ worker' = [worker EXCEPT ![w].pc = "request", ![w].cur = chunk[c].cur,
                                    ![w].lim = chunk[c].end, ![w].got = FALSE,
                                    ![w].full = FALSE]
        /\ UNCHANGED chunk
  /\ UNCHANGED <<status, totalSize, threads, live, nobj, cancelled, entry, orch, user, mu,
                 ctxDone, written, faults>>

\* The request carries a Range header unless it asks for the whole file.
HasRange(w) == worker[w].lim > 0 \/ worker[w].cur > 0

\* 206 Partial Content: the body holds cur .. lim, or cur .. the end of the file.
Reply206(w) ==
  /\ worker[w].pc = "request"
  /\ RangeSupport # "ignored" /\ HasRange(w)
  /\ worker[w].cur < FileLen
  /\ worker' = [worker EXCEPT ![w].pc = "stream",
                  ![w].lim = IF @ > 0 THEN @ ELSE FileLen - 1]
  /\ UNCHANGED <<status, totalSize, threads, chunkVars, cancelled, entry, orch, user, mu,
                 ctxDone, written, faults>>

May200(w) ==
  /\ worker[w].pc = "request"
  /\ RangeSupport # "honoured" \/ ~HasRange(w)

\* 200 OK for a chunk other than the first: it is marked finished, on the
\* assumption that the first chunk will stream the whole file.
Reply200Other(w) ==
  LET c == worker[w].c IN
  /\ May200(w) /\ ~IsFirst(c)
  /\ IF IsDone(w)
     THEN UNCHANGED chunk
     ELSE chunk' = [chunk EXCEPT ![c].st = "Finished",
                      ![c].cur = IF worker[w].lim > 0 THEN worker[w].lim + 1 ELSE @]
  /\ Goto(w, "exit")
  /\ UNCHANGED <<status, totalSize, threads, live, nobj, cancelled, entry, orch, user, mu,
                 ctxDone, written, faults>>

\* Mistake: the known size is forgotten when the task falls back to one stream.
WholeEndUnknown == -1

\* The end of the one chunk left by FallbackToSingleStream.
WholeEnd == IF totalSize > 0 THEN totalSize - 1 ELSE -1

\* 200 OK for the first chunk: FallbackToSingleStream drops the other chunks,
\* cancels their workers and leaves one thread; the worker starts from byte 0.
Reply200First(w) ==
  LET c == worker[w].c
      others == {entry[d] : d \in live \ {c}} \ {NoWorker}
  IN
  /\ May200(w) /\ IsFirst(c)
  /\ mu = "free"
  /\ threads' = 1
  /\ chunk' = [chunk EXCEPT ![c].cur = 0, ![c].end = WholeEnd]
  /\ cancelled' = cancelled \cup others
  /\ entry' = [d \in Obj |-> IF d \in live \ {c} THEN NoWorker ELSE entry[d]]
  /\ live' = {c}
  /\ worker' = [worker EXCEPT ![w].pc = "stream", ![w].cur = 0, ![w].full = TRUE,
                              ![w].lim = FileLen - 1]
  /\ UNCHANGED <<status, totalSize, nobj, orch, user, mu, ctxDone, written, faults>>

\* The next attempt, or the end of the last one: an attempt that read something
\* does not count, unless it was the first.
NextAttempt(w) ==
  LET c == worker[w].c
      n == IF worker[w].got /\ worker[w].attempt > 0 THEN worker[w].attempt
                                                     ELSE worker[w].attempt + 1
  IN
  IF IsDone(w)
  THEN Goto(w, "exit") /\ UNCHANGED chunk
  ELSE IF n < MaxRetries
  THEN /\ worker' = [worker EXCEPT ![w].pc = "begin", ![w].attempt = n]
       /\ UNCHANGED chunk
  ELSE /\ SetStatus(c, IF chunk[c].end > 0 /\ chunk[c].cur > chunk[c].end
                       THEN "Finished" ELSE "Error")
       /\ Goto(w, "exit")

\* A connection error, 429 or 5xx: tried again.
ReplyBusy(w) ==
  /\ worker[w].pc = "request"
  /\ faults < MaxFaults /\ faults' = faults + 1
  /\ NextAttempt(w)
  /\ UNCHANGED <<status, totalSize, threads, live, nobj, cancelled, entry, orch, user, mu,
                 ctxDone, written>>

\* Any other 4xx, and 416 for a range past the end of the file: the chunk fails.
ReplyDenied(w) ==
  /\ worker[w].pc = "request"
  /\ IF worker[w].cur >= FileLen /\ HasRange(w)
     THEN UNCHANGED faults
     ELSE faults < MaxFaults /\ faults' = faults + 1
  /\ IF IsDone(w) THEN UNCHANGED chunk ELSE SetStatus(worker[w].c, "Error")
  /\ Goto(w, "exit")
  /\ UNCHANGED <<status, totalSize, threads, live, nobj, cancelled, entry, orch, user, mu,
                 ctxDone, written>>

\* The context is cancelled while the worker waits for a reply, for data or for
\* bandwidth.
Abandon(w) ==
  /\ worker[w].pc \in {"request", "read"}
  /\ IsDone(w)
  /\ Goto(w, "exit")
  /\ UNCHANGED <<status, totalSize, threads, chunkVars, cancelled, entry, orch, user, mu,
                 ctxDone, written, faults>>

\* The head of the read loop: take the chunk's present end, which a split may
\* have moved, and stop a range reply that has passed it.
Stream(w) ==
  LET c == worker[w].c
      passed == ~worker[w].full /\ chunk[c].end > 0 /\ worker[w].cur > chunk[c].end
  IN
  /\ worker[w].pc = "stream"
  /\ \/ /\ IsDone(w)
        /\ Goto(w, "exit")
        /\ UNCHANGED chunk
     \/ /\ ~IsDone(w) /\ passed
        /\ SetStatus(c, "Finished")
        /\ Goto(w, "exit")
     \/ /\ ~IsDone(w) /\ ~passed
        /\ worker' = [worker EXCEPT ![w].pc = "read", ![w].dend = chunk[c].end]
        /\ UNCHANGED chunk
  /\ UNCHANGED <<status, totalSize, threads, live, nobj, cancelled, entry, orch, user, mu,
                 ctxDone, written, faults>>

\* How many of n bytes are written: a range reply is clipped at dynamicEnd, a full
\* one is not.
WriteCount(w, n) ==
  LET cur == worker[w].cur
      dend == worker[w].dend
  IN  IF ~worker[w].full /\ dend > 0 /\ cur + n - 1 > dend THEN dend - cur + 1 ELSE n

\* Mistake: the whole buffer is counted, however little of it was filled.
NextByteOfBuffer(w, n) == worker[w].cur + Buf

NextByte(w, n) == worker[w].cur + WriteCount(w, n)

\* The body yields n bytes, which are written and counted.  Both kinds of reply
\* stop once dynamicEnd is behind them.
Read(w) ==
  LET c == worker[w].c
      cur == worker[w].cur
      dend == worker[w].dend
  IN
  /\ worker[w].pc = "read"
  /\ \E n \in 1 .. Buf :
       LET next == NextByte(w, n)
           ended == dend > 0 /\ next > dend
       IN
       /\ cur + n - 1 <= worker[w].lim
       /\ written' = written \cup (cur .. cur + WriteCount(w, n) - 1)
       /\ chunk' = [chunk EXCEPT ![c].cur = next,
                                 ![c].st = IF ended THEN "Finished" ELSE @]
       /\ worker' = [worker EXCEPT ![w].pc = IF ended THEN "exit" ELSE "stream",
                                   ![w].cur = next, ![w].got = TRUE]
  /\ UNCHANGED <<status, totalSize, threads, live, nobj, cancelled, entry, orch, user, mu,
                 ctxDone, faults>>

\* Mistake: the error of WriteAt is not looked at.
WriteErrorIgnored(w) ==
  /\ worker[w].pc = "read" /\ worker[w].cur <= worker[w].lim
  /\ faults < MaxFaults /\ faults' = faults + 1
  /\ chunk' = [chunk EXCEPT ![worker[w].c].cur = worker[w].cur + 1]
  /\ worker' = [worker EXCEPT ![w].pc = "stream", ![w].cur = @ + 1]
  /\ UNCHANGED <<status, totalSize, threads, live, nobj, cancelled, entry, orch, user, mu,
                 ctxDone, written>>

\* The write fails: the chunk does.
WriteError(w) ==
  /\ worker[w].pc = "read" /\ worker[w].cur <= worker[w].lim
  /\ faults < MaxFaults /\ faults' = faults + 1
  /\ IF IsDone(w) THEN UNCHANGED chunk ELSE SetStatus(worker[w].c, "Error")
  /\ Goto(w, "exit")
  /\ UNCHANGED <<status, totalSize, threads, live, nobj, cancelled, entry, orch, user, mu,
                 ctxDone, written>>

\* The body ends.  A chunk of unknown end learns it here; one whose end has not
\* been reached is tried again.
Eof(w) ==
  LET c == worker[w].c
      cur == worker[w].cur
      dend == worker[w].dend
  IN
  /\ worker[w].pc = "read" /\ cur > worker[w].lim
  /\ \/ /\ IsDone(w)
        /\ Goto(w, "exit")
        /\ UNCHANGED chunk
     \/ /\ ~IsDone(w)
        /\ dend = 0 \/ (dend > 0 /\ cur > dend)
        /\ SetStatus(c, "Finished")
        /\ Goto(w, "exit")
     \/ /\ ~IsDone(w)
        /\ dend < 0
        /\ chunk' = [chunk EXCEPT ![c].end = cur - 1, ![c].st = "Finished"]
        /\ Goto(w, "exit")
     \/ /\ ~IsDone(w)
        /\ dend > 0 /\ cur <= dend
        /\ NextAttempt(w)
  /\ UNCHANGED <<status, totalSize, threads, live, nobj, cancelled, entry, orch, user, mu,
                 ctxDone, written, faults>>

\* The connection drops, or the watchdog closes a body that is silent for 20s.
Drop(w) ==
  /\ worker[w].pc = "read"
  /\ faults < MaxFaults /\ faults' = faults + 1
  /\ NextAttempt(w)
  /\ UNCHANGED <<status, totalSize, threads, live, nobj, cancelled, entry, orch, user, mu,
                 ctxDone, written>>

\* runChunkWorker's end: a chunk that moved by more than a buffer gets its
\* retries back, and the chunk's cancel function is forgotten, whoever's it is.
Exit(w) ==
  LET c == worker[w].c IN
  /\ worker[w].pc = "exit"
  /\ chunk' = [chunk EXCEPT ![c].retry =
                 IF chunk[c].cur > worker[w].from + Buf THEN 0 ELSE @]
  /\ entry' = [entry EXCEPT ![c] = NoWorker]
  /\ worker' = [worker EXCEPT ![w] = Idle]
  /\ cancelled' = cancelled \ {w}
  /\ UNCHANGED <<status, totalSize, threads, live, nobj, orch, user, mu, ctxDone, written,
                 faults>>

WorkerStep(w) ==
  \/ Begin(w) \/ Reply206(w) \/ Reply200Other(w) \/ Reply200First(w)
  \/ ReplyBusy(w) \/ ReplyDenied(w) \/ Abandon(w) \/ Stream(w) \/ Read(w)
  \/ WriteError(w) \/ Eof(w) \/ Drop(w) \/ Exit(w)
-----------------------------------------------------------------------------
(***************************************************************************)
(* OrchestratorLoop.  The 250ms ticker wakes it at any time.               *)
(***************************************************************************)

AllFinished ==
  /\ \A c \in live : ChunkComplete(c)
  /\ totalSize > 0 => Downloaded >= totalSize

\* The unfinished chunks by status; a chunk marked finished short of its end
\* counts as pending.
Active  == {c \in live : ~ChunkComplete(c) /\ chunk[c].st = "Downloading"}
Errors  == {c \in live : ~ChunkComplete(c) /\ chunk[c].st = "Error"}
Waiting == {c \in live : ~ChunkComplete(c) /\ chunk[c].st \in {"Pending", "Finished"}}
Retriable == {c \in Errors : chunk[c].retry < MaxRetries}

Retried(c) == [chunk[c] EXCEPT !.st = "Pending", !.retry = @ + 1]

\* The scan under State.Mu: finalize, or fail, or put the errors that have
\* retries left back to pending and go on with what was seen.
Scan ==
  /\ orch.pc = "idle" /\ ~ctxDone
  /\ mu = "free"
  /\ \/ /\ AllFinished
        /\ orch' = [orch EXCEPT !.pc = "finalize"]
        /\ UNCHANGED <<status, chunk, ctxDone>>
     \/ /\ ~AllFinished
        /\ Active = {} /\ Waiting = {} /\ Retriable = {}
        /\ status' = "Error"
        /\ ctxDone' = TRUE
        /\ orch' = [OrchIdle EXCEPT !.pc = "done"]
        /\ UNCHANGED chunk
     \/ /\ ~AllFinished
        /\ Active \cup Waiting \cup Retriable # {}
        /\ chunk' = [c \in Obj |-> IF c \in Retriable THEN Retried(c) ELSE chunk[c]]
        /\ orch' = [OrchIdle EXCEPT
             !.pc = IF DynamicParts /\ Cardinality(Active) < threads
                       /\ Errors = {} /\ totalSize > 0
                    THEN "lock" ELSE "spawn",
             !.active = Cardinality(Active), !.pend = Waiting,
             !.retr = Retriable, !.thr = threads]
        /\ UNCHANGED <<status, ctxDone>>
  /\ UNCHANGED <<totalSize, threads, live, nobj, workerVars, user, mu, written, faults>>

\* State.Mu again, after it was released: is the list still shorter than the
\* thread count that was read?
SplitLock ==
  /\ orch.pc = "lock"
  /\ mu = "free"
  /\ IF Cardinality(live) < orch.thr
     THEN /\ mu' = "orch"
          /\ orch' = [orch EXCEPT !.pc = "split",
                        !.slots = orch.thr - (orch.active + Cardinality(orch.pend))]
     ELSE /\ orch' = [orch EXCEPT !.pc = "spawn"]
          /\ UNCHANGED mu
  /\ UNCHANGED <<status, totalSize, threads, chunkVars, workerVars, user, ctxDone, written,
                 faults>>

MaySplit == orch.slots > 0 /\ Cardinality(live) < orch.thr
CanSplit == \E c \in live : Splittable(c)

SplitStep ==
  /\ orch.pc = "split"
  /\ MaySplit
  /\ \E c \in live : Splittable(c) /\ Split(c)
  /\ orch' = [orch EXCEPT !.slots = @ - 1]
  /\ UNCHANGED <<status, totalSize, threads, workerVars, user, mu, ctxDone, written, faults>>

\* The splits are done: only chunks whose status is Pending are pending now.
SplitUnlock ==
  /\ orch.pc = "split"
  /\ ~(MaySplit /\ CanSplit /\ nobj < MaxChunks)
  /\ orch' = [orch EXCEPT !.pc = "spawn", !.slots = 0, !.retr = {},
                          !.pend = {c \in live : chunk[c].st = "Pending"}]
  /\ mu' = "free"
  /\ UNCHANGED <<status, totalSize, threads, chunkVars, workerVars, user, ctxDone, written,
                 faults>>

\* The next pending chunk in list order, the retried ones last.
NextPending ==
  LET from == IF orch.pend # {} THEN orch.pend ELSE orch.retr
  IN  {c \in from : \A d \in from : chunk[c].start <= chunk[d].start}

\* One turn of the spawning loop, which takes no lock and looks at nothing that
\* may have changed since the scan.
Spawn(w) ==
  /\ orch.pc = "spawn"
  /\ orch.active < orch.thr
  /\ worker[w].pc = "idle"
  /\ \E c \in NextPending :
       /\ SetStatus(c, "Downloading")
       /\ worker' = [worker EXCEPT ![w] = [Idle EXCEPT !.pc = "begin", !.c = c,
                                                       !.from = chunk[c].cur]]
       /\ entry' = [entry EXCEPT ![c] = w]
       /\ orch' = [orch EXCEPT !.active = @ + 1, !.pend = @ \ {c}, !.retr = @ \ {c}]
  /\ UNCHANGED <<status, totalSize, threads, live, nobj, cancelled, user, mu, ctxDone,
                 written, faults>>

SpawnEnd ==
  /\ orch.pc = "spawn"
  /\ orch.active >= orch.thr \/ NextPending = {} \/ Running = Worker
  /\ orch' = OrchIdle
  /\ UNCHANGED <<status, totalSize, threads, chunkVars, workerVars, user, mu, ctxDone,
                 written, faults>>

\* finalizeDownload, once the last worker is gone: verify every chunk and the
\* total, then rename the container and report.  Either way the context ends.
Verified ==
  /\ \A c \in live : /\ chunk[c].st = "Finished"
                     /\ ~(chunk[c].end > 0 /\ chunk[c].cur <= chunk[c].end)
  /\ totalSize > 0 => Downloaded >= totalSize

\* Mistake: the workers are not waited for.
NobodyAwaited == TRUE

WorkersDone == Running = {}

Finalize ==
  /\ orch.pc = "finalize"
  /\ WorkersDone
  /\ mu = "free"
  /\ status' = IF Verified THEN "Finished" ELSE "Error"
  /\ ctxDone' = TRUE
  /\ orch' = [OrchIdle EXCEPT !.pc = "done"]
  /\ UNCHANGED <<totalSize, threads, chunkVars, workerVars, user, mu, written, faults>>

Orchestrator ==
  \/ Scan \/ SplitLock \/ SplitStep \/ SplitUnlock
  \/ (\E w \in Worker : Spawn(w)) \/ SpawnEnd \/ Finalize
-----------------------------------------------------------------------------
(***************************************************************************)
(* UpdateThreadCount, called from the user interface at any time.          *)
(***************************************************************************)

\* The downloading chunks after the first n in list order.
Excess(n) ==
  LET busy == {c \in live : chunk[c].st = "Downloading"}
  IN  {c \in busy :
         Cardinality({d \in busy : chunk[d].start <= chunk[c].start}) > n}

NewCount(k) == IF k <= 0 THEN 1 ELSE k

UpdateThreadCount(k) ==
  LET n == NewCount(k)
      excess == Excess(n)
  IN
  /\ mu = "free" /\ user.calls < MaxUserChanges
  /\ threads' = n
  /\ chunk' = [c \in Obj |-> IF c \in excess
                             THEN [chunk[c] EXCEPT !.st = "Pending"] ELSE chunk[c]]
  /\ cancelled' = cancelled \cup ({entry[c] : c \in excess} \ {NoWorker})
  /\ entry' = [c \in Obj |-> IF c \in excess THEN NoWorker ELSE entry[c]]
  /\ IF n > Cardinality(live) /\ totalSize > 0
     THEN /\ user' = [calls |-> user.calls + 1, left |-> n - Cardinality(live)]
          /\ mu' = "user"
     ELSE /\ user' = [user EXCEPT !.calls = @ + 1]
          /\ UNCHANGED mu
  /\ UNCHANGED <<status, totalSize, live, nobj, worker, orch, ctxDone, written, faults>>

\* One of the splits a raised count asks for; one that finds nothing to split
\* changes nothing.
UserSplit ==
  /\ mu = "user"
  /\ IF CanSplit /\ nobj < MaxChunks
     THEN \E c \in live : Splittable(c) /\ Split(c)
     ELSE UNCHANGED chunkVars
  /\ user' = [user EXCEPT !.left = @ - 1]
  /\ mu' = IF user.left = 1 THEN "free" ELSE "user"
  /\ UNCHANGED <<status, totalSize, threads, workerVars, orch, ctxDone, written, faults>>

User == (\E k \in ThreadRequests : UpdateThreadCount(k)) \/ UserSplit
-----------------------------------------------------------------------------
Next ==
  \/ \E w \in Worker : WorkerStep(w)
  \/ Orchestrator
  \/ User

Spec == Init /\ [][Next]_vars

\* The goroutines run, and every request and read ends one way or another: the
\* client has timeouts and the watchdog closes a silent body.
Fairness ==
  /\ \A w \in Worker : WF_vars(WorkerStep(w))
  /\ WF_vars(Orchestrator)
  /\ WF_vars(UserSplit)

FairSpec == Spec /\ Fairness
-----------------------------------------------------------------------------
ChunkType == [start : Nat, cur : 0 .. FileLen, end : -1 .. FileLen,
              st : ChunkStatus, retry : 0 .. MaxRetries]
WorkerType == [pc : {"idle", "begin", "request", "stream", "read", "exit"}, c : Obj,
               cur : 0 .. FileLen, lim : -1 .. FileLen, dend : -1 .. FileLen,
               full : BOOLEAN, got : BOOLEAN, attempt : 0 .. MaxRetries, from : Nat]
OrchType == [pc : {"idle", "lock", "split", "spawn", "finalize", "done"},
             active : Nat, pend : SUBSET (1 .. nobj), retr : SUBSET (1 .. nobj),
             thr : Nat, slots : Int]

\* The variables keep their types.  No worker counts, asks for or writes past the
\* end of the file, no retry counter passes MaxRetries, and the chunks an
\* orchestrator has in hand are chunks that were allocated.
TypeOK ==
  /\ status \in {"Downloading", "Finished", "Error"}
  /\ totalSize \in ProbedSizes
  /\ threads \in Nat \ {0}
  /\ nobj \in 1 .. MaxChunks
  /\ live \subseteq 1 .. nobj
  /\ chunk \in [Obj -> ChunkType]
  /\ worker \in [Worker -> WorkerType]
  /\ cancelled \subseteq Worker
  /\ entry \in [Obj -> Worker \cup {NoWorker}]
  /\ orch \in OrchType
  /\ user \in [left : Int, calls : Nat]
  /\ mu \in {"free", "orch", "user"}
  /\ ctxDone \in BOOLEAN
  /\ written \subseteq 0 .. FileLen - 1
  /\ faults \in 0 .. MaxFaults

\* What a chunk counts as downloaded is on disk: every offset from its start up
\* to its current byte has been written to the container, whichever worker wrote
\* it and however often the chunk was split, re-queued or taken over.
CountedIsWritten ==
  \A c \in live : chunk[c].start .. chunk[c].cur - 1 \subseteq written

\* The chunks of a file of known size tile it: every offset lies in exactly one
\* chunk of the list, through splits by the orchestrator and by the user, the
\* fallback to a single stream and the workers' own moves.
ChunksTileFile ==
  totalSize > 0 =>
    \A b \in 0 .. totalSize - 1 :
      \E c \in live : /\ chunk[c].start <= b /\ b <= chunk[c].end
                      /\ \A d \in live \ {c} : ~(chunk[d].start <= b /\ b <= chunk[d].end)

\* A file reported finished has no hole: the container that finalizeDownload
\* renames holds every byte of the file.
FinishedHasNoHole == status = "Finished" => written = 0 .. FileLen - 1

\* The container is renamed only when no goroutine is left that could write to it.
NoWriterAfterFinish == status = "Finished" => Running = {}

\* The task ends: every download finishes or fails.
Terminates == <>(status # "Downloading")

\* The promise of a download task, with the container for its disk.
Promise == INSTANCE FileDownload WITH
  stored <- written,
  outcome <- CASE status = "Downloading" -> "running"
               [] status = "Finished"    -> "complete"
               [] status = "Error"       -> "failed"
KeepsPromise == Promise!FDSpec
=============================================================================
