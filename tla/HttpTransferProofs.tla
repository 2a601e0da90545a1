------------------------- MODULE HttpTransferProofs -------------------------
(***************************************************************************)
(* Theorems about HttpTransfer: first, whatever the server answers, that   *)
(* the state has its type, no worker writes after the task has finished    *)
(* and the chunks tile a file of known size; then, with a server that      *)
(* honours ranges or a file that is fetched whole, that what is counted is *)
(* on disk, a finished file has no hole, and the transfer implements       *)
(* FileDownload.                                                           *)
(***************************************************************************)
EXTENDS HttpTransfer, TLAPS, FiniteSetTheorems

\* A chunk of known end ends inside the file.
EndsInFile == \A c \in Obj : chunk[c].end > 0 => chunk[c].end < FileLen
\* A worker asks for nothing past the end of the file, and a body it reads holds
\* nothing past it.
LimInFile(r) ==
  /\ r.lim > 0 => r.lim < FileLen
  /\ r.pc \in {"stream", "read"} => r.lim < FileLen
\* A range reply is read only while dynamicEnd is ahead.
AheadOfEnd(r) ==
  r.pc = "read" /\ ~r.full /\ r.dend > 0 => r.cur <= r.dend

\* TypeInv is TypeOK with what makes it inductive, in three parts: what the chunks,
\* the workers and the other variables satisfy.
ChunkInv == chunk \in [Obj -> ChunkType] /\ EndsInFile
WorkerInv ==
  /\ worker \in [Worker -> WorkerType]
  /\ \A w \in Worker : /\ worker[w].c <= nobj
                       /\ LimInFile(worker[w])
                       /\ AheadOfEnd(worker[w])
OtherInv ==
  /\ status \in {"Downloading", "Finished", "Error"}
  /\ totalSize \in ProbedSizes
  /\ threads \in Nat \ {0}
  /\ nobj \in 1 .. MaxChunks
  /\ live \subseteq 1 .. nobj
  /\ cancelled \subseteq Worker
  /\ entry \in [Obj -> Worker \cup {NoWorker}]
  /\ orch \in OrchType
  /\ user \in [left : Int, calls : Nat]
  /\ mu \in {"free", "orch", "user"}
  /\ ctxDone \in BOOLEAN
  /\ written \subseteq 0 .. FileLen - 1
  /\ faults \in 0 .. MaxFaults

TypeInv == ChunkInv /\ WorkerInv /\ OtherInv

\* Products and quotients of natural numbers, for the ranges InitializeChunks lays out.
LEMMA Product == ASSUME NEW i \in Nat, NEW n \in Nat, i <= n, NEW size \in Nat
  PROVE i * size <= n * size
  OBVIOUS

\* The same of a quotient, which the layout of the chunks divides by.
LEMMA Quot == ASSUME NEW b \in Nat, NEW d \in Nat \ {0}
  PROVE (b \div d) \in Nat /\ (b \div d) * d <= b /\ b < (b \div d + 1) * d
  OBVIOUS

\* One chunk, or one worker, changes.
LEMMA ChunkUpdate ==
  ASSUME ChunkInv, NEW c \in Obj, NEW k \in ChunkType, k.end > 0 => k.end < FileLen,
         chunk' = [chunk EXCEPT ![c] = k]
  PROVE  ChunkInv'
BY SizeAssumption DEF ChunkInv, EndsInFile

\* One worker changes to one that stays within the file.
LEMMA WorkerUpdate ==
  ASSUME WorkerInv, NEW w \in Worker, NEW r \in WorkerType,
         r.c <= nobj, LimInFile(r), AheadOfEnd(r), nobj' = nobj,
         worker' = [worker EXCEPT ![w] = r]
  PROVE  WorkerInv'
BY DEF WorkerInv

\* The updates the worker steps share.
LEMMA GotoInv ==
  ASSUME WorkerInv, NEW w \in Worker, Goto(w, "exit"), nobj' = nobj
  PROVE  WorkerInv'
<1> DEFINE r == [worker[w] EXCEPT !.pc = "exit"]
<1>1. worker[w] \in WorkerType /\ worker[w].c <= nobj /\ LimInFile(worker[w])
  BY DEF WorkerInv
<1>2. r \in WorkerType /\ r.c <= nobj /\ LimInFile(r) /\ AheadOfEnd(r)
  BY <1>1 DEF WorkerType, LimInFile, AheadOfEnd
<1>3. worker' = [worker EXCEPT ![w] = r] BY DEF Goto
<1> QED BY <1>2, <1>3, WorkerUpdate

\* Setting the status of a chunk.
LEMMA StatusInv ==
  ASSUME ChunkInv, NEW c \in Obj, NEW s \in ChunkStatus, SetStatus(c, s)
  PROVE  ChunkInv'
<1> DEFINE k == [chunk[c] EXCEPT !.st = s]
<1>1. chunk[c] \in ChunkType /\ (chunk[c].end > 0 => chunk[c].end < FileLen) BY DEF ChunkInv, EndsInFile
<1>2. k \in ChunkType /\ (k.end > 0 => k.end < FileLen) BY <1>1 DEF ChunkType
<1>3. chunk' = [chunk EXCEPT ![c] = k] BY DEF SetStatus
<1> QED BY <1>2, <1>3, ChunkUpdate

\* The end of an attempt, whether the worker tries again or gives up.
LEMMA NextAttemptInv ==
  ASSUME ChunkInv, WorkerInv, NEW w \in Worker, NextAttempt(w), nobj' = nobj
  PROVE  ChunkInv' /\ WorkerInv'
<1> DEFINE n == IF worker[w].got /\ worker[w].attempt > 0 THEN worker[w].attempt
                                                     ELSE worker[w].attempt + 1
           r == [worker[w] EXCEPT !.pc = "begin", !.attempt = n]
           c == worker[w].c
           s == IF chunk[c].end > 0 /\ chunk[c].cur > chunk[c].end
                THEN "Finished" ELSE "Error"
<1>1. worker[w] \in WorkerType /\ worker[w].c <= nobj /\ LimInFile(worker[w])
  BY DEF WorkerInv
<1>2. worker[w].c \in Obj BY <1>1 DEF WorkerType
<1>3. CASE Goto(w, "exit") /\ UNCHANGED chunk
  BY <1>3, GotoInv DEF ChunkInv, EndsInFile
<1>4. CASE n < MaxRetries /\ worker' = [worker EXCEPT ![w].pc = "begin", ![w].attempt = n] /\ UNCHANGED chunk
  <2>0. n \in 0 .. MaxRetries BY <1>1, <1>4, BoundAssumption DEF WorkerType
  <2>1. r \in WorkerType /\ r.c <= nobj /\ LimInFile(r) /\ AheadOfEnd(r)
    <3> HIDE DEF n
    <3> QED BY <1>1, <2>0 DEF WorkerType, LimInFile, AheadOfEnd
  <2>2. worker' = [worker EXCEPT ![w] = r] BY <1>4
  <2>3. WorkerInv' BY <2>1, <2>2, WorkerUpdate
  <2> QED BY <2>3, <1>4 DEF ChunkInv, EndsInFile
<1>5. CASE Goto(w, "exit") /\ SetStatus(c, s)
  <2>1. s \in ChunkStatus BY DEF ChunkStatus
  <2> QED BY <1>2, <1>5, <2>1, GotoInv, StatusInv
<1> QED BY <1>3, <1>4, <1>5 DEF NextAttempt

\* Every step of a worker keeps TypeInv.
LEMMA WorkerStepInv ==
  ASSUME TypeInv, NEW w \in Worker, WorkerStep(w)
  PROVE  TypeInv'
<1> DEFINE c == worker[w].c
<1> USE DEF TypeInv
<1>0. FileLen \in Nat /\ Buf \in Nat BY SizeAssumption, BoundAssumption
<1>1. /\ worker[w] \in WorkerType
      /\ worker[w].c <= nobj
      /\ LimInFile(worker[w])
      /\ AheadOfEnd(worker[w])
  BY DEF WorkerInv
<1>2. c \in Obj BY <1>1 DEF WorkerType
<1>3. chunk[c] \in ChunkType /\ (chunk[c].end > 0 => chunk[c].end < FileLen)
  BY <1>2 DEF ChunkInv, EndsInFile
<1>4. UNCHANGED chunk => ChunkInv' BY DEF ChunkInv, EndsInFile
<1>. nobj' = nobj
  BY DEF WorkerStep, Begin, Reply206, Reply200Other, Reply200First, ReplyBusy,
         ReplyDenied, Abandon, Stream, Read, WriteError, Eof, Drop, Exit, chunkVars
<1>5. CASE Begin(w)
  <2>0. OtherInv' BY <1>5 DEF Begin, OtherInv, OrchType
  <2> SUFFICES ChunkInv' /\ WorkerInv' BY <2>0
  <2> DEFINE r == [worker[w] EXCEPT !.pc = "request", !.cur = chunk[c].cur,
                                    !.lim = chunk[c].end, !.got = FALSE, !.full = FALSE]
  <2>1. CASE Goto(w, "exit") /\ UNCHANGED chunk
    BY <2>1, <1>4, GotoInv
  <2>2. CASE Goto(w, "exit") /\ SetStatus(c, "Finished")
    BY <2>2, <1>2, GotoInv, StatusInv DEF ChunkStatus
  <2>3. CASE worker' = [worker EXCEPT ![w].pc = "request", ![w].cur = chunk[c].cur,
                                    ![w].lim = chunk[c].end, ![w].got = FALSE,
                                    ![w].full = FALSE] /\ UNCHANGED chunk
    <3>1. r \in WorkerType /\ r.c <= nobj /\ LimInFile(r) /\ AheadOfEnd(r)
      BY <1>0, <1>1, <1>3 DEF WorkerType, ChunkType, LimInFile, AheadOfEnd
    <3>2. worker' = [worker EXCEPT ![w] = r] BY <2>3
    <3> QED BY <3>1, <3>2, <2>3, <1>4, WorkerUpdate
  <2> QED BY <1>5, <2>1, <2>2, <2>3 DEF Begin
<1>6. CASE Reply206(w)
  <2> DEFINE lim == IF worker[w].lim > 0 THEN worker[w].lim ELSE FileLen - 1
             r == [worker[w] EXCEPT !.pc = "stream", !.lim = lim]
  <2>0. lim \in -1 .. FileLen /\ lim < FileLen
    BY <1>0, <1>1 DEF WorkerType, LimInFile
  <2>1. r \in WorkerType /\ r.c <= nobj /\ LimInFile(r) /\ AheadOfEnd(r)
    <3> HIDE DEF lim
    <3> QED BY <1>0, <1>1, <2>0 DEF WorkerType, LimInFile, AheadOfEnd
  <2>2. worker' = [worker EXCEPT ![w] = r] BY <1>6 DEF Reply206
  <2>3. WorkerInv' BY <2>1, <2>2, WorkerUpdate
  <2>4. ChunkInv' BY <1>6, <1>4 DEF Reply206, chunkVars
  <2>5. OtherInv' BY <1>6 DEF Reply206, OtherInv, OrchType, chunkVars
  <2> QED BY <2>3, <2>4, <2>5
<1>7. CASE Reply200Other(w)
  <2> DEFINE cur == IF worker[w].lim > 0 THEN worker[w].lim + 1 ELSE chunk[c].cur
             k == [chunk[c] EXCEPT !.st = "Finished", !.cur = cur]
  <2>0. cur \in 0 .. FileLen
    BY <1>0, <1>1, <1>3 DEF ChunkType, WorkerType, LimInFile
  <2>1. k \in ChunkType /\ (k.end > 0 => k.end < FileLen)
    <3> HIDE DEF cur
    <3> QED BY <1>3, <2>0 DEF ChunkType, ChunkStatus
  <2>2. UNCHANGED chunk \/ chunk' = [chunk EXCEPT ![c] = k]
    BY <1>7 DEF Reply200Other
  <2>3. ChunkInv' BY <1>2, <1>4, <2>1, <2>2, ChunkUpdate
  <2>4. WorkerInv' BY <1>7, GotoInv DEF Reply200Other
  <2>5. OtherInv' BY <1>7 DEF Reply200Other, OtherInv, OrchType
  <2> QED BY <2>3, <2>4, <2>5
<1>8. CASE Reply200First(w)
  <2> DEFINE k == [chunk[c] EXCEPT !.cur = 0, !.end = WholeEnd]
             r == [worker[w] EXCEPT !.pc = "stream", !.cur = 0, !.full = TRUE,
                                    !.lim = FileLen - 1]
  <2>0. WholeEnd \in -1 .. FileLen /\ (WholeEnd > 0 => WholeEnd < FileLen)
    BY SizeAssumption DEF WholeEnd, TypeInv, OtherInv
  <2>1. k \in ChunkType /\ (k.end > 0 => k.end < FileLen)
    <3> HIDE DEF c
    <3>1. 0 \in 0 .. FileLen BY <1>0
    <3> QED BY <1>3, <2>0, <3>1 DEF ChunkType
  <2>2. r \in WorkerType /\ r.c <= nobj /\ LimInFile(r) /\ AheadOfEnd(r)
    <3>1. FileLen - 1 \in -1 .. FileLen /\ FileLen - 1 < FileLen /\ 0 \in 0 .. FileLen
      BY <1>0
    <3> QED BY <1>1, <3>1 DEF WorkerType, LimInFile, AheadOfEnd
  <2>3. ChunkInv'
    <3>1. chunk' = [chunk EXCEPT ![c] = k] BY <1>8 DEF Reply200First
    <3> QED BY <1>2, <2>1, <3>1, ChunkUpdate
  <2>4. WorkerInv'
    <3>1. worker' = [worker EXCEPT ![w] = r] BY <1>8 DEF Reply200First
    <3> QED BY <2>2, <3>1, WorkerUpdate
  <2>5. OtherInv'
    <3>1. live' \subseteq 1 .. nobj' BY <1>1, <1>2, <1>8 DEF Reply200First, OtherInv, Obj
    <3>2. live \subseteq Obj BY BoundAssumption DEF OtherInv, Obj
    <3>3. cancelled' \subseteq Worker BY <1>8, <3>2 DEF Reply200First, OtherInv
    <3>4. entry' \in [Obj -> Worker \cup {NoWorker}] BY <1>8 DEF Reply200First, OtherInv
    <3> QED BY <1>8, <3>1, <3>3, <3>4 DEF Reply200First, OtherInv, OrchType
  <2> QED BY <2>3, <2>4, <2>5
<1>9. CASE ReplyBusy(w)
  <2>1. ChunkInv' /\ WorkerInv' BY <1>9, NextAttemptInv DEF ReplyBusy
  <2>2. OtherInv' BY <1>9, BoundAssumption DEF ReplyBusy, OtherInv, OrchType
  <2> QED BY <2>1, <2>2
<1>10. CASE ReplyDenied(w)
  <2>1. ChunkInv' BY <1>10, <1>2, <1>4, StatusInv DEF ReplyDenied, ChunkStatus
  <2>2. WorkerInv' BY <1>10, GotoInv DEF ReplyDenied
  <2>3. OtherInv' BY <1>10, BoundAssumption DEF ReplyDenied, OtherInv, OrchType
  <2> QED BY <2>1, <2>2, <2>3
<1>11. CASE Abandon(w)
  <2>1. ChunkInv' BY <1>11, <1>4 DEF Abandon, chunkVars
  <2>2. WorkerInv' BY <1>11, GotoInv DEF Abandon
  <2>3. OtherInv' BY <1>11 DEF Abandon, OtherInv, OrchType, chunkVars
  <2> QED BY <2>1, <2>2, <2>3
<1>12. CASE Stream(w)
  <2>0. OtherInv' BY <1>12 DEF Stream, OtherInv, OrchType
  <2> SUFFICES ChunkInv' /\ WorkerInv' BY <2>0
  <2> DEFINE r == [worker[w] EXCEPT !.pc = "read", !.dend = chunk[c].end]
             passed == ~worker[w].full /\ chunk[c].end > 0 /\ worker[w].cur > chunk[c].end
  <2>1. CASE Goto(w, "exit") /\ UNCHANGED chunk
    BY <2>1, <1>4, GotoInv
  <2>2. CASE Goto(w, "exit") /\ SetStatus(c, "Finished")
    BY <2>2, <1>2, GotoInv, StatusInv DEF ChunkStatus
  <2>3. CASE /\ ~passed
             /\ worker' = [worker EXCEPT ![w].pc = "read", ![w].dend = chunk[c].end]
             /\ UNCHANGED chunk
    <3>1. worker[w].pc = "stream" BY <1>12 DEF Stream
    <3>2. r \in WorkerType /\ r.c <= nobj /\ LimInFile(r) /\ AheadOfEnd(r)
      <4>1. chunk[c].end \in -1 .. FileLen BY <1>3 DEF ChunkType
      <4>2. ~worker[w].full /\ chunk[c].end > 0 => worker[w].cur <= chunk[c].end
        BY <1>1, <2>3, <4>1 DEF WorkerType
      <4> HIDE DEF c
      <4>3. r \in WorkerType BY <1>1, <4>1 DEF WorkerType
      <4>4. r.c <= nobj /\ LimInFile(r) BY <1>1, <3>1 DEF WorkerType, LimInFile
      <4>5. AheadOfEnd(r) BY <1>1, <4>2 DEF WorkerType, AheadOfEnd
      <4> QED BY <4>3, <4>4, <4>5
    <3>3. worker' = [worker EXCEPT ![w] = r] BY <2>3
    <3> QED BY <3>2, <3>3, <2>3, <1>4, WorkerUpdate
  <2> QED BY <1>12, <2>1, <2>2, <2>3 DEF Stream
<1>13. CASE Read(w)
  <2>1. PICK n \in 1 .. Buf :
          LET next == NextByte(w, n)
              ended == worker[w].dend > 0 /\ next > worker[w].dend
          IN
          /\ worker[w].cur + n - 1 <= worker[w].lim
          /\ written' = written \cup (worker[w].cur .. worker[w].cur + WriteCount(w, n) - 1)
          /\ chunk' = [chunk EXCEPT ![c].cur = next,
                                    ![c].st = IF ended THEN "Finished" ELSE @]
          /\ worker' = [worker EXCEPT ![w].pc = IF ended THEN "exit" ELSE "stream",
                                      ![w].cur = next, ![w].got = TRUE]
    BY <1>13 DEF Read
  <2> DEFINE next == NextByte(w, n)
             ended == worker[w].dend > 0 /\ next > worker[w].dend
             k == [chunk[c] EXCEPT !.cur = next, !.st = IF ended THEN "Finished" ELSE @]
             r == [worker[w] EXCEPT !.pc = IF ended THEN "exit" ELSE "stream",
                                    !.cur = next, !.got = TRUE]
  <2>2. worker[w].pc = "read" BY <1>13 DEF Read
  <2>3. worker[w].lim < FileLen BY <1>0, <1>1, <2>2 DEF LimInFile
  <2>4. WriteCount(w, n) \in 1 .. n
    BY <1>0, <1>1, <2>2 DEF WriteCount, AheadOfEnd, WorkerType
  <2>5. next \in 0 .. FileLen
    BY <1>0, <1>1, <2>1, <2>3, <2>4 DEF NextByte, WorkerType
  <2>6. ChunkInv'
    <3> HIDE DEF next
    <3>1. k \in ChunkType /\ (k.end > 0 => k.end < FileLen)
      BY <1>0, <1>3, <2>5 DEF ChunkType, ChunkStatus
    <3>2. chunk' = [chunk EXCEPT ![c] = k] BY <2>1 DEF next
    <3> QED BY <1>2, <3>1, <3>2, ChunkUpdate
  <2>7. WorkerInv'
    <3> HIDE DEF next
    <3>1. r \in WorkerType /\ r.c <= nobj /\ LimInFile(r) /\ AheadOfEnd(r)
      BY <1>0, <1>1, <2>3, <2>5 DEF WorkerType, LimInFile, AheadOfEnd
    <3>2. worker' = [worker EXCEPT ![w] = r] BY <2>1 DEF next
    <3> QED BY <3>1, <3>2, WorkerUpdate
  <2>8. written' \subseteq 0 .. FileLen - 1
    BY <1>0, <1>1, <2>1, <2>3, <2>4 DEF OtherInv, WorkerType
  <2>9. OtherInv' BY <1>13, <2>8 DEF Read, OtherInv, OrchType
  <2> QED BY <2>6, <2>7, <2>9
<1>14. CASE WriteError(w)
  <2>1. ChunkInv' BY <1>14, <1>2, <1>4, StatusInv DEF WriteError, ChunkStatus
  <2>2. WorkerInv' BY <1>14, GotoInv DEF WriteError
  <2>3. OtherInv' BY <1>14, BoundAssumption DEF WriteError, OtherInv, OrchType
  <2> QED BY <2>1, <2>2, <2>3
<1>15. CASE Eof(w)
  <2>0. OtherInv' BY <1>15 DEF Eof, OtherInv, OrchType
  <2> SUFFICES ChunkInv' /\ WorkerInv' BY <2>0
  <2> DEFINE k == [chunk[c] EXCEPT !.end = worker[w].cur - 1, !.st = "Finished"]
  <2>1. CASE Goto(w, "exit") /\ UNCHANGED chunk
    BY <2>1, <1>4, GotoInv
  <2>2. CASE Goto(w, "exit") /\ SetStatus(c, "Finished")
    BY <2>2, <1>2, GotoInv, StatusInv DEF ChunkStatus
  <2>3. CASE /\ Goto(w, "exit")
             /\ chunk' = [chunk EXCEPT ![c].end = worker[w].cur - 1,
                                       ![c].st = "Finished"]
    <3>1. k \in ChunkType /\ (k.end > 0 => k.end < FileLen)
      <4>1. /\ worker[w].cur - 1 \in -1 .. FileLen
            /\ worker[w].cur - 1 < FileLen
        BY <1>0, <1>1 DEF WorkerType
      <4> HIDE DEF c
      <4> QED BY <1>3, <4>1 DEF ChunkType, ChunkStatus
    <3>2. chunk' = [chunk EXCEPT ![c] = k] BY <2>3
    <3> QED BY <1>2, <2>3, <3>1, <3>2, ChunkUpdate, GotoInv
  <2>4. CASE NextAttempt(w) BY <2>4, NextAttemptInv
  <2> QED BY <1>15, <2>1, <2>2, <2>3, <2>4 DEF Eof
<1>16. CASE Drop(w)
  <2>1. ChunkInv' /\ WorkerInv' BY <1>16, NextAttemptInv DEF Drop
  <2>2. OtherInv' BY <1>16, BoundAssumption DEF Drop, OtherInv, OrchType
  <2> QED BY <2>1, <2>2
<1>17. CASE Exit(w)
  <2> DEFINE k == [chunk[c] EXCEPT !.retry =
                     IF chunk[c].cur > worker[w].from + Buf THEN 0 ELSE @]
  <2>1. k \in ChunkType /\ (k.end > 0 => k.end < FileLen)
    BY <1>0, <1>3, BoundAssumption DEF ChunkType
  <2>2. ChunkInv'
    <3>1. chunk' = [chunk EXCEPT ![c] = k] BY <1>17 DEF Exit
    <3> QED BY <1>2, <2>1, <3>1, ChunkUpdate
  <2>3. WorkerInv'
    <3>1. Idle \in WorkerType /\ Idle.c <= nobj /\ LimInFile(Idle) /\ AheadOfEnd(Idle)
      BY <1>0, BoundAssumption DEF Idle, WorkerType, LimInFile, AheadOfEnd, Obj, OtherInv
    <3> QED BY <1>17, <3>1, WorkerUpdate DEF Exit
  <2>4. OtherInv' BY <1>17, <1>2 DEF Exit, OtherInv, OrchType
  <2> QED BY <2>2, <2>3, <2>4
<1> QED
  BY <1>5, <1>6, <1>7, <1>8, <1>9, <1>10, <1>11, <1>12, <1>13, <1>14, <1>15,
     <1>16, <1>17 DEF WorkerStep

\* The orchestrator and UpdateThreadCount count chunks, so their sets are finite.
LEMMA LiveFinite ==
  ASSUME OtherInv
  PROVE  /\ IsFiniteSet(live)
         /\ \A S \in SUBSET (1 .. nobj) : IsFiniteSet(S) /\ Cardinality(S) \in Nat
<1>1. nobj \in Int BY DEF OtherInv
<1>2. IsFiniteSet(1 .. nobj) BY <1>1, FS_Interval
<1>3. \A S \in SUBSET (1 .. nobj) : IsFiniteSet(S) BY <1>2, FS_Subset
<1> QED BY <1>3, FS_CardinalityType DEF OtherInv

\* SplitLargestChunk keeps the types, whoever calls it.
LEMMA SplitInv ==
  ASSUME TypeInv, NEW c \in live, Splittable(c), Split(c)
  PROVE  /\ ChunkInv'
         /\ nobj' = nobj + 1 /\ nobj' \in 1 .. MaxChunks
         /\ live' \subseteq 1 .. nobj'
<1> DEFINE new == nobj + 1
           mid == MidPoint(c)
           k == [chunk[c] EXCEPT !.end = mid]
           t == [start |-> mid + 1, cur |-> mid + 1, end |-> chunk[c].end,
                 st |-> "Pending", retry |-> 0]
<1>1. /\ nobj \in 1 .. MaxChunks /\ MaxChunks \in Nat /\ live \subseteq 1 .. nobj
      /\ MinSplit \in Nat /\ MinSplit >= 2 /\ MaxRetries \in Nat /\ FileLen \in Nat
  BY SizeAssumption, BoundAssumption DEF TypeInv, OtherInv
<1>2. c \in Obj /\ c # new BY <1>1 DEF Obj
<1>3. chunk[c] \in ChunkType /\ (chunk[c].end > 0 => chunk[c].end < FileLen)
  BY <1>2 DEF TypeInv, ChunkInv, EndsInFile
<1>4. /\ mid \in 0 .. FileLen /\ mid < FileLen
      /\ mid + 1 \in 0 .. FileLen
  BY <1>1, <1>3 DEF Splittable, Left, MidPoint, ChunkType
<1>5. /\ new \in Obj /\ nobj' = new /\ live' = live \cup {new}
      /\ chunk' = [chunk EXCEPT ![c] = k, ![new] = t]
  BY DEF Split
<1>6. k \in ChunkType /\ k.end < FileLen
  <2> HIDE DEF mid
  <2> QED BY <1>1, <1>3, <1>4 DEF ChunkType
<1>7. t \in ChunkType /\ (t.end > 0 => t.end < FileLen)
  <2> HIDE DEF mid
  <2> QED BY <1>1, <1>3, <1>4 DEF ChunkType, ChunkStatus
<1>8. ChunkInv'
  <2> HIDE DEF k, t
  <2> QED BY <1>1, <1>2, <1>5, <1>6, <1>7 DEF TypeInv, ChunkInv, EndsInFile
<1> QED BY <1>1, <1>5, <1>8 DEF Obj

\* The records of the orchestrator.
LEMMA OrchRecord ==
  ASSUME NEW pc \in {"idle", "lock", "split", "spawn", "finalize", "done"},
         NEW a \in Nat, NEW t \in Nat, NEW s \in Int,
         NEW p \in SUBSET (1 .. nobj), NEW q \in SUBSET (1 .. nobj)
  PROVE  [pc |-> pc, active |-> a, pend |-> p, retr |-> q, thr |-> t, slots |-> s]
           \in OrchType
BY DEF OrchType

\* The lists a scan makes are lists of chunks.
LEMMA OrchLists ==
  ASSUME orch \in OrchType, NEW a \in Nat,
         NEW p \in SUBSET (1 .. nobj), NEW q \in SUBSET (1 .. nobj)
  PROVE  [orch EXCEPT !.active = a, !.pend = p, !.retr = q] \in OrchType
BY DEF OrchType

\* A split allocates a chunk; the workers stay as they are.
LEMMA WorkersAfterSplit ==
  ASSUME TypeInv, UNCHANGED worker, nobj' = nobj + 1
  PROVE  WorkerInv'
<1>1. nobj \in Int BY DEF TypeInv, OtherInv
<1>2. \A w \in Worker : worker[w].c \in Int /\ worker[w].c <= nobj
  BY DEF TypeInv, WorkerInv, WorkerType, Obj
<1>3. \A w \in Worker : worker'[w].c <= nobj' BY <1>1, <1>2
<1> QED BY <1>3 DEF TypeInv, WorkerInv

\* Every step of the orchestrator, then of UpdateThreadCount, keeps TypeInv.
LEMMA OrchestratorInv ==
  ASSUME TypeInv, Orchestrator
  PROVE  TypeInv'
<1> USE DEF TypeInv
<1>0. /\ FileLen \in Nat /\ MaxRetries \in Nat
      /\ \A S \in SUBSET (1 .. nobj) : IsFiniteSet(S) /\ Cardinality(S) \in Nat
  BY LiveFinite, SizeAssumption, BoundAssumption
<1>1. UNCHANGED <<worker, nobj>> => WorkerInv' BY DEF WorkerInv
<1>2. UNCHANGED chunk => ChunkInv' BY DEF ChunkInv, EndsInFile
<1>3. CASE Scan
  <2>1. WorkerInv' BY <1>1, <1>3 DEF Scan, workerVars
  <2>2. ChunkInv'
    <3>1. CASE UNCHANGED chunk BY <3>1, <1>2
    <3>2. CASE chunk' = [c \in Obj |-> IF c \in Retriable THEN Retried(c) ELSE chunk[c]]
      <4>1. ASSUME NEW c \in Obj
            PROVE  chunk'[c] \in ChunkType /\ chunk'[c].end = chunk[c].end
        <5>1. chunk[c] \in ChunkType BY DEF ChunkInv
        <5>2. CASE c \in Retriable
          <6>1. chunk[c].retry < MaxRetries BY <5>2 DEF Retriable
          <6>2. chunk[c].retry + 1 \in 0 .. MaxRetries BY <1>0, <5>1, <6>1 DEF ChunkType
          <6>3. Retried(c) \in ChunkType /\ Retried(c).end = chunk[c].end
            BY <5>1, <6>2 DEF Retried, ChunkType, ChunkStatus
          <6> QED BY <3>2, <5>2, <6>3
        <5>3. CASE c \notin Retriable BY <3>2, <5>1, <5>3
        <5> QED BY <5>2, <5>3
      <4> QED BY <3>2, <4>1 DEF ChunkInv, EndsInFile
    <3> QED BY <1>3, <3>1, <3>2 DEF Scan
  <2>3. /\ Active \subseteq 1 .. nobj /\ Waiting \subseteq 1 .. nobj
        /\ Retriable \subseteq 1 .. nobj /\ Cardinality(Active) \in Nat
    <3>1. /\ Active \subseteq 1 .. nobj /\ Waiting \subseteq 1 .. nobj
          /\ Retriable \subseteq 1 .. nobj
      BY DEF Active, Waiting, Retriable, Errors, OtherInv
    <3> QED BY <1>0, <3>1
  <2>4. orch' \in OrchType
    <3> HIDE DEF TypeInv
    <3>1. orch \in OrchType /\ threads \in Nat BY DEF TypeInv, OtherInv
    <3>2. CASE orch' = [orch EXCEPT !.pc = "finalize"] BY <3>1, <3>2 DEF OrchType
    <3>3. CASE orch' = [OrchIdle EXCEPT !.pc = "done"] BY <3>3 DEF OrchIdle, OrchType
    <3>4. CASE \E pc \in {"lock", "spawn"} :
                 orch' = [OrchIdle EXCEPT !.pc = pc, !.active = Cardinality(Active),
                            !.pend = Waiting, !.retr = Retriable, !.thr = threads]
      <4>1. PICK pc \in {"lock", "spawn"} :
              orch' = [pc |-> pc, active |-> Cardinality(Active), pend |-> Waiting,
                       retr |-> Retriable, thr |-> threads, slots |-> 0]
        BY <3>4 DEF OrchIdle
      <4>2. 0 \in Int /\ pc \in {"idle", "lock", "split", "spawn", "finalize", "done"}
        OBVIOUS
      <4> QED BY <2>3, <3>1, <4>1, <4>2, OrchRecord, Zenon
    <3> QED BY <1>3, <3>2, <3>3, <3>4 DEF Scan
  <2>5. OtherInv' BY <1>3, <2>4 DEF Scan, OtherInv, OrchType, workerVars
  <2> QED BY <2>1, <2>2, <2>5
<1>4. CASE SplitLock
  <2>1. WorkerInv' /\ ChunkInv' BY <1>1, <1>2, <1>4 DEF SplitLock, workerVars, chunkVars
  <2>2. orch.pend \subseteq 1 .. nobj BY DEF OtherInv, OrchType
  <2>3. orch.thr - (orch.active + Cardinality(orch.pend)) \in Int
    BY <1>0, <2>2 DEF OtherInv, OrchType
  <2>4. OtherInv' BY <1>4, <2>3 DEF SplitLock, OtherInv, OrchType, workerVars, chunkVars
  <2> QED BY <2>1, <2>4
<1>5. CASE SplitStep
  <2>1. /\ ChunkInv'
        /\ nobj' = nobj + 1 /\ nobj' \in 1 .. MaxChunks
        /\ live' \subseteq 1 .. nobj'
    BY <1>5, SplitInv DEF SplitStep
  <2>2. WorkerInv' BY <1>5, <2>1, WorkersAfterSplit DEF SplitStep, workerVars
  <2>3. OtherInv' BY <1>5, <2>1 DEF SplitStep, OtherInv, OrchType, workerVars
  <2> QED BY <2>1, <2>2, <2>3
<1>6. CASE SplitUnlock
  <2>1. WorkerInv' /\ ChunkInv' BY <1>1, <1>2, <1>6 DEF SplitUnlock, workerVars, chunkVars
  <2>2. {c \in live : chunk[c].st = "Pending"} \subseteq 1 .. nobj BY DEF OtherInv
  <2>3. orch' \in OrchType
    <3>1. orch' = [pc |-> "spawn", active |-> orch.active, retr |-> {},
                   pend |-> {c \in live : chunk[c].st = "Pending"},
                   thr |-> orch.thr, slots |-> 0]
      BY <1>6 DEF SplitUnlock, OtherInv, OrchType
    <3>2. /\ 0 \in Int /\ {} \in SUBSET (1 .. nobj)
          /\ orch.active \in Nat /\ orch.thr \in Nat
          /\ "spawn" \in {"idle", "lock", "split", "spawn", "finalize", "done"}
      BY DEF OtherInv, OrchType
    <3> QED BY <2>2, <3>1, <3>2, OrchRecord, Zenon
  <2>4. OtherInv' BY <1>6, <2>3 DEF SplitUnlock, OtherInv, OrchType, workerVars, chunkVars
  <2> QED BY <2>1, <2>4
<1>7. ASSUME NEW w \in Worker, Spawn(w) PROVE TypeInv'
  <2>1. PICK c \in NextPending :
          /\ SetStatus(c, "Downloading")
          /\ worker' = [worker EXCEPT ![w] = [Idle EXCEPT !.pc = "begin", !.c = c,
                                                         !.from = chunk[c].cur]]
          /\ entry' = [entry EXCEPT ![c] = w]
          /\ orch' = [orch EXCEPT !.active = @ + 1, !.pend = @ \ {c}, !.retr = @ \ {c}]
    BY <1>7 DEF Spawn
  <2>2. c \in 1 .. nobj /\ c \in Obj
    BY BoundAssumption DEF NextPending, OtherInv, OrchType, Obj
  <2>3. ChunkInv' BY <2>1, <2>2, StatusInv DEF ChunkStatus
  <2>4. WorkerInv'
    <3> DEFINE r == [Idle EXCEPT !.pc = "begin", !.c = c, !.from = chunk[c].cur]
    <3>1. chunk[c].cur \in Nat BY <2>2, <1>0 DEF ChunkInv, ChunkType
    <3>2. /\ 0 \in 0 .. FileLen /\ 0 \in -1 .. FileLen /\ 0 \in 0 .. MaxRetries
          /\ c <= nobj
      BY <1>0, <2>2
    <3>3. Idle \in WorkerType /\ Idle.lim = 0
      BY <1>0, BoundAssumption, <3>2 DEF Idle, WorkerType, Obj, OtherInv
    <3>4. r \in WorkerType /\ r.c <= nobj /\ LimInFile(r) /\ AheadOfEnd(r)
      <4> DEFINE from == chunk[c].cur
      <4> HIDE DEF from
      <4>1. from \in Nat BY <3>1 DEF from
      <4>2. r = [Idle EXCEPT !.pc = "begin", !.c = c, !.from = from] BY DEF from
      <4> HIDE DEF r
      <4>3. r \in WorkerType BY <2>2, <3>3, <4>1, <4>2 DEF WorkerType
      <4>4. r.pc = "begin" /\ r.c = c /\ r.lim = 0 BY <3>3, <4>2 DEF WorkerType
      <4> QED BY <3>2, <4>3, <4>4 DEF LimInFile, AheadOfEnd
    <3>5. nobj' = nobj BY <1>7 DEF Spawn
    <3> QED BY <2>1, <3>4, <3>5, WorkerUpdate
  <2>5. orch' \in OrchType
    <3>1. /\ orch \in OrchType /\ orch.active + 1 \in Nat
          /\ orch.pend \ {c} \in SUBSET (1 .. nobj) /\ orch.retr \ {c} \in SUBSET (1 .. nobj)
      BY DEF OtherInv, OrchType
    <3> QED BY <2>1, <3>1, OrchLists, Zenon
  <2>6. entry' \in [Obj -> Worker \cup {NoWorker}] BY <2>1 DEF OtherInv
  <2>7. OtherInv' BY <1>7, <2>5, <2>6 DEF Spawn, OtherInv, OrchType
  <2> QED BY <2>3, <2>4, <2>7
<1>8. CASE SpawnEnd
  <2>1. WorkerInv' /\ ChunkInv' BY <1>1, <1>2, <1>8 DEF SpawnEnd, workerVars, chunkVars
  <2>2. OtherInv' BY <1>8 DEF SpawnEnd, OtherInv, OrchType, OrchIdle, workerVars, chunkVars
  <2> QED BY <2>1, <2>2
<1>9. CASE Finalize
  <2>1. WorkerInv' /\ ChunkInv' BY <1>1, <1>2, <1>9 DEF Finalize, workerVars, chunkVars
  <2>2. OtherInv' BY <1>9 DEF Finalize, OtherInv, OrchType, OrchIdle, workerVars, chunkVars
  <2> QED BY <2>1, <2>2
<1> QED BY <1>3, <1>4, <1>5, <1>6, <1>7, <1>8, <1>9 DEF Orchestrator

\* UpdateThreadCount, with the chunk it splits.
LEMMA UserInv ==
  ASSUME TypeInv, User
  PROVE  TypeInv'
<1> USE DEF TypeInv
<1>0. Cardinality(live) \in Nat BY LiveFinite DEF OtherInv
<1>1. UNCHANGED <<worker, nobj>> => WorkerInv' BY DEF WorkerInv
<1>2. ASSUME NEW k \in ThreadRequests, UpdateThreadCount(k) PROVE TypeInv'
  <2> DEFINE n == NewCount(k)
             excess == Excess(n)
  <2>1. n \in Nat \ {0} BY BoundAssumption DEF NewCount
  <2>2. excess \subseteq Obj
    <3>1. live \subseteq Obj BY BoundAssumption DEF OtherInv, Obj
    <3> QED BY <3>1 DEF Excess
  <2>3. WorkerInv' BY <1>1, <1>2 DEF UpdateThreadCount
  <2>4. ChunkInv'
    <3>1. chunk' = [c \in Obj |-> IF c \in excess
                                 THEN [chunk[c] EXCEPT !.st = "Pending"] ELSE chunk[c]]
      BY <1>2 DEF UpdateThreadCount
    <3>2. ASSUME NEW c \in Obj
          PROVE  chunk'[c] \in ChunkType /\ chunk'[c].end = chunk[c].end
      <4> HIDE DEF excess
      <4>1. chunk[c] \in ChunkType BY DEF ChunkInv
      <4>2. [chunk[c] EXCEPT !.st = "Pending"] \in ChunkType
        BY <4>1 DEF ChunkType, ChunkStatus
      <4> QED BY <3>1, <4>1, <4>2 DEF ChunkType
    <3> QED BY <3>1, <3>2 DEF ChunkInv, EndsInFile
  <2>5. cancelled' \subseteq Worker BY <1>2, <2>2 DEF UpdateThreadCount, OtherInv
  <2>6. entry' \in [Obj -> Worker \cup {NoWorker}]
    BY <1>2, <2>2 DEF UpdateThreadCount, OtherInv
  <2>7. user' \in [left : Int, calls : Nat]
    <3> HIDE DEF n
    <3> QED BY <1>0, <1>2, <2>1 DEF UpdateThreadCount, OtherInv, n
  <2>8. OtherInv' BY <1>2, <2>1, <2>5, <2>6, <2>7 DEF UpdateThreadCount, OtherInv, OrchType
  <2> QED BY <2>3, <2>4, <2>8
<1>3. CASE UserSplit
  <2>1. CASE UNCHANGED chunkVars
    <3>1. WorkerInv' BY <1>1, <1>3, <2>1 DEF UserSplit, workerVars, chunkVars
    <3>2. ChunkInv' BY <2>1 DEF ChunkInv, EndsInFile, chunkVars
    <3>3. OtherInv' BY <1>3, <2>1 DEF UserSplit, OtherInv, OrchType, workerVars, chunkVars
    <3> QED BY <3>1, <3>2, <3>3
  <2>2. CASE \E c \in live : Splittable(c) /\ Split(c)
    <3>1. /\ ChunkInv'
          /\ nobj' = nobj + 1 /\ nobj' \in 1 .. MaxChunks
          /\ live' \subseteq 1 .. nobj'
      BY <2>2, SplitInv
    <3>2. WorkerInv' BY <1>3, <3>1, WorkersAfterSplit DEF UserSplit, workerVars
    <3>3. OtherInv' BY <1>3, <3>1 DEF UserSplit, OtherInv, OrchType, workerVars
    <3> QED BY <3>1, <3>2, <3>3
  <2> QED BY <1>3, <2>1, <2>2 DEF UserSplit
<1> QED BY <1>2, <1>3 DEF User

\* The chunks InitializeChunks lays out lie inside the file.
LEMMA InitInv == Init => TypeInv
<1> SUFFICES ASSUME Init PROVE TypeInv OBVIOUS
<1> USE DEF Init
<1>0. /\ FileLen \in Nat /\ totalSize \in {FileLen, -1}
      /\ Laid \in Nat \ {0} /\ MaxChunks \in Nat /\ Laid <= MaxChunks
      /\ MaxRetries \in Nat /\ MaxFaults \in Nat
      /\ Laid = 1 \/ totalSize >= 2 * Laid
  BY SizeAssumption, BoundAssumption DEF Laid
<1>1. NoChunk \in ChunkType /\ NoChunk.end = 0
  BY <1>0 DEF NoChunk, ChunkType, ChunkStatus
<1>2. ASSUME NEW c \in 1 .. Laid
      PROVE  FreshChunk(c) \in ChunkType /\ (FreshChunk(c).end > 0 => FreshChunk(c).end < FileLen)
  <2>1. CASE Laid = 1
    BY <1>0, <2>1 DEF FreshChunk, NoChunk, ChunkType, ChunkStatus
  <2>2. CASE Laid # 1
    <3> DEFINE size == totalSize \div Laid
    <3>1. totalSize = FileLen /\ FileLen \in Nat \ {0} BY <1>0, <2>2
    <3>2. size \in Nat /\ size * Laid <= FileLen
      BY <1>0, <3>1, Quot
    <3>3. size >= 1 BY <1>0, <2>2, <3>1
    <3> HIDE DEF size
    <3>4. (c - 1) * size \in Nat /\ c * size \in Nat /\ c * size >= 1
      BY <3>2, <3>3
    <3>5. (c - 1) * size <= Laid * size /\ c * size <= Laid * size
      BY <1>0, <3>2, Product
    <3>6. (c - 1) * size \in 0 .. FileLen /\ c * size - 1 \in 0 .. FileLen - 1
      BY <3>1, <3>2, <3>4, <3>5, <1>0
    <3> DEFINE e == IF c = Laid THEN totalSize - 1 ELSE c * size - 1
    <3>7. e \in -1 .. FileLen /\ e < FileLen BY <3>1, <3>6
    <3>8. FreshChunk(c) = [NoChunk EXCEPT !.start = (c - 1) * size,
                             !.cur = (c - 1) * size, !.end = e]
      BY <2>2 DEF FreshChunk, size
    <3> DEFINE a == (c - 1) * size
    <3>9. a \in Nat /\ a \in 0 .. FileLen BY <3>4, <3>6
    <3> HIDE DEF e, a
    <3> QED BY <1>1, <3>7, <3>8, <3>9 DEF NoChunk, ChunkType, a
  <2> QED BY <2>1, <2>2
<1>3. ChunkInv
  BY <1>1, <1>2, <1>0 DEF ChunkInv, EndsInFile, Obj
<1>4. WorkerInv
  <2>1. Idle \in WorkerType /\ Idle.c = 1 /\ LimInFile(Idle) /\ AheadOfEnd(Idle)
    BY <1>0 DEF Idle, WorkerType, LimInFile, AheadOfEnd, Obj
  <2> QED BY <1>0, <2>1 DEF WorkerInv
<1>5. orch \in OrchType BY DEF OrchType, OrchIdle
<1>6. user \in [left : Int, calls : Nat] BY DEF UserIdle
<1>7. OtherInv
  <2>1. nobj \in 1 .. MaxChunks /\ live \subseteq 1 .. nobj /\ threads \in Nat \ {0}
    BY <1>0
  <2>2. /\ cancelled \subseteq Worker /\ written \subseteq 0 .. FileLen - 1
        /\ entry \in [Obj -> Worker \cup {NoWorker}]
        /\ faults \in 0 .. MaxFaults
    BY <1>0
  <2> QED BY <1>5, <1>6, <2>1, <2>2 DEF OtherInv
<1> QED BY <1>3, <1>4, <1>7 DEF TypeInv

\* TypeInv is inductive.
LEMMA TypeInvCorrect == Spec => []TypeInv
<1>1. TypeInv /\ [Next]_vars => TypeInv'
  <2> SUFFICES ASSUME TypeInv, [Next]_vars PROVE TypeInv' OBVIOUS
  <2>1. CASE Next BY <2>1, WorkerStepInv, OrchestratorInv, UserInv DEF Next
  <2>2. CASE UNCHANGED vars
    BY <2>2 DEF vars, TypeInv, ChunkInv, EndsInFile, WorkerInv, OtherInv, OrchType
  <2> QED BY <2>1, <2>2
<1> QED BY InitInv, <1>1, PTL DEF Spec

\* The type invariant, for every size, thread count, buffer, retry limit and kind of
\* server: in particular no worker of DownloadChunk ever writes past the end of the
\* file, and no chunk is retried more than MaxRetries times.
THEOREM TypeCorrect == Spec => []TypeOK
<1>1. TypeInv => TypeOK BY DEF TypeInv, ChunkInv, WorkerInv, OtherInv, TypeOK
<1> QED BY <1>1, TypeInvCorrect, PTL
-----------------------------------------------------------------------------
\* A task whose outcome is known has an orchestrator that is done, and one reported
\* finished has no worker left.
Settled ==
  /\ status # "Downloading" => orch.pc = "done"
  /\ status = "Finished" => Running = {}

\* Settled is inductive: the status that ends a transfer is the last thing to be set.
LEMMA SettledCorrect == Spec => []Settled
<1>1. Init => Settled BY DEF Init, Settled
<1>2. Settled /\ [Next]_vars => Settled'
  <2> SUFFICES ASSUME Settled, [Next]_vars PROVE Settled' OBVIOUS
  <2> USE DEF Settled
  <2>1. ASSUME NEW w \in Worker, WorkerStep(w) PROVE Settled'
    <3>1. worker[w].pc # "idle"
      BY <2>1 DEF WorkerStep, Begin, Reply206, Reply200Other, Reply200First, May200,
         ReplyBusy, ReplyDenied, Abandon, Stream, Read, WriteError, Eof, Drop, Exit
    <3>2. status # "Finished" BY <3>1 DEF Running
    <3>3. status' = status /\ orch' = orch
      BY <2>1 DEF WorkerStep, Begin, Reply206, Reply200Other, Reply200First,
         ReplyBusy, ReplyDenied, Abandon, Stream, Read, WriteError, Eof, Drop, Exit
    <3> QED BY <3>2, <3>3
  <2>2. ASSUME UNCHANGED <<status, worker>>, orch.pc # "done" PROVE Settled'
    BY <2>2
  <2>3. CASE Orchestrator
    <3>1. CASE Scan
      BY <3>1 DEF Scan, OrchIdle
    <3>2. CASE SplitLock BY <2>2, <3>2 DEF SplitLock, workerVars
    <3>3. CASE SplitStep BY <2>2, <3>3 DEF SplitStep, workerVars
    <3>4. CASE SplitUnlock BY <2>2, <3>4 DEF SplitUnlock, workerVars
    <3>5. CASE \E w \in Worker : Spawn(w) BY <3>5 DEF Spawn
    <3>6. CASE SpawnEnd BY <2>2, <3>6 DEF SpawnEnd, workerVars
    <3>7. CASE Finalize
      <4>1. Running = {} /\ Running' = {} BY <3>7 DEF Finalize, WorkersDone, Running, workerVars
      <4> QED BY <3>7, <4>1 DEF Finalize, OrchIdle
    <3> QED BY <2>3, <3>1, <3>2, <3>3, <3>4, <3>5, <3>6, <3>7 DEF Orchestrator
  <2>4. CASE User
    <3>1. status' = status /\ orch' = orch /\ worker' = worker
      BY <2>4 DEF User, UpdateThreadCount, UserSplit, workerVars
    <3> QED BY <3>1 DEF Running
  <2>5. CASE UNCHANGED vars BY <2>5 DEF vars, Running
  <2> QED BY <2>1, <2>3, <2>4, <2>5 DEF Next
<1> QED BY <1>1, <1>2, PTL DEF Spec

\* finalizeDownload renames the container only when no goroutine is left that could
\* write to it, whatever the server, the user and the faults: the workers were waited
\* for, and nothing spawns one once the orchestrator has left its loop.
THEOREM NoWriter == Spec => []NoWriterAfterFinish
<1>1. Settled => NoWriterAfterFinish BY DEF Settled, NoWriterAfterFinish
<1> QED BY <1>1, SettledCorrect, PTL

-----------------------------------------------------------------------------
(***************************************************************************)
(* The chunks tile a file of known size, whatever the server answers.      *)
(***************************************************************************)

\* A chunk's count and end do not fall behind its start, and its end is known.
Ranged(c) ==
  /\ chunk[c].start <= chunk[c].cur
  /\ chunk[c].start <= chunk[c].end + 1
  /\ chunk[c].end >= 0

\* What a worker will write back to its chunk does not fall behind the chunk's start,
\* and the end it read is a known one: it learns no other when the body ends.
Within(w) ==
  LET start == chunk[worker[w].c].start IN
  /\ worker[w].pc \in {"request", "stream", "read"} => start <= worker[w].cur
  /\ worker[w].pc = "request" => start <= worker[w].lim + 1
  /\ worker[w].pc = "read" => worker[w].dend >= 0

\* Every offset of the file is in some chunk of the list, and in no two.
Covered == \A b \in 0 .. FileLen - 1 : \E c \in live : chunk[c].start <= b /\ b <= chunk[c].end
Apart == \A c, d \in live : c # d => chunk[c].end < chunk[d].start \/ chunk[d].end < chunk[c].start

\* The inductive invariant.  ChunksTileFile alone is not inductive: a split keeps the
\* halves together only if the chunk's count has not fallen behind its start (Ranged),
\* which a worker of a stale range could cause (Within), dropped chunks and late
\* workers included.
TileInv ==
  totalSize > 0 =>
    /\ \A c \in Obj : Ranged(c)
    /\ \A w \in Worker : Within(w)
    /\ Covered /\ Apart

\* A step that changes no range, and whose counts do not fall behind the starts.
KeepsRanges ==
  \A c \in Obj : /\ chunk'[c].start = chunk[c].start
                 /\ chunk'[c].end = chunk[c].end
                 /\ chunk[c].start <= chunk'[c].cur

\* What a worker that a step leaves alone keeps.
LEMMA WithinKept ==
  ASSUME NEW w \in Worker, Within(w), worker'[w] = worker[w],
         chunk'[worker[w].c].start = chunk[worker[w].c].start
  PROVE  Within(w)'
BY DEF Within

\* A step that keeps the ranges keeps the tiling.
LEMMA TilesKept ==
  ASSUME TypeInv, TileInv, UNCHANGED <<totalSize, live>>, KeepsRanges,
         totalSize > 0 => \A w \in Worker : Within(w)'
  PROVE  TileInv'
<1> SUFFICES ASSUME totalSize > 0
             PROVE  (\A c \in Obj : Ranged(c)') /\ Covered' /\ Apart'
  BY DEF TileInv
<1>1. live \subseteq Obj BY BoundAssumption DEF TypeInv, OtherInv, Obj
<1>2. \A c \in Obj : Ranged(c)' BY DEF TileInv, Ranged, KeepsRanges
<1>3. Covered' BY <1>1 DEF TileInv, Covered, KeepsRanges
<1>4. Apart' BY <1>1 DEF TileInv, Apart, KeepsRanges
<1> QED BY <1>2, <1>3, <1>4

\* A status set, or any other change that leaves start, current byte and end alone.
LEMMA SameFields ==
  ASSUME TileInv, totalSize > 0,
         \A c \in Obj : /\ chunk'[c].start = chunk[c].start
                        /\ chunk'[c].cur = chunk[c].cur
                        /\ chunk'[c].end = chunk[c].end
  PROVE  KeepsRanges
BY DEF TileInv, Ranged, KeepsRanges

\* Setting the status of a chunk leaves its range alone.
LEMMA StatusFields ==
  ASSUME TypeInv, NEW c \in Obj, NEW s, SetStatus(c, s)
  PROVE  \A d \in Obj : /\ chunk'[d].start = chunk[d].start
                        /\ chunk'[d].cur = chunk[d].cur
                        /\ chunk'[d].end = chunk[d].end
<1>1. chunk \in [Obj -> ChunkType] BY DEF TypeInv, ChunkInv
<1>2. chunk' = [chunk EXCEPT ![c].st = s] BY DEF SetStatus
<1> QED BY <1>1, <1>2 DEF ChunkType

\* Every step of a worker keeps TileInv: the fallback to a single stream leaves one
\* chunk that holds the file, and the other steps change no range.
LEMMA WorkerStepTiles ==
  ASSUME TypeInv, TileInv, NEW w \in Worker, WorkerStep(w)
  PROVE  TileInv'
<1> DEFINE c == worker[w].c
<1>0. UNCHANGED totalSize
  BY DEF WorkerStep, Begin, Reply206, Reply200Other, Reply200First, ReplyBusy,
     ReplyDenied, Abandon, Stream, Read, WriteError, Eof, Drop, Exit
<1> SUFFICES ASSUME totalSize > 0 PROVE TileInv' BY <1>0 DEF TileInv
<1>1. /\ worker \in [Worker -> WorkerType] /\ worker[w] \in WorkerType
      /\ c \in Obj /\ chunk \in [Obj -> ChunkType] /\ chunk[c] \in ChunkType
      /\ AheadOfEnd(worker[w])
  BY DEF TypeInv, ChunkInv, WorkerInv, WorkerType
<1>2. FileLen \in Nat /\ Buf \in Nat /\ totalSize = FileLen
  BY SizeAssumption, BoundAssumption DEF TypeInv, OtherInv
<1>3. Within(w) /\ Ranged(c) BY <1>1 DEF TileInv
<1>4. \A v \in Worker \ {w} : worker'[v] = worker[v]
  BY DEF WorkerStep, Begin, Reply206, Reply200Other, Reply200First, ReplyBusy,
     ReplyDenied, Abandon, Stream, Read, WriteError, Eof, Drop, Exit, NextAttempt, Goto,
     TypeInv, WorkerInv
<1>5. ASSUME live' = live, KeepsRanges, Within(w)' PROVE TileInv'
  <2>1. ASSUME NEW v \in Worker PROVE Within(v)'
    <3>1. worker[v].c \in Obj BY <1>1 DEF WorkerType
    <3>2. chunk'[worker[v].c].start = chunk[worker[v].c].start
      BY <1>5, <3>1 DEF KeepsRanges
    <3> QED BY <1>4, <1>5, <3>2, WithinKept DEF TileInv
  <2> QED BY <1>0, <1>5, <2>1, TilesKept
<1>6. ASSUME UNCHANGED chunk PROVE KeepsRanges BY <1>6, SameFields
<1>7. ASSUME NEW s, SetStatus(c, s) PROVE KeepsRanges
  BY <1>1, <1>7, StatusFields, SameFields
<1>8. ASSUME worker'[w].pc \in {"exit", "begin", "idle"} PROVE Within(w)'
  BY <1>8 DEF Within
<1>9. ASSUME Goto(w, "exit") PROVE Within(w)'
  BY <1>1, <1>8, <1>9 DEF Goto, WorkerType
<1>10. ASSUME NextAttempt(w) PROVE KeepsRanges /\ Within(w)'
  <2>1. CASE Goto(w, "exit") /\ UNCHANGED chunk BY <2>1, <1>6, <1>9
  <2>2. CASE Goto(w, "exit") /\ \E s : SetStatus(c, s) BY <2>2, <1>7, <1>9
  <2>3. CASE /\ UNCHANGED chunk
             /\ \E n : worker' = [worker EXCEPT ![w].pc = "begin", ![w].attempt = n]
    <3>1. worker'[w].pc = "begin" BY <1>1, <2>3 DEF WorkerType
    <3> QED BY <2>3, <3>1, <1>6, <1>8
  <2> QED BY <1>10, <2>1, <2>2, <2>3 DEF NextAttempt
<1>11. CASE Begin(w)
  <2>0. live' = live BY <1>11 DEF Begin
  <2>1. CASE Goto(w, "exit") /\ UNCHANGED chunk BY <2>0, <2>1, <1>5, <1>6, <1>9
  <2>2. CASE Goto(w, "exit") /\ SetStatus(c, "Finished") BY <2>0, <2>2, <1>5, <1>7, <1>9
  <2>3. CASE /\ worker' = [worker EXCEPT ![w].pc = "request", ![w].cur = chunk[c].cur,
                             ![w].lim = chunk[c].end, ![w].got = FALSE, ![w].full = FALSE]
             /\ UNCHANGED chunk
    <3>1. /\ worker'[w].pc = "request" /\ worker'[w].c = c
          /\ worker'[w].cur = chunk[c].cur /\ worker'[w].lim = chunk[c].end
      BY <1>1, <2>3 DEF WorkerType
    <3>2. Within(w)'
      <4> HIDE DEF c
      <4> QED BY <1>3, <2>3, <3>1 DEF Within, Ranged
    <3> QED BY <2>0, <2>3, <3>2, <1>5, <1>6
  <2> QED BY <1>11, <2>1, <2>2, <2>3 DEF Begin
<1>12. CASE Reply206(w)
  <2>1. /\ worker'[w].pc = "stream" /\ worker'[w].c = c /\ worker'[w].cur = worker[w].cur
    BY <1>1, <1>12 DEF Reply206, WorkerType
  <2>2. worker[w].pc = "request" /\ UNCHANGED chunk /\ live' = live
    BY <1>12 DEF Reply206, chunkVars
  <2>3. Within(w)' BY <1>3, <2>1, <2>2 DEF Within
  <2> QED BY <2>2, <2>3, <1>5, <1>6
<1>13. CASE Reply200Other(w)
  <2>1. live' = live /\ Goto(w, "exit") /\ worker[w].pc = "request"
    BY <1>13 DEF Reply200Other, May200
  <2>2. CASE UNCHANGED chunk BY <2>1, <2>2, <1>5, <1>6, <1>9
  <2>3. CASE chunk' = [chunk EXCEPT ![c].st = "Finished",
                         ![c].cur = IF worker[w].lim > 0 THEN worker[w].lim + 1 ELSE @]
    <3> DEFINE cur == IF worker[w].lim > 0 THEN worker[w].lim + 1 ELSE chunk[c].cur
    <3>1. chunk[c].start <= cur BY <1>3, <2>1 DEF Within, Ranged
    <3>2. chunk' = [chunk EXCEPT ![c].st = "Finished", ![c].cur = cur] BY <2>3
    <3> HIDE DEF cur, c
    <3>3. KeepsRanges BY <1>1, <3>1, <3>2 DEF KeepsRanges, TileInv, Ranged, ChunkType
    <3> QED BY <2>1, <3>3, <1>5, <1>9
  <2> QED BY <1>13, <2>2, <2>3 DEF Reply200Other
<1>14. CASE Reply200First(w)
  <2>1. chunk[c].start = 0 BY <1>14 DEF Reply200First, IsFirst
  <2>2. /\ live' = {c}
        /\ chunk' = [chunk EXCEPT ![c].cur = 0, ![c].end = FileLen - 1]
    BY <1>2, <1>14 DEF Reply200First, WholeEnd
  <2>3. /\ chunk'[c].start = 0 /\ chunk'[c].cur = 0 /\ chunk'[c].end = FileLen - 1
        /\ \A d \in Obj \ {c} : chunk'[d] = chunk[d]
    BY <1>1, <2>1, <2>2 DEF ChunkType
  <2>4. \A d \in Obj : Ranged(d)' BY <1>2, <2>3 DEF TileInv, Ranged
  <2>5. Covered' /\ Apart'
    <3> HIDE DEF c
    <3> QED BY <1>2, <2>2, <2>3 DEF Covered, Apart
  <2>6. /\ worker'[w].pc = "stream" /\ worker'[w].c = c /\ worker'[w].cur = 0
    BY <1>1, <1>14 DEF Reply200First, WorkerType
  <2>7. Within(w)' BY <2>3, <2>6 DEF Within
  <2>8. \A d \in Obj : chunk'[d].start = chunk[d].start BY <2>1, <2>3
  <2>9. ASSUME NEW v \in Worker PROVE Within(v)'
    <3>1. worker[v].c \in Obj BY <1>1 DEF WorkerType
    <3> QED BY <1>4, <2>7, <2>8, <3>1, WithinKept DEF TileInv
  <2> QED BY <2>4, <2>5, <2>9 DEF TileInv
<1>15. CASE ReplyBusy(w) BY <1>15, <1>5, <1>10 DEF ReplyBusy
<1>16. CASE ReplyDenied(w) BY <1>16, <1>5, <1>6, <1>7, <1>9 DEF ReplyDenied
<1>17. CASE Abandon(w) BY <1>17, <1>5, <1>6, <1>9 DEF Abandon, chunkVars
<1>18. CASE Stream(w)
  <2>0. live' = live /\ worker[w].pc = "stream" BY <1>18 DEF Stream
  <2>1. CASE Goto(w, "exit") /\ UNCHANGED chunk BY <2>0, <2>1, <1>5, <1>6, <1>9
  <2>2. CASE Goto(w, "exit") /\ SetStatus(c, "Finished") BY <2>0, <2>2, <1>5, <1>7, <1>9
  <2>3. CASE /\ worker' = [worker EXCEPT ![w].pc = "read", ![w].dend = chunk[c].end]
             /\ UNCHANGED chunk
    <3>1. /\ worker'[w].pc = "read" /\ worker'[w].c = c
          /\ worker'[w].cur = worker[w].cur /\ worker'[w].dend = chunk[c].end
      BY <1>1, <2>3 DEF WorkerType
    <3>2. Within(w)'
      <4> HIDE DEF c
      <4> QED BY <1>3, <2>0, <2>3, <3>1 DEF Within, Ranged, c
    <3> QED BY <2>0, <2>3, <3>2, <1>5, <1>6
  <2> QED BY <1>18, <2>1, <2>2, <2>3 DEF Stream
<1>19. CASE Read(w)
  <2>1. PICK n \in 1 .. Buf :
          LET next == NextByte(w, n)
              ended == worker[w].dend > 0 /\ next > worker[w].dend
          IN
          /\ chunk' = [chunk EXCEPT ![c].cur = next,
                                    ![c].st = IF ended THEN "Finished" ELSE @]
          /\ worker' = [worker EXCEPT ![w].pc = IF ended THEN "exit" ELSE "stream",
                                      ![w].cur = next, ![w].got = TRUE]
    BY <1>19 DEF Read
  <2> DEFINE next == NextByte(w, n)
             ended == worker[w].dend > 0 /\ next > worker[w].dend
  <2>2. live' = live /\ worker[w].pc = "read" BY <1>19 DEF Read
  <2>3. WriteCount(w, n) \in 1 .. n
    BY <1>1, <1>2, <2>2 DEF WriteCount, AheadOfEnd, WorkerType
  <2>4. next \in Int /\ chunk[c].start <= next
    BY <1>1, <1>2, <1>3, <2>2, <2>3 DEF NextByte, Within, WorkerType, ChunkType
  <2>5. /\ chunk' = [chunk EXCEPT ![c].cur = next,
                                  ![c].st = IF ended THEN "Finished" ELSE @]
        /\ worker' = [worker EXCEPT ![w].pc = IF ended THEN "exit" ELSE "stream",
                                    ![w].cur = next, ![w].got = TRUE]
    BY <2>1
  <2> HIDE DEF next, ended
  <2>6. /\ KeepsRanges /\ chunk'[c].start = chunk[c].start
    <3> HIDE DEF c
    <3> QED BY <1>1, <2>4, <2>5 DEF KeepsRanges, TileInv, Ranged, ChunkType
  <2>7. /\ worker'[w].pc \in {"exit", "stream"} /\ worker'[w].c = c /\ worker'[w].cur = next
    BY <1>1, <2>5 DEF WorkerType
  <2>8. Within(w)' BY <2>4, <2>6, <2>7 DEF Within
  <2> QED BY <2>2, <2>6, <2>8, <1>5
<1>20. CASE WriteError(w) BY <1>20, <1>5, <1>6, <1>7, <1>9 DEF WriteError
<1>21. CASE Eof(w)
  <2>0. live' = live /\ worker[w].pc = "read" BY <1>21 DEF Eof
  <2>1. worker[w].dend >= 0 /\ worker[w].dend \in Int BY <1>1, <1>3, <2>0 DEF Within, WorkerType
  <2>2. CASE Goto(w, "exit") /\ UNCHANGED chunk BY <2>0, <2>2, <1>5, <1>6, <1>9
  <2>3. CASE Goto(w, "exit") /\ SetStatus(c, "Finished") BY <2>0, <2>3, <1>5, <1>7, <1>9
  <2>4. CASE NextAttempt(w) BY <2>0, <2>4, <1>5, <1>10
  <2> QED BY <1>21, <2>1, <2>2, <2>3, <2>4 DEF Eof
<1>22. CASE Drop(w) BY <1>22, <1>5, <1>10 DEF Drop
<1>23. CASE Exit(w)
  <2>1. worker'[w].pc = "idle" BY <1>1, <1>23 DEF Exit, Idle
  <2>2. KeepsRanges
    <3>1. \A d \in Obj : /\ chunk'[d].start = chunk[d].start
                         /\ chunk'[d].cur = chunk[d].cur
                         /\ chunk'[d].end = chunk[d].end
      BY <1>1, <1>23 DEF Exit, ChunkType
    <3> QED BY <3>1, SameFields
  <2> QED BY <1>5, <1>8, <1>23, <2>1, <2>2 DEF Exit
<1> QED
  BY <1>11, <1>12, <1>13, <1>14, <1>15, <1>16, <1>17, <1>18, <1>19, <1>20, <1>21, <1>22, <1>23
  DEF WorkerStep

\* A split keeps the file tiled: the two halves share what was left of the chunk.
LEMMA SplitTiles ==
  ASSUME TypeInv, TileInv, NEW c \in live, Splittable(c), Split(c),
         UNCHANGED <<worker, totalSize>>
  PROVE  TileInv'
<1> SUFFICES ASSUME totalSize > 0 PROVE TileInv' BY DEF TileInv
<1> DEFINE new == nobj + 1
           mid == MidPoint(c)
<1>1. /\ FileLen \in Nat /\ MinSplit \in Nat /\ MinSplit >= 2
      /\ nobj \in Nat /\ live \subseteq 1 .. nobj /\ live \subseteq Obj
  BY SizeAssumption, BoundAssumption DEF TypeInv, OtherInv, Obj
<1>2. /\ c \in Obj /\ new \notin live /\ new # c
      /\ chunk \in [Obj -> ChunkType] /\ \A d \in Obj : chunk[d] \in ChunkType
  BY <1>1 DEF TypeInv, ChunkInv
<1>3. /\ new \in Obj /\ live' = live \cup {new}
      /\ chunk' = [chunk EXCEPT ![c].end = mid,
                               ![new] = [start |-> mid + 1, cur |-> mid + 1,
                                         end |-> chunk[c].end,
                                         st |-> "Pending", retry |-> 0]]
  BY DEF Split
<1>4. Ranged(c) /\ chunk[c] \in ChunkType BY <1>2 DEF TileInv
<1>5. /\ mid \in Nat /\ chunk[c].cur <= mid /\ mid < chunk[c].end
      /\ chunk[c].start \in Nat /\ chunk[c].cur \in Nat /\ chunk[c].end \in Nat
      /\ chunk[c].start <= chunk[c].cur
  BY <1>1, <1>4 DEF Splittable, Left, MidPoint, ChunkType, Ranged
<1> HIDE DEF mid
<1>6. /\ \A d \in Obj \ {c, new} : chunk'[d] = chunk[d]
      /\ chunk'[c].start = chunk[c].start /\ chunk'[c].cur = chunk[c].cur
      /\ chunk'[c].end = mid
  <2> HIDE DEF new
  <2> QED BY <1>2, <1>3, <1>4 DEF ChunkType
<1>7. /\ chunk'[new].start = mid + 1 /\ chunk'[new].cur = mid + 1
      /\ chunk'[new].end = chunk[c].end
  <2> HIDE DEF new
  <2> QED BY <1>2, <1>3
<1>8. ASSUME NEW d \in Obj PROVE Ranged(d)'
  <2>1. CASE d = new BY <1>5, <1>7, <2>1 DEF Ranged
  <2>2. CASE d = c BY <1>5, <1>6, <2>2 DEF Ranged
  <2>3. CASE d \notin {c, new} BY <1>6, <2>3 DEF TileInv, Ranged
  <2> QED BY <2>1, <2>2, <2>3
<1>9. ASSUME NEW w \in Worker PROVE Within(w)'
  <2>1. worker[w].c \in Obj /\ worker[w].c # new
    BY <1>1 DEF TypeInv, WorkerInv, WorkerType
  <2>2. chunk'[worker[w].c].start = chunk[worker[w].c].start BY <1>6, <2>1
  <2> QED BY <2>2, WithinKept DEF TileInv
<1>10. Covered'
  <2> SUFFICES ASSUME NEW b \in 0 .. FileLen - 1
               PROVE  \E d \in live' : chunk'[d].start <= b /\ b <= chunk'[d].end
    BY DEF Covered
  <2>1. PICK d \in live : chunk[d].start <= b /\ b <= chunk[d].end
    BY DEF TileInv, Covered
  <2>2. CASE d # c
    <3>1. d \in Obj \ {c, new} BY <1>1, <2>2
    <3> QED BY <1>3, <1>6, <2>1, <3>1
  <2>3. CASE d = c /\ b <= mid BY <1>3, <1>6, <2>1, <2>3
  <2>4. CASE d = c /\ ~(b <= mid)
    <3>1. mid + 1 <= b /\ b <= chunk[c].end BY <1>1, <1>5, <2>1, <2>4
    <3> QED BY <1>3, <1>7, <3>1
  <2> QED BY <2>2, <2>3, <2>4
<1>11. Apart'
  <2>0. ASSUME NEW d \in live, d # c PROVE d \in Obj \ {c, new} /\ chunk'[d] = chunk[d]
    BY <1>1, <1>6, <2>0
  <2>1. ASSUME NEW d \in live, d # c
        PROVE  \/ chunk'[d].end < chunk[c].start
               \/ chunk[c].end < chunk'[d].start
    BY <2>0, <2>1 DEF TileInv, Apart
  <2>2. ASSUME NEW d \in live, d # c
        PROVE  chunk'[d].start \in Nat /\ chunk'[d].end \in Int
    BY <1>1, <1>2, <2>0, <2>2 DEF ChunkType
  <2>3. ASSUME NEW d \in live, NEW e \in live, d # e, d # c, e # c
        PROVE  chunk'[d].end < chunk'[e].start \/ chunk'[e].end < chunk'[d].start
    BY <2>0, <2>3 DEF TileInv, Apart
  <2>4. ASSUME NEW d \in live, d # c
        PROVE  /\ chunk'[d].end < chunk'[c].start \/ chunk'[c].end < chunk'[d].start
               /\ chunk'[d].end < chunk'[new].start \/ chunk'[new].end < chunk'[d].start
    BY <1>1, <1>5, <1>6, <1>7, <2>1, <2>2, <2>4
  <2>5. chunk'[c].end < chunk'[new].start BY <1>5, <1>6, <1>7
  <2> HIDE DEF new
  <2> QED BY <1>3, <2>3, <2>4, <2>5 DEF Apart
<1> QED BY <1>8, <1>9, <1>10, <1>11 DEF TileInv

\* A step of the orchestrator or of the user that leaves the workers and the ranges
\* alone keeps TileInv.
LEMMA OthersTile ==
  ASSUME TypeInv, TileInv, UNCHANGED <<worker, totalSize, live>>,
         \A c \in Obj : /\ chunk'[c].start = chunk[c].start
                        /\ chunk'[c].cur = chunk[c].cur
                        /\ chunk'[c].end = chunk[c].end
  PROVE  TileInv'
<1> SUFFICES ASSUME totalSize > 0 PROVE TileInv' BY DEF TileInv
<1>1. ASSUME NEW w \in Worker PROVE Within(w)'
  <2>1. worker[w].c \in Obj BY DEF TypeInv, WorkerInv, WorkerType
  <2> QED BY <2>1, WithinKept DEF TileInv
<1> QED BY <1>1, SameFields, TilesKept

\* Every step of the orchestrator keeps TileInv.
LEMMA OrchestratorTiles ==
  ASSUME TypeInv, TypeInv', TileInv, Orchestrator
  PROVE  TileInv'
<1>1. chunk \in [Obj -> ChunkType] BY DEF TypeInv, ChunkInv
<1>2. ASSUME UNCHANGED <<worker, totalSize, chunkVars>> PROVE TileInv'
  BY <1>2, OthersTile DEF chunkVars
<1>3. CASE Scan
  <2>1. CASE UNCHANGED chunk BY <1>3, <2>1, <1>2 DEF Scan, workerVars, chunkVars
  <2>2. CASE chunk' = [d \in Obj |-> IF d \in Retriable THEN Retried(d) ELSE chunk[d]]
    <3>1. \A d \in Obj : /\ chunk'[d].start = chunk[d].start
                         /\ chunk'[d].cur = chunk[d].cur
                         /\ chunk'[d].end = chunk[d].end
      BY <1>1, <2>2 DEF Retried, ChunkType
    <3> QED BY <1>3, <3>1, OthersTile DEF Scan, workerVars
  <2> QED BY <1>3, <2>1, <2>2 DEF Scan
<1>4. CASE SplitStep BY <1>4, SplitTiles DEF SplitStep, workerVars
<1>5. ASSUME NEW w \in Worker, Spawn(w) PROVE TileInv'
  <2>1. PICK c \in NextPending :
          /\ SetStatus(c, "Downloading")
          /\ worker' = [worker EXCEPT ![w] = [Idle EXCEPT !.pc = "begin", !.c = c,
                                                         !.from = chunk[c].cur]]
    BY <1>5 DEF Spawn
  <2>2. UNCHANGED <<totalSize, live>> /\ worker \in [Worker -> WorkerType]
    BY <1>5 DEF Spawn, TypeInv, WorkerInv
  <2>3. c \in Obj
    BY BoundAssumption DEF NextPending, TypeInv, OtherInv, OrchType, Obj
  <2>4. \A d \in Obj : /\ chunk'[d].start = chunk[d].start
                       /\ chunk'[d].cur = chunk[d].cur
                       /\ chunk'[d].end = chunk[d].end
    BY <2>1, <2>3, StatusFields
  <2> SUFFICES ASSUME totalSize > 0 PROVE TileInv' BY <2>2 DEF TileInv
  <2>5. ASSUME NEW v \in Worker PROVE Within(v)'
    <3>1. CASE v = w
      <4>1. worker'[w].pc = "begin" BY <2>1, <2>2 DEF Idle
      <4> QED BY <3>1, <4>1 DEF Within
    <3>2. CASE v # w
      <4>1. worker'[v] = worker[v] /\ worker[v].c \in Obj
        BY <2>1, <2>2, <3>2 DEF WorkerType
      <4> QED BY <2>4, <4>1, WithinKept DEF TileInv
    <3> QED BY <3>1, <3>2
  <2> QED BY <2>2, <2>4, <2>5, SameFields, TilesKept
<1>6. CASE SplitLock \/ SplitUnlock \/ SpawnEnd \/ Finalize
  BY <1>6, <1>2 DEF SplitLock, SplitUnlock, SpawnEnd, Finalize, workerVars
<1> QED BY <1>3, <1>4, <1>5, <1>6 DEF Orchestrator

\* Every step of UpdateThreadCount keeps TileInv.
LEMMA UserTiles ==
  ASSUME TypeInv, TileInv, User
  PROVE  TileInv'
<1>1. UNCHANGED <<worker, totalSize>>
  BY DEF User, UpdateThreadCount, UserSplit, workerVars
<1>2. ASSUME NEW k \in ThreadRequests, UpdateThreadCount(k) PROVE TileInv'
  <2>1. PICK S : chunk' = [d \in Obj |-> IF d \in S
                             THEN [chunk[d] EXCEPT !.st = "Pending"] ELSE chunk[d]]
    BY <1>2 DEF UpdateThreadCount
  <2>2. \A d \in Obj : /\ chunk'[d].start = chunk[d].start
                       /\ chunk'[d].cur = chunk[d].cur
                       /\ chunk'[d].end = chunk[d].end
    BY <2>1 DEF TypeInv, ChunkInv, ChunkType
  <2> QED BY <1>1, <1>2, <2>2, OthersTile DEF UpdateThreadCount
<1>3. CASE UserSplit
  <2>1. CASE UNCHANGED chunkVars BY <1>1, <2>1, OthersTile DEF chunkVars
  <2>2. CASE \E c \in live : Splittable(c) /\ Split(c) BY <1>1, <2>2, SplitTiles
  <2> QED BY <1>3, <2>1, <2>2 DEF UserSplit
<1> QED BY <1>2, <1>3 DEF User

\* The chunks InitializeChunks lays out cover the file and do not overlap.
LEMMA InitRanges ==
  ASSUME Init, totalSize > 0
  PROVE  /\ \A c \in live : /\ chunk[c].start \in Nat /\ chunk[c].cur = chunk[c].start
                            /\ chunk[c].start <= chunk[c].end
                            /\ chunk[c].end \in 0 .. FileLen - 1
                            /\ FileLen >= 2 => chunk[c].end >= 1
         /\ Covered /\ Apart
<1> DEFINE N == Laid
           size == FileLen \div N
<1>1. /\ FileLen \in Nat /\ FileLen >= 1 /\ totalSize = FileLen
      /\ N \in Nat \ {0} /\ N <= MaxChunks /\ MaxChunks \in Nat
      /\ N = 1 \/ FileLen >= 2 * N
  BY SizeAssumption, BoundAssumption DEF Laid, Init
<1>2. live = 1 .. N /\ \A c \in 1 .. N : chunk[c] = FreshChunk(c)
  BY <1>1 DEF Init, Obj
<1>4. CASE N = 1
  <2>1. /\ live = {1} /\ chunk[1].start = 0 /\ chunk[1].cur = 0
        /\ chunk[1].end = FileLen - 1
    BY <1>1, <1>2, <1>4 DEF FreshChunk, NoChunk
  <2>2. Covered /\ Apart BY <1>1, <2>1 DEF Covered, Apart
  <2> QED BY <1>1, <2>1, <2>2
<1>5. CASE N # 1
  <2>1. size \in Nat /\ size >= 2 /\ N * size <= FileLen
    <3>1. size \in Nat /\ size * N <= FileLen /\ FileLen < (size + 1) * N
      BY <1>1, Quot
    <3>2. size >= 2 BY <1>1, <1>5
    <3> QED BY <1>1, <3>1, <3>2
  <2>2. ASSUME NEW c \in 1 .. N
        PROVE  /\ chunk[c].start = (c - 1) * size /\ chunk[c].cur = (c - 1) * size
               /\ chunk[c].end = IF c = N THEN FileLen - 1 ELSE c * size - 1
    <3>1. chunk[c] = [NoChunk EXCEPT !.start = (c - 1) * size, !.cur = (c - 1) * size,
                        !.end = IF c = N THEN FileLen - 1 ELSE c * size - 1]
      BY <1>1, <1>2, <1>5 DEF FreshChunk
    <3> DEFINE a == (c - 1) * size
               e == IF c = N THEN FileLen - 1 ELSE c * size - 1
    <3> HIDE DEF a, e
    <3>2. chunk[c] = [NoChunk EXCEPT !.start = a, !.cur = a, !.end = e] BY <3>1 DEF a, e
    <3>3. chunk[c].start = a /\ chunk[c].cur = a /\ chunk[c].end = e BY <3>2 DEF NoChunk
    <3> QED BY <3>3 DEF a, e
  <2> HIDE DEF size
  <2>3. ASSUME NEW c \in 1 .. N
        PROVE  /\ (c - 1) * size \in Nat /\ c * size = (c - 1) * size + size
               /\ c * size <= N * size
    BY <1>1, <2>1, Product
  <2>4. ASSUME NEW c \in live
        PROVE  /\ chunk[c].start \in Nat /\ chunk[c].cur = chunk[c].start
               /\ chunk[c].start <= chunk[c].end
               /\ chunk[c].end \in 1 .. FileLen - 1
    <3>1. c \in 1 .. N BY <1>2
    <3> QED BY <1>1, <2>1, <2>2, <2>3, <3>1
  <2>5. Covered
    <3> SUFFICES ASSUME NEW b \in 0 .. FileLen - 1
                 PROVE  \E c \in live : chunk[c].start <= b /\ b <= chunk[c].end
      BY DEF Covered
    <3> DEFINE q == b \div size
    <3>1. q \in Nat /\ q * size <= b /\ b < (q + 1) * size
      BY <2>1, Quot
    <3> HIDE DEF q
    <3>2. CASE q + 1 <= N
      <4>1. q + 1 \in 1 .. N /\ (q + 1) - 1 = q BY <1>1, <3>1, <3>2
      <4>2. chunk[q + 1].start = q * size
        BY <2>2, <4>1
      <4>3. b <= chunk[q + 1].end
        BY <1>1, <2>1, <2>2, <2>3, <3>1, <4>1
      <4> QED BY <1>2, <3>1, <4>1, <4>2, <4>3
    <3>3. CASE q + 1 > N
      <4>1. (N - 1) * size <= q * size BY <1>1, <2>1, <3>1, <3>3, Product
      <4>2. N \in live /\ chunk[N].start <= b /\ b <= chunk[N].end
        <5>1. N \in 1 .. N BY <1>1
        <5>2. chunk[N].start = (N - 1) * size /\ chunk[N].end = FileLen - 1 BY <2>2, <5>1
        <5>3. (N - 1) * size \in Nat /\ q * size \in Nat BY <1>1, <2>1, <3>1, <5>1, <2>3
        <5> QED BY <1>1, <1>2, <3>1, <4>1, <5>1, <5>2, <5>3
      <4> QED BY <4>2
    <3> QED BY <1>1, <3>1, <3>2, <3>3
  <2>6. ASSUME NEW c \in 1 .. N, NEW d \in 1 .. N, c < d
        PROVE  chunk[c].end < chunk[d].start
    <3>1. c # N /\ chunk[c].end = c * size - 1 BY <1>1, <2>2, <2>6
    <3>2. c \in Nat /\ d - 1 \in Nat /\ c <= d - 1 BY <1>1, <2>6
    <3>3. c * size <= (d - 1) * size BY <2>1, <3>2, Product
    <3>4. chunk[d].start = (d - 1) * size BY <2>2
    <3>5. c * size \in Nat /\ (d - 1) * size \in Nat BY <2>1, <3>2
    <3> QED BY <3>1, <3>3, <3>4, <3>5
  <2>7. Apart
    BY <1>1, <1>2, <2>6 DEF Apart
  <2> QED BY <1>1, <2>4, <2>5, <2>7
<1> QED BY <1>4, <1>5

\* The file starts tiled.
LEMMA InitTiles == ASSUME Init PROVE TileInv
<1> SUFFICES ASSUME totalSize > 0 PROVE TileInv BY DEF TileInv
<1>1. FileLen \in Nat BY SizeAssumption
<1>2. live = 1 .. Laid /\ chunk = [c \in Obj |-> IF c <= Laid THEN FreshChunk(c) ELSE NoChunk]
  BY DEF Init
<1>3. ASSUME NEW c \in Obj PROVE Ranged(c)
  <2>1. CASE c \in live BY <1>1, <2>1, InitRanges DEF Ranged
  <2>2. CASE c \notin live
    <3>1. Laid \in Nat /\ c \in 1 .. MaxChunks /\ MaxChunks \in Nat
      BY SizeAssumption, BoundAssumption DEF Laid, Obj
    <3>2. chunk[c] = NoChunk BY <1>2, <2>2, <3>1
    <3> QED BY <3>2 DEF Ranged, NoChunk
  <2> QED BY <2>1, <2>2
<1>4. ASSUME NEW w \in Worker PROVE Within(w) BY DEF Init, Within, Idle
<1> QED BY <1>3, <1>4, InitRanges DEF TileInv

\* TileInv is inductive.
LEMMA TileInvCorrect == Spec => []TileInv
<1>1. TypeInv /\ TypeInv' /\ TileInv /\ [Next]_vars => TileInv'
  <2> SUFFICES ASSUME TypeInv, TypeInv', TileInv, [Next]_vars PROVE TileInv' OBVIOUS
  <2>1. CASE Next BY <2>1, WorkerStepTiles, OrchestratorTiles, UserTiles DEF Next
  <2>2. CASE UNCHANGED vars
    BY <2>2 DEF vars, TileInv, Ranged, Within, Covered, Apart
  <2> QED BY <2>1, <2>2
<1> QED BY InitTiles, <1>1, TypeInvCorrect, PTL DEF Spec

\* The chunks of the list tile a file of known size, whatever the server answers:
\* through every split by the orchestrator and by the user, the fallback to a single
\* stream, the workers that outlive the chunk they were given, retries and faults.
THEOREM Tiled == Spec => []ChunksTileFile
<1>1. TypeInv /\ TileInv => ChunksTileFile
  <2> SUFFICES ASSUME TypeInv, TileInv, totalSize > 0, NEW b \in 0 .. totalSize - 1
               PROVE  \E c \in live :
                        /\ chunk[c].start <= b /\ b <= chunk[c].end
                        /\ \A d \in live \ {c} : ~(chunk[d].start <= b /\ b <= chunk[d].end)
    BY DEF ChunksTileFile
  <2>0. totalSize = FileLen BY SizeAssumption DEF TypeInv, OtherInv
  <2>1. PICK c \in live : chunk[c].start <= b /\ b <= chunk[c].end
    BY <2>0 DEF TileInv, Covered
  <2>2. \A d \in live : chunk[d].start \in Int /\ chunk[d].end \in Int
    BY BoundAssumption DEF TypeInv, OtherInv, ChunkInv, ChunkType, Obj
  <2>3. ASSUME NEW d \in live \ {c} PROVE ~(chunk[d].start <= b /\ b <= chunk[d].end)
    <3>1. chunk[c].end < chunk[d].start \/ chunk[d].end < chunk[c].start
      BY DEF TileInv, Apart
    <3>2. b \in Int OBVIOUS
    <3> QED BY <2>1, <2>2, <3>1, <3>2
  <2> QED BY <2>1, <2>3
<1> QED BY <1>1, TypeInvCorrect, TileInvCorrect, PTL

-----------------------------------------------------------------------------
(***************************************************************************)
(* Files fetched whole, from any server: the probe found no size, or one   *)
(* below two bytes (the code takes an end of 0 for an unknown one).        *)
(***************************************************************************)

\* All of the file is on disk.
AllWritten == written = 0 .. FileLen - 1

\* The one chunk: its end, once known, is the file's, what it counts is on disk, and
\* it is marked finished only with the whole file there.
WholeChunk ==
  /\ chunk[1].start = 0
  /\ chunk[1].end > 0 => chunk[1].end = FileLen - 1
  /\ 0 .. chunk[1].cur - 1 \subseteq written
  /\ chunk[1].st = "Finished" => AllWritten

\* A worker of that chunk: what lies before the offset it will write next is on disk,
\* and what it asks for, receives and stops at is the end of the file.
OneStream(w) ==
  /\ worker[w].pc \in {"request", "stream", "read"} => 0 .. worker[w].cur - 1 \subseteq written
  /\ worker[w].pc = "request" /\ worker[w].lim > 0 => worker[w].lim = FileLen - 1
  /\ worker[w].pc \in {"stream", "read"} => worker[w].lim = FileLen - 1
  /\ worker[w].pc = "read" /\ worker[w].dend > 0 => worker[w].dend = FileLen - 1

\* The inductive invariant of such a file: one chunk, which nothing splits.
WholeInv ==
  /\ live = {1} /\ nobj = 1
  /\ orch.pc \in {"lock", "split"} \/ mu = "user" => totalSize = 1
  /\ WholeChunk
  /\ \A w \in Worker : OneStream(w)
  /\ status = "Finished" => AllWritten

\* A count past the end of the file says that the file is there.
LEMMA PastEnd ==
  ASSUME TypeInv, NEW n \in Int, n >= FileLen, 0 .. n - 1 \subseteq written
  PROVE  AllWritten
<1>1. FileLen \in Nat /\ written \subseteq 0 .. FileLen - 1
  BY SizeAssumption DEF TypeInv, OtherInv
<1>2. 0 .. FileLen - 1 \subseteq 0 .. n - 1 BY <1>1
<1> QED BY <1>1, <1>2 DEF AllWritten

\* Marking the chunk keeps it whole, if "Finished" only with the file on disk.
LEMMA MarkWhole ==
  ASSUME TypeInv, WholeChunk, NEW s, SetStatus(1, s), s = "Finished" => AllWritten,
         written' = written
  PROVE  WholeChunk'
<1>1. 1 \in Obj /\ chunk \in [Obj -> ChunkType]
  BY BoundAssumption, SizeAssumption DEF TypeInv, ChunkInv, Obj
<1>2. /\ chunk'[1].start = chunk[1].start /\ chunk'[1].cur = chunk[1].cur
      /\ chunk'[1].end = chunk[1].end /\ chunk'[1].st = s
  BY <1>1 DEF SetStatus, ChunkType
<1> QED BY <1>2 DEF WholeChunk, AllWritten

\* Every step of a worker keeps WholeInv: a body ends where the file does, and a
\* fallback to a single stream starts the one chunk again.
LEMMA WorkerStepWhole ==
  ASSUME totalSize < 2, TypeInv, TypeInv', WholeInv, NEW w \in Worker, WorkerStep(w)
  PROVE  WholeInv'
<1>0. FileLen \in Nat /\ Buf \in Nat \ {0} /\ totalSize \in {FileLen, -1}
  BY SizeAssumption, BoundAssumption DEF TypeInv, OtherInv
<1>1. /\ worker[w].c = 1 /\ 1 \in Obj
      /\ worker \in [Worker -> WorkerType] /\ worker[w] \in WorkerType
      /\ chunk \in [Obj -> ChunkType] /\ chunk[1] \in ChunkType
      /\ AheadOfEnd(worker[w])
  BY DEF WholeInv, TypeInv, ChunkInv, WorkerInv, WorkerType, Obj
<1>2. WholeChunk /\ OneStream(w) BY DEF WholeInv
<1>3. /\ \A v \in Worker \ {w} : worker'[v] = worker[v]
      /\ UNCHANGED <<status, totalSize, nobj, orch, mu>> /\ written \subseteq written'
  BY DEF WorkerStep, Begin, Reply206, Reply200Other, Reply200First, ReplyBusy,
     ReplyDenied, Abandon, Stream, Read, WriteError, Eof, Drop, Exit, NextAttempt, Goto,
     chunkVars, TypeInv, WorkerInv
<1>4. ASSUME live' = {1}, WholeChunk', OneStream(w)' PROVE WholeInv'
  <2>1. \A v \in Worker : OneStream(v)' BY <1>3, <1>4 DEF WholeInv, OneStream
  <2>2. AllWritten => AllWritten' BY <1>3 DEF AllWritten, TypeInv, OtherInv
  <2> QED BY <1>3, <1>4, <2>1, <2>2 DEF WholeInv
<1>5. live = {1} BY DEF WholeInv
<1>6. ASSUME UNCHANGED <<chunk, written>> PROVE WholeChunk'
  BY <1>2, <1>6 DEF WholeChunk, AllWritten
<1>7. ASSUME NEW s, SetStatus(worker[w].c, s), s = "Finished" => AllWritten, written' = written
      PROVE  WholeChunk'
  BY <1>1, <1>2, <1>7, MarkWhole
<1>8. ASSUME worker'[w].pc \in {"exit", "begin", "idle"} PROVE OneStream(w)'
  BY <1>8 DEF OneStream
<1>9. ASSUME Goto(w, "exit") PROVE OneStream(w)'
  BY <1>1, <1>8, <1>9 DEF Goto, WorkerType
<1>10. ASSUME chunk[1].end > 0 /\ chunk[1].cur > chunk[1].end PROVE AllWritten
  BY <1>0, <1>1, <1>2, <1>10, PastEnd DEF WholeChunk, ChunkType
<1>11. ASSUME NextAttempt(w), written' = written PROVE WholeChunk' /\ OneStream(w)'
  <2>1. CASE Goto(w, "exit") /\ UNCHANGED chunk BY <2>1, <1>6, <1>9, <1>11
  <2>2. CASE /\ UNCHANGED chunk
             /\ \E n : worker' = [worker EXCEPT ![w].pc = "begin", ![w].attempt = n]
    <3>1. worker'[w].pc = "begin" BY <1>1, <2>2 DEF WorkerType
    <3> QED BY <2>2, <3>1, <1>6, <1>8, <1>11
  <2>3. CASE /\ Goto(w, "exit")
             /\ SetStatus(1, IF chunk[1].end > 0 /\ chunk[1].cur > chunk[1].end
                             THEN "Finished" ELSE "Error")
    BY <2>3, <1>1, <1>7, <1>9, <1>10, <1>11
  <2> QED BY <1>1, <1>11, <2>1, <2>2, <2>3 DEF NextAttempt
<1>12. CASE Begin(w)
  <2>0. live' = live /\ written' = written BY <1>12 DEF Begin
  <2>1. CASE Goto(w, "exit") /\ UNCHANGED chunk BY <2>0, <2>1, <1>4, <1>5, <1>6, <1>9
  <2>2. CASE /\ chunk[1].end > 0 /\ chunk[1].cur > chunk[1].end
             /\ SetStatus(1, "Finished") /\ Goto(w, "exit")
    BY <2>0, <2>2, <1>1, <1>4, <1>5, <1>7, <1>9, <1>10
  <2>3. CASE /\ worker' = [worker EXCEPT ![w].pc = "request", ![w].cur = chunk[1].cur,
                             ![w].lim = chunk[1].end, ![w].got = FALSE, ![w].full = FALSE]
             /\ UNCHANGED chunk
    <3>1. /\ worker'[w].pc = "request" /\ worker'[w].cur = chunk[1].cur
          /\ worker'[w].lim = chunk[1].end
      BY <1>1, <2>3 DEF WorkerType
    <3>2. OneStream(w)' BY <1>2, <2>0, <3>1 DEF OneStream, WholeChunk
    <3> QED BY <2>0, <2>3, <3>2, <1>4, <1>5, <1>6
  <2> QED BY <1>1, <1>12, <2>1, <2>2, <2>3 DEF Begin
<1>13. CASE Reply206(w)
  <2>1. /\ worker'[w].pc = "stream" /\ worker'[w].cur = worker[w].cur
        /\ worker'[w].lim = IF worker[w].lim > 0 THEN worker[w].lim ELSE FileLen - 1
    BY <1>1, <1>13 DEF Reply206, WorkerType
  <2>2. worker[w].pc = "request" /\ UNCHANGED <<chunk, live, written>>
    BY <1>13 DEF Reply206, chunkVars
  <2>3. OneStream(w)' BY <1>2, <2>1, <2>2 DEF OneStream
  <2> QED BY <2>2, <2>3, <1>4, <1>5, <1>6
<1>14. ~Reply200Other(w) BY <1>1, <1>2 DEF Reply200Other, IsFirst, WholeChunk
<1>15. CASE Reply200First(w)
  <2>1. WholeEnd > 0 => WholeEnd = FileLen - 1 BY <1>0 DEF WholeEnd
  <2>2. /\ live' = {1} /\ written' = written
        /\ chunk' = [chunk EXCEPT ![1].cur = 0, ![1].end = WholeEnd]
    BY <1>1, <1>15 DEF Reply200First
  <2>3. /\ chunk'[1].start = chunk[1].start /\ chunk'[1].cur = 0
        /\ chunk'[1].end = WholeEnd /\ chunk'[1].st = chunk[1].st
    BY <1>1, <2>2 DEF ChunkType
  <2>4. 0 .. chunk'[1].cur - 1 \subseteq written' BY <2>3
  <2>5. AllWritten => AllWritten' BY <2>2 DEF AllWritten
  <2>6. WholeChunk' BY <1>2, <2>1, <2>3, <2>4, <2>5 DEF WholeChunk
  <2>7. /\ worker'[w].pc = "stream" /\ worker'[w].cur = 0 /\ worker'[w].lim = FileLen - 1
    BY <1>1, <1>15 DEF Reply200First, WorkerType
  <2>8. OneStream(w)' BY <2>7 DEF OneStream
  <2> QED BY <2>2, <2>6, <2>8, <1>4
<1>16. CASE ReplyBusy(w) BY <1>16, <1>4, <1>5, <1>11 DEF ReplyBusy
<1>17. CASE ReplyDenied(w) BY <1>17, <1>4, <1>5, <1>6, <1>7, <1>9 DEF ReplyDenied
<1>18. CASE Abandon(w) BY <1>18, <1>4, <1>5, <1>6, <1>9 DEF Abandon, chunkVars
<1>19. CASE Stream(w)
  <2>0. live' = live /\ written' = written /\ worker[w].pc = "stream" BY <1>19 DEF Stream
  <2>1. CASE Goto(w, "exit") /\ UNCHANGED chunk BY <2>0, <2>1, <1>4, <1>5, <1>6, <1>9
  <2>2. CASE /\ chunk[1].end > 0 /\ worker[w].cur > chunk[1].end
             /\ SetStatus(1, "Finished") /\ Goto(w, "exit")
    <3>1. AllWritten
      BY <1>0, <1>1, <1>2, <2>0, <2>2, PastEnd DEF WholeChunk, OneStream, WorkerType
    <3> QED BY <2>0, <2>2, <3>1, <1>1, <1>4, <1>5, <1>7, <1>9
  <2>3. CASE /\ worker' = [worker EXCEPT ![w].pc = "read", ![w].dend = chunk[1].end]
             /\ UNCHANGED chunk
    <3>1. /\ worker'[w].pc = "read" /\ worker'[w].cur = worker[w].cur
          /\ worker'[w].lim = worker[w].lim /\ worker'[w].dend = chunk[1].end
      BY <1>1, <2>3 DEF WorkerType
    <3>2. OneStream(w)' BY <1>2, <2>0, <3>1 DEF OneStream, WholeChunk
    <3> QED BY <2>0, <2>3, <3>2, <1>4, <1>5, <1>6
  <2> QED BY <1>1, <1>19, <2>1, <2>2, <2>3 DEF Stream
<1>20. CASE Read(w)
  <2>1. PICK n \in 1 .. Buf :
          LET next == NextByte(w, n)
              ended == worker[w].dend > 0 /\ next > worker[w].dend
          IN
          /\ written' = written \cup (worker[w].cur .. worker[w].cur + WriteCount(w, n) - 1)
          /\ chunk' = [chunk EXCEPT ![1].cur = next,
                                    ![1].st = IF ended THEN "Finished" ELSE @]
          /\ worker' = [worker EXCEPT ![w].pc = IF ended THEN "exit" ELSE "stream",
                                      ![w].cur = next, ![w].got = TRUE]
    BY <1>1, <1>20 DEF Read
  <2> DEFINE next == NextByte(w, n)
             ended == worker[w].dend > 0 /\ next > worker[w].dend
  <2>2. live' = live /\ worker[w].pc = "read" BY <1>20 DEF Read
  <2>3. WriteCount(w, n) \in 1 .. n
    BY <1>0, <1>1, <2>2 DEF WriteCount, AheadOfEnd, WorkerType
  <2>4. /\ next \in Nat /\ worker[w].cur \in Nat
        /\ written' = written \cup (worker[w].cur .. next - 1)
    BY <1>0, <1>1, <2>1, <2>3 DEF NextByte, WorkerType
  <2>5. 0 .. worker[w].cur - 1 \subseteq written BY <1>2, <2>2 DEF OneStream
  <2>6. /\ chunk' = [chunk EXCEPT ![1].cur = next,
                                  ![1].st = IF ended THEN "Finished" ELSE @]
        /\ worker' = [worker EXCEPT ![w].pc = IF ended THEN "exit" ELSE "stream",
                                    ![w].cur = next, ![w].got = TRUE]
    BY <2>1
  <2>7. ended => next >= FileLen
    BY <1>0, <1>1, <1>2, <2>2, <2>4 DEF OneStream, WorkerType
  <2> HIDE DEF next, ended
  <2>8. 0 .. next - 1 \subseteq written' BY <2>4, <2>5
  <2>9. ended => AllWritten'
    <3>1. written' \subseteq 0 .. FileLen - 1 BY DEF TypeInv, OtherInv
    <3>2. ended => 0 .. FileLen - 1 \subseteq 0 .. next - 1 BY <1>0, <2>4, <2>7
    <3> QED BY <2>8, <3>1, <3>2 DEF AllWritten
  <2>10. AllWritten => AllWritten' BY <1>3 DEF AllWritten, TypeInv, OtherInv
  <2>11. /\ chunk'[1].start = chunk[1].start /\ chunk'[1].cur = next
         /\ chunk'[1].end = chunk[1].end
         /\ chunk'[1].st = IF ended THEN "Finished" ELSE chunk[1].st
    BY <1>1, <2>6 DEF ChunkType
  <2>12. WholeChunk' BY <1>2, <2>8, <2>9, <2>10, <2>11 DEF WholeChunk
  <2>13. /\ worker'[w].pc \in {"exit", "stream"} /\ worker'[w].cur = next
         /\ worker'[w].lim = worker[w].lim
    BY <1>1, <2>6 DEF WorkerType
  <2>14. OneStream(w)' BY <1>2, <2>2, <2>8, <2>13 DEF OneStream
  <2> QED BY <2>2, <2>12, <2>14, <1>4, <1>5
<1>21. CASE WriteError(w) BY <1>21, <1>4, <1>5, <1>6, <1>7, <1>9 DEF WriteError
<1>22. CASE Eof(w)
  <2>0. /\ live' = live /\ written' = written /\ worker[w].pc = "read"
        /\ worker[w].cur > worker[w].lim
    BY <1>22 DEF Eof
  <2>1. worker[w].cur = FileLen BY <1>0, <1>1, <1>2, <2>0 DEF OneStream, WorkerType
  <2>2. AllWritten
    <3>1. 0 .. FileLen - 1 \subseteq written BY <1>2, <2>0, <2>1 DEF OneStream
    <3> QED BY <1>0, <3>1, PastEnd
  <2>3. CASE Goto(w, "exit") /\ UNCHANGED chunk BY <2>0, <2>3, <1>4, <1>5, <1>6, <1>9
  <2>4. CASE Goto(w, "exit") /\ SetStatus(1, "Finished")
    BY <2>0, <2>2, <2>4, <1>1, <1>4, <1>5, <1>7, <1>9
  <2>5. CASE Goto(w, "exit") /\ chunk' = [chunk EXCEPT ![1].end = worker[w].cur - 1,
                                                       ![1].st = "Finished"]
    <3>1. /\ chunk'[1].start = chunk[1].start /\ chunk'[1].cur = chunk[1].cur
          /\ chunk'[1].end = FileLen - 1
      BY <1>1, <2>1, <2>5 DEF ChunkType
    <3>2. WholeChunk' BY <1>2, <2>0, <2>2, <3>1 DEF WholeChunk, AllWritten
    <3> QED BY <2>0, <2>5, <3>2, <1>4, <1>5, <1>9
  <2>6. CASE NextAttempt(w) BY <2>0, <2>6, <1>4, <1>5, <1>11
  <2> QED BY <1>1, <1>22, <2>3, <2>4, <2>5, <2>6 DEF Eof
<1>23. CASE Drop(w) BY <1>23, <1>4, <1>5, <1>11 DEF Drop
<1>24. CASE Exit(w)
  <2>1. worker'[w].pc = "idle" BY <1>1, <1>24 DEF Exit, Idle
  <2>2. /\ chunk'[1].start = chunk[1].start /\ chunk'[1].cur = chunk[1].cur
        /\ chunk'[1].end = chunk[1].end /\ chunk'[1].st = chunk[1].st
    BY <1>1, <1>24 DEF Exit, ChunkType
  <2>3. WholeChunk' /\ live' = live BY <1>2, <1>24, <2>2 DEF Exit, WholeChunk, AllWritten
  <2> QED BY <1>4, <1>5, <1>8, <2>1, <2>3
<1> QED
  BY <1>12, <1>13, <1>14, <1>15, <1>16, <1>17, <1>18, <1>19, <1>20, <1>21, <1>22, <1>23, <1>24
  DEF WorkerStep

\* A file of at most one byte has nothing to split, and one of unknown size is not
\* split: neither the orchestrator nor the user adds a chunk.
LEMMA NothingToSplit ==
  ASSUME totalSize < 2, TypeInv, WholeInv, totalSize = 1, NEW c \in live
  PROVE  ~Splittable(c)
<1>1. FileLen = 1 /\ c = 1 BY SizeAssumption DEF TypeInv, OtherInv, WholeInv
<1>2. chunk[1] \in ChunkType
  BY BoundAssumption, SizeAssumption DEF TypeInv, ChunkInv, Obj
<1>3. chunk[1].end <= 0 /\ chunk[1].end \in Int /\ chunk[1].cur \in Nat
  BY <1>1, <1>2 DEF WholeInv, WholeChunk, ChunkType
<1> QED BY <1>1, <1>3, BoundAssumption DEF Splittable, Left

\* A step that leaves the workers, the chunk's range and what is written alone.
LEMMA OthersWhole ==
  ASSUME TypeInv, WholeInv, UNCHANGED <<live, nobj, worker, written>>,
         chunk'[1].start = chunk[1].start, chunk'[1].cur = chunk[1].cur,
         chunk'[1].end = chunk[1].end,
         chunk'[1].st \in {chunk[1].st, "Pending", "Downloading"},
         orch'.pc \in {"lock", "split"} \/ mu' = "user" => totalSize' = 1,
         status' = "Finished" => AllWritten
  PROVE  WholeInv'
<1>1. WholeChunk' BY DEF WholeInv, WholeChunk, AllWritten
<1>2. \A w \in Worker : OneStream(w)' BY DEF WholeInv, OneStream
<1> QED BY <1>1, <1>2 DEF WholeInv, AllWritten

\* Every step of the orchestrator keeps WholeInv.
LEMMA OrchestratorWhole ==
  ASSUME totalSize < 2, TypeInv, TypeInv', WholeInv, Settled, Orchestrator
  PROVE  WholeInv'
<1>1. /\ 1 \in Obj /\ chunk \in [Obj -> ChunkType] /\ chunk[1] \in ChunkType
      /\ totalSize \in Int /\ orch \in OrchType
  BY BoundAssumption, SizeAssumption DEF TypeInv, OtherInv, ChunkInv, Obj
<1>2. UNCHANGED totalSize
  BY DEF Orchestrator, Scan, SplitLock, SplitStep, SplitUnlock, Spawn, SpawnEnd, Finalize
<1>3. CASE Scan
  <2>1. UNCHANGED <<live, nobj, worker, written, mu>> BY <1>3 DEF Scan, workerVars
  <2>2. /\ chunk'[1].start = chunk[1].start /\ chunk'[1].cur = chunk[1].cur
        /\ chunk'[1].end = chunk[1].end /\ chunk'[1].st \in {chunk[1].st, "Pending"}
    <3>1. CASE UNCHANGED chunk BY <3>1
    <3>2. CASE chunk' = [d \in Obj |-> IF d \in Retriable THEN Retried(d) ELSE chunk[d]]
      BY <1>1, <3>2 DEF Retried, ChunkType
    <3> QED BY <1>3, <3>1, <3>2 DEF Scan
  <2>3. orch'.pc = "lock" => totalSize > 0
    BY <1>1, <1>3 DEF Scan, OrchIdle, OrchType
  <2>4. orch'.pc # "split" BY <1>1, <1>3 DEF Scan, OrchIdle, OrchType
  <2>5. status' # "Finished" BY <1>3 DEF Scan, Settled
  <2>6. totalSize > 0 => totalSize = 1 BY <1>1
  <2> QED BY <1>2, <2>1, <2>2, <2>3, <2>4, <2>5, <2>6, OthersWhole DEF WholeInv
<1>4. CASE SplitLock
  <2>1. orch'.pc \in {"lock", "split"} \/ mu' = "user" => totalSize = 1
    BY <1>4 DEF SplitLock, WholeInv
  <2> QED BY <1>2, <1>4, <2>1, OthersWhole DEF SplitLock, WholeInv, workerVars, chunkVars
<1>5. ~SplitStep BY NothingToSplit DEF SplitStep, WholeInv
<1>6. ASSUME NEW w \in Worker, Spawn(w) PROVE WholeInv'
  <2>1. PICK c \in NextPending :
          /\ SetStatus(c, "Downloading")
          /\ worker' = [worker EXCEPT ![w] = [Idle EXCEPT !.pc = "begin", !.c = c,
                                                         !.from = chunk[c].cur]]
    BY <1>6 DEF Spawn
  <2>2. c = 1 /\ worker \in [Worker -> WorkerType]
    BY <1>1 DEF NextPending, WholeInv, OrchType, TypeInv, OtherInv, WorkerInv
  <2>3. UNCHANGED <<live, nobj, written, mu, status>> /\ orch'.pc = orch.pc
    BY <1>1, <1>6 DEF Spawn, OrchType
  <2>4. WholeChunk' BY <2>1, <2>2, <2>3, MarkWhole DEF WholeInv
  <2>5. ASSUME NEW v \in Worker PROVE OneStream(v)'
    <3>1. CASE v = w
      <4>1. worker'[w].pc = "begin" BY <2>1, <2>2 DEF Idle
      <4> QED BY <3>1, <4>1 DEF OneStream
    <3>2. CASE v # w
      <4>1. worker'[v] = worker[v] BY <2>1, <2>2, <3>2
      <4> QED BY <2>3, <4>1 DEF WholeInv, OneStream
    <3> QED BY <3>1, <3>2
  <2> QED BY <1>2, <2>3, <2>4, <2>5 DEF WholeInv, AllWritten
<1>7. CASE SplitUnlock \/ SpawnEnd
  <2>1. UNCHANGED <<live, nobj, chunk, worker, written, status>>
    BY <1>7 DEF SplitUnlock, SpawnEnd, chunkVars, workerVars
  <2>2. orch'.pc \notin {"lock", "split"}
    <3>1. CASE SplitUnlock
      <4>1. orch'.pc = "spawn" BY <1>1, <3>1 DEF SplitUnlock, OrchType
      <4> QED BY <4>1
    <3>2. CASE SpawnEnd BY <3>2 DEF SpawnEnd, OrchIdle
    <3> QED BY <1>7, <3>1, <3>2
  <2>3. mu' = "user" => mu = "user" BY <1>7 DEF SplitUnlock, SpawnEnd
  <2> QED BY <1>2, <2>1, <2>2, <2>3, OthersWhole DEF WholeInv
<1>8. CASE Finalize
  <2>1. UNCHANGED <<live, nobj, chunk, worker, written, mu>>
    BY <1>8 DEF Finalize, chunkVars, workerVars
  <2>2. orch'.pc = "done" BY <1>8 DEF Finalize, OrchIdle
  <2>3. status' = "Finished" => AllWritten
    BY <1>8 DEF Finalize, Verified, WholeInv, WholeChunk
  <2> QED BY <1>2, <2>1, <2>2, <2>3, OthersWhole DEF WholeInv
<1> QED BY <1>3, <1>4, <1>5, <1>6, <1>7, <1>8 DEF Orchestrator

\* Every step of UpdateThreadCount keeps WholeInv.
LEMMA UserWhole ==
  ASSUME totalSize < 2, TypeInv, WholeInv, User
  PROVE  WholeInv'
<1>1. UNCHANGED <<worker, written, orch, status, totalSize>>
  BY DEF User, UpdateThreadCount, UserSplit, workerVars
<1>2. /\ 1 \in Obj /\ chunk \in [Obj -> ChunkType] /\ chunk[1] \in ChunkType
      /\ totalSize \in Int
  BY BoundAssumption, SizeAssumption DEF TypeInv, OtherInv, ChunkInv, Obj
<1>3. ASSUME NEW k \in ThreadRequests, UpdateThreadCount(k) PROVE WholeInv'
  <2>1. PICK S : chunk' = [d \in Obj |-> IF d \in S
                             THEN [chunk[d] EXCEPT !.st = "Pending"] ELSE chunk[d]]
    BY <1>3 DEF UpdateThreadCount
  <2>2. /\ chunk'[1].start = chunk[1].start /\ chunk'[1].cur = chunk[1].cur
        /\ chunk'[1].end = chunk[1].end /\ chunk'[1].st \in {chunk[1].st, "Pending"}
    BY <1>2, <2>1 DEF ChunkType
  <2>3. live' = live /\ nobj' = nobj /\ (mu' = "user" => mu = "user" \/ totalSize > 0)
    BY <1>3 DEF UpdateThreadCount
  <2>4. totalSize > 0 => totalSize = 1 BY <1>2
  <2> QED BY <1>1, <2>2, <2>3, <2>4, OthersWhole DEF WholeInv
<1>4. CASE UserSplit
  <2>1. mu = "user" /\ totalSize = 1 BY <1>4 DEF UserSplit, WholeInv
  <2>2. ~CanSplit BY <2>1, NothingToSplit DEF CanSplit
  <2>3. UNCHANGED chunkVars BY <1>4, <2>2 DEF UserSplit
  <2> QED BY <1>1, <2>1, <2>3, OthersWhole DEF WholeInv, chunkVars
<1> QED BY <1>3, <1>4 DEF User

\* Such a file starts as one chunk.
LEMMA InitWhole == ASSUME totalSize < 2, Init PROVE WholeInv
<1>1. /\ Laid = 1 /\ FileLen \in Nat /\ MaxChunks \in Nat \ {0}
      /\ totalSize \in {FileLen, -1}
  BY SizeAssumption, BoundAssumption DEF Laid, Init
<1>2. live = {1} /\ nobj = 1 BY <1>1 DEF Init
<1>3. chunk[1] = [NoChunk EXCEPT !.end = IF totalSize >= 1 THEN totalSize - 1 ELSE totalSize]
  BY <1>1 DEF Init, FreshChunk, Obj
<1>4. WholeChunk BY <1>1, <1>3 DEF WholeChunk, NoChunk
<1>5. \A w \in Worker : OneStream(w) BY DEF Init, OneStream, Idle
<1> QED BY <1>2, <1>4, <1>5 DEF WholeInv, Init, OrchIdle

-----------------------------------------------------------------------------
(***************************************************************************)
(* Files of two bytes or more, fetched by range from a server that honours *)
(* ranges.                                                                 *)
(***************************************************************************)

\* A chunk of the list ends inside the file, and what it counts is on disk.
Sound(c) ==
  /\ chunk[c].end \in 1 .. FileLen - 1
  /\ chunk[c].start <= chunk[c].cur
  /\ chunk[c].start .. chunk[c].cur - 1 \subseteq written

\* A worker carries a chunk of the list, asks for a range, and all that lies between
\* the start of its chunk and the offset it will write next is on disk.
Tracks(w) ==
  LET c == worker[w].c IN
  /\ worker[w].pc # "idle" => c \in live
  /\ worker[w].pc \in {"request", "stream", "read"} =>
       /\ ~worker[w].full /\ worker[w].lim >= 1
       /\ chunk[c].start <= worker[w].cur
       /\ chunk[c].start .. worker[w].cur - 1 \subseteq written
  /\ worker[w].pc = "read" => worker[w].dend >= 1

\* The inductive invariant.  FinishedHasNoHole alone is not inductive: that the
\* verification of finalizeDownload is enough needs what the chunks count to be on
\* disk (Sound), which needs the same of the workers in flight, late ones included
\* (Tracks), and needs the chunks to cover the file (TileInv).
SafeInv ==
  /\ \A c \in live : Sound(c)
  /\ \A w \in Worker : Tracks(w)
  /\ orch.pend \subseteq live /\ orch.retr \subseteq live
  /\ status = "Finished" => written = 0 .. FileLen - 1

\* What a step that leaves a worker, a chunk or the ranges alone keeps.
LEMMA TracksKept ==
  ASSUME NEW w \in Worker, Tracks(w), worker'[w] = worker[w], live \subseteq live',
         written \subseteq written',
         \A c \in live : chunk'[c].start = chunk[c].start
  PROVE  Tracks(w)'
BY DEF Tracks

\* A chunk keeps counting what is written when its range and count stay.
LEMMA SoundKept ==
  ASSUME NEW c \in live, Sound(c), written \subseteq written',
         chunk'[c].start = chunk[c].start, chunk'[c].cur = chunk[c].cur,
         chunk'[c].end = chunk[c].end
  PROVE  Sound(c)'
BY DEF Sound

\* A step that changes no range and no count.
SameRanges ==
  /\ live' = live
  /\ \A c \in live : /\ chunk'[c].start = chunk[c].start
                     /\ chunk'[c].cur = chunk[c].cur
                     /\ chunk'[c].end = chunk[c].end

\* Setting a status changes no range.
LEMMA StatusKeepsRanges ==
  ASSUME TypeInv, NEW c \in Obj, NEW s, SetStatus(c, s), live' = live
  PROVE  SameRanges
<1>1. live \subseteq Obj BY BoundAssumption DEF TypeInv, OtherInv, Obj
<1>2. \A d \in Obj : chunk[d] \in ChunkType BY DEF TypeInv, ChunkInv
<1>3. chunk' = [chunk EXCEPT ![c].st = s] BY DEF SetStatus
<1>4. chunk \in [Obj -> ChunkType] BY DEF TypeInv, ChunkInv
<1> QED BY <1>1, <1>2, <1>3, <1>4 DEF SameRanges, ChunkType

\* A worker that leaves for its exit keeps its place.
LEMMA GotoTracks ==
  ASSUME TypeInv, NEW w \in Worker, Tracks(w), worker[w].pc # "idle", Goto(w, "exit"),
         live' = live
  PROVE  Tracks(w)'
<1>1. worker \in [Worker -> WorkerType] BY DEF TypeInv, WorkerInv
<1>2. worker'[w].pc = "exit" /\ worker'[w].c = worker[w].c
  BY <1>1 DEF Goto, WorkerType
<1> QED BY <1>2 DEF Tracks

\* Every step of a worker keeps SafeInv: no reply of 200 is possible, a read extends
\* what is on disk by what it counts, and the other steps change no range.
LEMMA WorkerStepSafe ==
  ASSUME RangeSupport = "honoured", totalSize >= 2, TypeInv, TypeInv', SafeInv, NEW w \in Worker, WorkerStep(w)
  PROVE  SafeInv'
<1> DEFINE c == worker[w].c
<1>0. FileLen \in Nat /\ FileLen >= 2 BY SizeAssumption DEF TypeInv, OtherInv
<1>1. worker[w] \in WorkerType /\ Tracks(w) /\ AheadOfEnd(worker[w])
  BY DEF TypeInv, WorkerInv, SafeInv
<1>2. worker[w].pc # "idle"
  BY DEF WorkerStep, Begin, Reply206, Reply200Other, Reply200First, May200,
     ReplyBusy, ReplyDenied, Abandon, Stream, Read, WriteError, Eof, Drop, Exit
<1>3. c \in live /\ c \in Obj /\ live \subseteq Obj
  BY <1>1, <1>2, BoundAssumption DEF Tracks, TypeInv, OtherInv, Obj, WorkerType
<1>4. Sound(c) /\ chunk[c] \in ChunkType BY <1>3 DEF SafeInv, TypeInv, ChunkInv
<1>5. worker[w].pc = "request" => ~May200(w)
  <2>1. worker[w].pc = "request" => worker[w].lim >= 1 BY <1>1 DEF Tracks
  <2> QED BY <1>1, <2>1 DEF May200, HasRange, WorkerType
<1>6. ~Reply200Other(w) /\ ~Reply200First(w)
  BY <1>5 DEF Reply200Other, Reply200First, May200
<1>7. /\ live' = live /\ orch' = orch /\ status' = status
      /\ written \subseteq written'
      /\ \A v \in Worker \ {w} : worker'[v] = worker[v]
  BY <1>6 DEF WorkerStep, Begin, Reply206, ReplyBusy, ReplyDenied, Abandon, Stream, Read,
     WriteError, Eof, Drop, Exit, NextAttempt, Goto, SetStatus, chunkVars, TypeInv, WorkerInv
<1>8. ASSUME SameRanges, Tracks(w)' PROVE SafeInv'
  <2>1. \A d \in live' : Sound(d)' BY <1>7, <1>8, SoundKept DEF SameRanges, SafeInv
  <2>2. \A v \in Worker : Tracks(v)' BY <1>7, <1>8, TracksKept DEF SameRanges, SafeInv
  <2>4. status' = "Finished" => written' = 0 .. FileLen - 1
    BY <1>7 DEF SafeInv, TypeInv, OtherInv
  <2> QED BY <1>7, <2>1, <2>2, <2>4 DEF SafeInv
<1>9. ASSUME UNCHANGED chunk PROVE SameRanges BY <1>7, <1>9 DEF SameRanges
<1>10. ASSUME NEW s, SetStatus(c, s) PROVE SameRanges
  BY <1>3, <1>7, <1>10, StatusKeepsRanges
<1>11. ASSUME Goto(w, "exit") PROVE Tracks(w)'
  BY <1>1, <1>2, <1>7, <1>11, GotoTracks
<1>12. ASSUME NextAttempt(w) PROVE SameRanges /\ Tracks(w)'
  <2>1. CASE Goto(w, "exit") /\ UNCHANGED chunk BY <2>1, <1>9, <1>11
  <2>2. CASE Goto(w, "exit") /\ \E s : SetStatus(c, s) BY <2>2, <1>10, <1>11
  <2>3. CASE /\ UNCHANGED chunk
             /\ \E n : worker' = [worker EXCEPT ![w].pc = "begin", ![w].attempt = n]
    <3>1. worker'[w].pc = "begin" /\ worker'[w].c = c
      BY <1>1, <2>3 DEF WorkerType, TypeInv, WorkerInv
    <3>2. Tracks(w)' BY <1>3, <1>7, <3>1 DEF Tracks
    <3> QED BY <2>3, <1>9, <3>2
  <2> QED BY <1>12, <2>1, <2>2, <2>3 DEF NextAttempt
<1>13. CASE Begin(w)
  <2>1. CASE Goto(w, "exit") /\ UNCHANGED chunk BY <2>1, <1>8, <1>9, <1>11
  <2>2. CASE Goto(w, "exit") /\ SetStatus(c, "Finished") BY <2>2, <1>8, <1>10, <1>11
  <2>3. CASE /\ worker' = [worker EXCEPT ![w].pc = "request", ![w].cur = chunk[c].cur,
                             ![w].lim = chunk[c].end, ![w].got = FALSE, ![w].full = FALSE]
             /\ UNCHANGED chunk
    <3>1. /\ worker'[w].pc = "request" /\ worker'[w].c = c
          /\ worker'[w].cur = chunk[c].cur /\ worker'[w].lim = chunk[c].end
          /\ ~worker'[w].full
      BY <1>1, <2>3 DEF WorkerType, TypeInv, WorkerInv
    <3>2. chunk[c].end >= 1 BY <1>0, <1>4 DEF Sound
    <3>3. chunk[c].start <= chunk[c].cur /\ chunk[c].start .. chunk[c].cur - 1 \subseteq written
      BY <1>4 DEF Sound
    <3>4. c \in live' /\ chunk'[c] = chunk[c] /\ written \subseteq written' BY <1>3, <1>7, <2>3
    <3>5. Tracks(w)'
      <4> HIDE DEF c
      <4> QED BY <3>1, <3>2, <3>3, <3>4 DEF Tracks
    <3> QED BY <2>3, <3>5, <1>8, <1>9
  <2> QED BY <1>13, <2>1, <2>2, <2>3 DEF Begin
<1>14. CASE Reply206(w)
  <2>1. /\ worker'[w].pc = "stream" /\ worker'[w].c = c /\ worker'[w].cur = worker[w].cur
        /\ worker'[w].full = worker[w].full
        /\ worker'[w].lim = IF worker[w].lim > 0 THEN worker[w].lim ELSE FileLen - 1
    BY <1>1, <1>14 DEF Reply206, WorkerType, TypeInv, WorkerInv
  <2>2. UNCHANGED chunk /\ worker[w].pc = "request" BY <1>14 DEF Reply206, chunkVars
  <2>3. worker'[w].lim = worker[w].lim BY <1>1, <2>1, <2>2 DEF Tracks, WorkerType
  <2>4. Tracks(w)' BY <1>1, <1>3, <1>7, <2>1, <2>2, <2>3 DEF Tracks
  <2> QED BY <2>2, <2>4, <1>8, <1>9
<1>15. CASE ReplyBusy(w) BY <1>15, <1>8, <1>12 DEF ReplyBusy
<1>16. CASE ReplyDenied(w) BY <1>16, <1>8, <1>9, <1>10, <1>11 DEF ReplyDenied
<1>17. CASE Abandon(w) BY <1>17, <1>8, <1>9, <1>11 DEF Abandon, chunkVars
<1>18. CASE Stream(w)
  <2>1. CASE Goto(w, "exit") /\ UNCHANGED chunk BY <2>1, <1>8, <1>9, <1>11
  <2>2. CASE Goto(w, "exit") /\ SetStatus(c, "Finished") BY <2>2, <1>8, <1>10, <1>11
  <2>3. CASE /\ worker' = [worker EXCEPT ![w].pc = "read", ![w].dend = chunk[c].end]
             /\ UNCHANGED chunk
    <3>1. /\ worker'[w].pc = "read" /\ worker'[w].c = c /\ worker'[w].cur = worker[w].cur
          /\ worker'[w].full = worker[w].full /\ worker'[w].lim = worker[w].lim
          /\ worker'[w].dend = chunk[c].end
      BY <1>1, <2>3 DEF WorkerType, TypeInv, WorkerInv
    <3>2. worker[w].pc = "stream" BY <1>18 DEF Stream
    <3>3. chunk[c].end >= 1 BY <1>0, <1>4 DEF Sound
    <3>4. /\ ~worker[w].full /\ worker[w].lim >= 1 /\ chunk[c].start <= worker[w].cur
          /\ chunk[c].start .. worker[w].cur - 1 \subseteq written
      BY <1>1, <3>2 DEF Tracks
    <3>5. c \in live' /\ chunk'[c] = chunk[c] /\ written \subseteq written' BY <1>3, <1>7, <2>3
    <3>6. Tracks(w)'
      <4> HIDE DEF c
      <4> QED BY <3>1, <3>3, <3>4, <3>5 DEF Tracks
    <3> QED BY <2>3, <3>6, <1>8, <1>9
  <2> QED BY <1>18, <2>1, <2>2, <2>3 DEF Stream
<1>19. CASE Read(w)
  <2>1. PICK n \in 1 .. Buf :
          LET next == NextByte(w, n)
              ended == worker[w].dend > 0 /\ next > worker[w].dend
          IN
          /\ worker[w].cur + n - 1 <= worker[w].lim
          /\ written' = written \cup (worker[w].cur .. worker[w].cur + WriteCount(w, n) - 1)
          /\ chunk' = [chunk EXCEPT ![c].cur = next,
                                    ![c].st = IF ended THEN "Finished" ELSE @]
          /\ worker' = [worker EXCEPT ![w].pc = IF ended THEN "exit" ELSE "stream",
                                      ![w].cur = next, ![w].got = TRUE]
    BY <1>19 DEF Read
  <2> DEFINE cur == worker[w].cur
             next == NextByte(w, n)
             start == chunk[c].start
  <2>2. worker[w].pc = "read" BY <1>19 DEF Read
  <2>3. /\ cur \in Nat /\ start \in Nat /\ start <= cur
        /\ start .. cur - 1 \subseteq written
        /\ ~worker[w].full /\ worker[w].lim >= 1
    BY <1>1, <1>4, <2>2 DEF Tracks, WorkerType, ChunkType
  <2>4. WriteCount(w, n) \in 1 .. n
    BY <1>0, <1>1, <2>2 DEF WriteCount, AheadOfEnd, WorkerType
  <2>5. next \in Nat /\ next > cur /\ written' = written \cup (cur .. next - 1)
    BY <2>1, <2>3, <2>4 DEF NextByte
  <2>6. start .. next - 1 \subseteq written'
    <3> HIDE DEF cur, next, start
    <3> QED BY <2>3, <2>5
  <2>7. /\ \A d \in live : chunk'[d].start = chunk[d].start /\ chunk'[d].end = chunk[d].end
        /\ \A d \in live \ {c} : chunk'[d].cur = chunk[d].cur
        /\ chunk'[c].cur = next
    <3>1. /\ chunk \in [Obj -> ChunkType]
          /\ \A d \in live : d \in Obj /\ chunk[d] \in ChunkType
      BY <1>3 DEF TypeInv, ChunkInv
    <3> HIDE DEF next
    <3> QED BY <1>3, <2>1, <3>1 DEF ChunkType, next
  <2>8. worker'[w].c = c /\ worker'[w].cur = next /\ worker'[w].pc \in {"exit", "stream"}
        /\ worker'[w].full = worker[w].full /\ worker'[w].lim = worker[w].lim
    <3>1. worker \in [Worker -> WorkerType] BY DEF TypeInv, WorkerInv
    <3> HIDE DEF next
    <3> QED BY <1>1, <2>1, <3>1 DEF WorkerType, next
  <2>10. Tracks(w)' BY <1>3, <1>7, <2>3, <2>5, <2>6, <2>7, <2>8 DEF Tracks
  <2>11. ASSUME NEW d \in live PROVE Sound(d)'
    <3>1. CASE d = c
      <4>1. /\ chunk'[d].start = start /\ chunk'[d].cur = next
            /\ chunk'[d].end = chunk[d].end /\ chunk[d].end \in 1 .. FileLen - 1
        BY <1>3, <1>4, <2>7, <3>1 DEF Sound
      <4>2. start <= next BY <2>3, <2>5
      <4> HIDE DEF c, next, start
      <4> QED BY <2>6, <4>1, <4>2 DEF Sound
    <3>2. CASE d # c BY <1>7, <2>7, <3>2, SoundKept DEF SafeInv
    <3> QED BY <3>1, <3>2
  <2>12. \A v \in Worker : Tracks(v)' BY <1>7, <2>7, <2>10, TracksKept DEF SafeInv
  <2>14. status' = "Finished" => written' = 0 .. FileLen - 1
    BY <1>7 DEF SafeInv, TypeInv, OtherInv
  <2> QED BY <1>7, <2>11, <2>12, <2>14 DEF SafeInv
<1>20. CASE WriteError(w) BY <1>20, <1>8, <1>9, <1>10, <1>11 DEF WriteError
<1>21. CASE Eof(w)
  <2>1. worker[w].dend >= 1 /\ worker[w].dend \in Int
    BY <1>1, <1>21 DEF Eof, Tracks, WorkerType
  <2>2. CASE Goto(w, "exit") /\ UNCHANGED chunk BY <2>2, <1>8, <1>9, <1>11
  <2>3. CASE Goto(w, "exit") /\ SetStatus(c, "Finished") BY <2>3, <1>8, <1>10, <1>11
  <2>4. CASE NextAttempt(w) BY <2>4, <1>8, <1>12
  <2> QED BY <1>21, <2>1, <2>2, <2>3, <2>4 DEF Eof
<1>22. CASE Drop(w) BY <1>22, <1>8, <1>12 DEF Drop
<1>23. CASE Exit(w)
  <2>1. SameRanges
    <3>1. /\ chunk \in [Obj -> ChunkType]
          /\ \A d \in live : d \in Obj /\ chunk[d] \in ChunkType
      BY <1>3 DEF TypeInv, ChunkInv
    <3> QED BY <1>3, <1>7, <1>23, <3>1 DEF Exit, SameRanges, ChunkType
  <2>2. worker'[w] = Idle BY <1>23 DEF Exit, TypeInv, WorkerInv
  <2>3. Tracks(w)' BY <2>2 DEF Tracks, Idle
  <2> QED BY <2>1, <2>3, <1>8
<1> QED
  BY <1>6, <1>13, <1>14, <1>15, <1>16, <1>17, <1>18, <1>19, <1>20, <1>21, <1>22, <1>23
  DEF WorkerStep

\* A split keeps what the chunks count and what the workers track.
LEMMA SplitSafe ==
  ASSUME RangeSupport = "honoured", totalSize >= 2, TypeInv, SafeInv, NEW c \in live, Splittable(c), Split(c),
         UNCHANGED <<worker, written>>
  PROVE  /\ \A d \in live' : Sound(d)'
         /\ \A w \in Worker : Tracks(w)'
         /\ live \subseteq live'
<1> DEFINE new == nobj + 1
           mid == MidPoint(c)
<1>1. /\ FileLen \in Nat /\ MinSplit \in Nat /\ MinSplit >= 2
      /\ nobj \in Nat /\ live \subseteq 1 .. nobj /\ live \subseteq Obj
  BY SizeAssumption, BoundAssumption DEF TypeInv, OtherInv, Obj
<1>2. /\ c \in Obj /\ new \notin live /\ new # c
      /\ chunk \in [Obj -> ChunkType]
      /\ \A d \in live : d \in Obj /\ chunk[d] \in ChunkType
  BY <1>1 DEF TypeInv, ChunkInv
<1>3. /\ new \in Obj /\ live' = live \cup {new}
      /\ chunk' = [chunk EXCEPT ![c].end = mid,
                               ![new] = [start |-> mid + 1, cur |-> mid + 1,
                                         end |-> chunk[c].end,
                                         st |-> "Pending", retry |-> 0]]
  BY DEF Split
<1>4. Sound(c) /\ chunk[c] \in ChunkType BY <1>2 DEF SafeInv
<1>5. /\ mid \in Nat /\ chunk[c].cur <= mid /\ mid < chunk[c].end
      /\ chunk[c].start \in Nat /\ chunk[c].cur \in Nat
      /\ chunk[c].start <= chunk[c].cur
      /\ chunk[c].end \in 1 .. FileLen - 1
  BY <1>1, <1>4 DEF Splittable, Left, MidPoint, ChunkType, Sound
<1>6. mid >= 1
  BY <1>1, <1>4 DEF Splittable, Left, MidPoint, ChunkType
<1> HIDE DEF mid
<1>7. /\ \A d \in live \ {c} : chunk'[d] = chunk[d]
      /\ chunk'[c].start = chunk[c].start /\ chunk'[c].cur = chunk[c].cur
      /\ chunk'[c].end = mid
  <2> HIDE DEF new
  <2> QED BY <1>2, <1>3, <1>4 DEF ChunkType
<1>8. /\ chunk'[new].start = mid + 1 /\ chunk'[new].cur = mid + 1
      /\ chunk'[new].end = chunk[c].end
  <2> HIDE DEF new
  <2> QED BY <1>2, <1>3
<1>9. ASSUME NEW d \in live' PROVE Sound(d)'
  <2>1. CASE d = new
    BY <1>1, <1>5, <1>8, <2>1 DEF Sound
  <2>2. CASE d = c
    <3>1. chunk[c].start .. chunk[c].cur - 1 \subseteq written' BY <1>4 DEF Sound
    <3>2. mid \in 1 .. FileLen - 1 BY <1>1, <1>5, <1>6
    <3> QED BY <1>5, <1>7, <2>2, <3>1, <3>2 DEF Sound
  <2>3. CASE d \in live \ {c}
    BY <1>7, <2>3, SoundKept DEF SafeInv
  <2> QED BY <1>3, <2>1, <2>2, <2>3
<1>10. ASSUME NEW w \in Worker PROVE Tracks(w)'
  BY <1>3, <1>7, TracksKept DEF SafeInv
<1> QED BY <1>3, <1>9, <1>10

\* Every step of the orchestrator, then of UpdateThreadCount, keeps SafeInv.
LEMMA OrchestratorSafe ==
  ASSUME RangeSupport = "honoured", totalSize >= 2, TypeInv, TypeInv', TileInv, SafeInv, Settled, Orchestrator
  PROVE  SafeInv'
<1>1. live \subseteq Obj BY BoundAssumption DEF TypeInv, OtherInv, Obj
<1>2. ASSUME SameRanges, UNCHANGED <<worker, written>>,
             orch'.pend \subseteq live, orch'.retr \subseteq live,
             status' = "Finished" => written = 0 .. FileLen - 1
      PROVE  SafeInv'
  <2>1. \A d \in live' : Sound(d)' BY <1>2, SoundKept DEF SameRanges, SafeInv
  <2>2. \A v \in Worker : Tracks(v)' BY <1>2, TracksKept DEF SameRanges, SafeInv
  <2> QED BY <1>2, <2>1, <2>2 DEF SafeInv, SameRanges
<1>3. ASSUME UNCHANGED chunkVars PROVE SameRanges BY <1>3 DEF SameRanges, chunkVars
<1>4. CASE Scan
  <2>1. SameRanges
    <3>1. CASE UNCHANGED chunk BY <1>4, <3>1 DEF SameRanges, Scan
    <3>2. CASE chunk' = [d \in Obj |-> IF d \in Retriable THEN Retried(d) ELSE chunk[d]]
      <4>1. \A d \in Obj : /\ Retried(d).start = chunk[d].start
                           /\ Retried(d).cur = chunk[d].cur
                           /\ Retried(d).end = chunk[d].end
        BY DEF Retried, TypeInv, ChunkInv, ChunkType
      <4> QED BY <1>1, <1>4, <3>2, <4>1 DEF SameRanges, Scan
    <3> QED BY <1>4, <3>1, <3>2 DEF Scan
  <2>2. Waiting \subseteq live /\ Retriable \subseteq live
    BY DEF Waiting, Retriable, Errors
  <2>3. orch'.pend \subseteq live /\ orch'.retr \subseteq live
    <3>1. CASE orch' = [orch EXCEPT !.pc = "finalize"]
      BY <3>1 DEF SafeInv, TypeInv, OtherInv, OrchType
    <3>2. CASE orch' = [OrchIdle EXCEPT !.pc = "done"] BY <3>2 DEF OrchIdle
    <3>3. CASE \E pc \in {"lock", "spawn"} :
                 orch' = [OrchIdle EXCEPT !.pc = pc, !.active = Cardinality(Active),
                            !.pend = Waiting, !.retr = Retriable, !.thr = threads]
      BY <2>2, <3>3 DEF OrchIdle
    <3> QED BY <1>4, <3>1, <3>2, <3>3 DEF Scan
  <2>4. status' # "Finished"
    BY <1>4 DEF Scan, Settled
  <2> QED BY <1>2, <1>4, <2>1, <2>3, <2>4 DEF Scan, workerVars
<1>5. CASE SplitLock
  <2>1. orch'.pend = orch.pend /\ orch'.retr = orch.retr
    BY <1>5 DEF SplitLock, TypeInv, OtherInv, OrchType
  <2> QED BY <1>2, <1>3, <1>5, <2>1 DEF SplitLock, SafeInv, workerVars
<1>6. CASE SplitStep
  <2>1. /\ \A d \in live' : Sound(d)'
        /\ \A w \in Worker : Tracks(w)'
        /\ live \subseteq live'
    BY <1>6, SplitSafe DEF SplitStep, workerVars
  <2>2. orch'.pend = orch.pend /\ orch'.retr = orch.retr
    BY <1>6 DEF SplitStep, TypeInv, OtherInv, OrchType
  <2> QED BY <1>6, <2>1, <2>2 DEF SplitStep, SafeInv
<1>7. CASE SplitUnlock
  <2>1. orch'.pend \subseteq live /\ orch'.retr \subseteq live
    BY <1>7 DEF SplitUnlock, TypeInv, OtherInv, OrchType
  <2> QED BY <1>2, <1>3, <1>7, <2>1 DEF SplitUnlock, SafeInv, workerVars
<1>8. ASSUME NEW w \in Worker, Spawn(w) PROVE SafeInv'
  <2>1. PICK c \in NextPending :
          /\ SetStatus(c, "Downloading")
          /\ worker' = [worker EXCEPT ![w] = [Idle EXCEPT !.pc = "begin", !.c = c,
                                                         !.from = chunk[c].cur]]
          /\ orch' = [orch EXCEPT !.active = @ + 1, !.pend = @ \ {c}, !.retr = @ \ {c}]
    BY <1>8 DEF Spawn
  <2>2. c \in live BY DEF NextPending, SafeInv
  <2>3. live' = live /\ written' = written /\ status' = status BY <1>8 DEF Spawn
  <2>4. SameRanges BY <1>1, <2>1, <2>2, <2>3, StatusKeepsRanges
  <2>5. \A d \in live' : Sound(d)' BY <2>3, <2>4, SoundKept DEF SameRanges, SafeInv
  <2>6. \A v \in Worker : Tracks(v)'
    <3>1. worker'[w].pc = "begin" /\ worker'[w].c = c
      BY <2>1 DEF Idle, TypeInv, WorkerInv
    <3>2. Tracks(w)' BY <2>2, <2>3, <3>1 DEF Tracks
    <3>3. \A v \in Worker \ {w} : worker'[v] = worker[v]
      BY <2>1 DEF TypeInv, WorkerInv
    <3> QED BY <2>3, <2>4, <3>2, <3>3, TracksKept DEF SameRanges, SafeInv
  <2>8. orch'.pend \subseteq live /\ orch'.retr \subseteq live
    BY <2>1 DEF SafeInv, TypeInv, OtherInv, OrchType
  <2> QED BY <2>3, <2>5, <2>6, <2>8 DEF SafeInv
<1>9. CASE SpawnEnd
  <2>1. orch'.pend \subseteq live /\ orch'.retr \subseteq live
    BY <1>9 DEF SpawnEnd, OrchIdle
  <2> QED BY <1>2, <1>3, <1>9, <2>1 DEF SpawnEnd, SafeInv, workerVars
<1>10. CASE Finalize
  <2>1. orch'.pend \subseteq live /\ orch'.retr \subseteq live
    BY <1>10 DEF Finalize, OrchIdle
  <2>2. ASSUME Verified PROVE written = 0 .. FileLen - 1
    <3>1. ASSUME NEW b \in 0 .. FileLen - 1 PROVE b \in written
      <4>0. totalSize > 0 BY SizeAssumption DEF TypeInv, OtherInv
      <4>1. PICK c \in live : chunk[c].start <= b /\ b <= chunk[c].end
        BY <4>0 DEF TileInv, Covered
      <4>2. Sound(c) /\ chunk[c] \in ChunkType /\ FileLen \in Nat
        BY <1>1, SizeAssumption DEF SafeInv, TypeInv, ChunkInv
      <4>3. chunk[c].cur > chunk[c].end
        BY <2>2, <4>2 DEF Verified, Sound, ChunkType
      <4>4. b \in chunk[c].start .. chunk[c].cur - 1
        BY <4>1, <4>2, <4>3 DEF ChunkType
      <4> QED BY <4>2, <4>4 DEF Sound
    <3> QED BY <3>1 DEF TypeInv, OtherInv
  <2>3. status' = "Finished" => written = 0 .. FileLen - 1
    BY <1>10, <2>2 DEF Finalize
  <2> QED BY <1>2, <1>3, <1>10, <2>1, <2>3 DEF Finalize, workerVars
<1> QED BY <1>4, <1>5, <1>6, <1>7, <1>8, <1>9, <1>10 DEF Orchestrator

\* UpdateThreadCount keeps SafeInv: a chunk is split in two that tile it.
LEMMA UserSafe ==
  ASSUME RangeSupport = "honoured", totalSize >= 2, TypeInv, SafeInv, User
  PROVE  SafeInv'
<1>1. UNCHANGED <<worker, written, orch, status>>
  BY DEF User, UpdateThreadCount, UserSplit, workerVars
<1>2. ASSUME SameRanges PROVE SafeInv'
  <2>1. \A d \in live' : Sound(d)' BY <1>1, <1>2, SoundKept DEF SameRanges, SafeInv
  <2>2. \A v \in Worker : Tracks(v)' BY <1>1, <1>2, TracksKept DEF SameRanges, SafeInv
  <2> QED BY <1>1, <1>2, <2>1, <2>2 DEF SafeInv, SameRanges
<1>3. ASSUME NEW k \in ThreadRequests, UpdateThreadCount(k) PROVE SafeInv'
  <2>1. PICK S : chunk' = [d \in Obj |-> IF d \in S
                             THEN [chunk[d] EXCEPT !.st = "Pending"] ELSE chunk[d]]
    BY <1>3 DEF UpdateThreadCount
  <2>2. \A d \in Obj : /\ chunk'[d].start = chunk[d].start
                       /\ chunk'[d].cur = chunk[d].cur
                       /\ chunk'[d].end = chunk[d].end
    BY <2>1 DEF TypeInv, ChunkInv, ChunkType
  <2>3. live' = live /\ live \subseteq Obj
    BY <1>3, BoundAssumption DEF UpdateThreadCount, TypeInv, OtherInv, Obj
  <2> QED BY <1>2, <2>2, <2>3 DEF SameRanges
<1>4. CASE UserSplit
  <2>1. CASE UNCHANGED chunkVars BY <1>2, <2>1 DEF SameRanges, chunkVars
  <2>2. CASE \E c \in live : Splittable(c) /\ Split(c)
    <3>1. /\ \A d \in live' : Sound(d)'
          /\ \A w \in Worker : Tracks(w)'
          /\ live \subseteq live'
      BY <1>1, <2>2, SplitSafe
    <3> QED BY <1>1, <3>1 DEF SafeInv
  <2> QED BY <1>4, <2>1, <2>2 DEF UserSplit
<1> QED BY <1>3, <1>4 DEF User

\* The chunks start with nothing counted.
LEMMA InitSafe == ASSUME totalSize >= 2, Init PROVE SafeInv
<1>1. FileLen \in Nat /\ FileLen >= 2 /\ totalSize = FileLen
  BY SizeAssumption DEF Init
<1>2. \A c \in live : Sound(c) BY <1>1, InitRanges DEF Sound
<1>3. /\ \A w \in Worker : Tracks(w)
      /\ orch.pend \subseteq live /\ orch.retr \subseteq live
  BY DEF Init, Tracks, Idle, OrchIdle
<1>4. status # "Finished" BY DEF Init
<1> QED BY <1>2, <1>3, <1>4 DEF SafeInv

-----------------------------------------------------------------------------
(***************************************************************************)
(* The two cases together.                                                 *)
(***************************************************************************)

\* What is assumed of the server: it honours ranges, if any file has a known size of
\* two bytes or more.  One that answers a range with 200 may leave a hole: a chunk
\* other than the first is then marked finished with nothing written.
RangesHonoured == (\E n \in ProbedSizes : n >= 2) => RangeSupport = "honoured"

\* The inductive invariant of either case; the size does not change.
DataInv == IF totalSize < 2 THEN WholeInv ELSE SafeInv

\* The inductive invariant holds.
LEMMA DataInvCorrect == ASSUME RangesHonoured PROVE Spec => []DataInv
<1>1. Init => DataInv
  <2> SUFFICES ASSUME Init PROVE DataInv OBVIOUS
  <2>1. totalSize \in Int BY SizeAssumption DEF Init
  <2> QED BY <2>1, InitWhole, InitSafe DEF DataInv
<1>2. TypeInv /\ TypeInv' /\ TileInv /\ Settled /\ DataInv /\ [Next]_vars => DataInv'
  <2> SUFFICES ASSUME TypeInv, TypeInv', TileInv, Settled, DataInv, [Next]_vars PROVE DataInv'
    OBVIOUS
  <2>1. totalSize' = totalSize
    BY DEF Next, WorkerStep, Begin, Reply206, Reply200Other, Reply200First, ReplyBusy,
       ReplyDenied, Abandon, Stream, Read, WriteError, Eof, Drop, Exit, Orchestrator, Scan,
       SplitLock, SplitStep, SplitUnlock, Spawn, SpawnEnd, Finalize, User,
       UpdateThreadCount, UserSplit, vars
  <2>2. totalSize \in Int /\ totalSize \in ProbedSizes
    BY SizeAssumption DEF TypeInv, OtherInv
  <2>3. CASE totalSize < 2
    <3>1. WholeInv BY <2>3 DEF DataInv
    <3>2. ASSUME Next PROVE WholeInv'
      BY <2>3, <3>1, <3>2, WorkerStepWhole, OrchestratorWhole, UserWhole DEF Next
    <3>3. ASSUME UNCHANGED vars PROVE WholeInv'
      BY <3>1, <3>3 DEF vars, WholeInv, WholeChunk, OneStream, AllWritten
    <3>4. WholeInv' BY <3>2, <3>3
    <3> QED BY <2>1, <2>3, <3>4 DEF DataInv
  <2>4. CASE totalSize >= 2
    <3>0. RangeSupport = "honoured" BY <2>2, <2>4 DEF RangesHonoured
    <3>1. SafeInv BY <2>2, <2>4 DEF DataInv
    <3>2. ASSUME Next PROVE SafeInv'
      BY <2>4, <3>0, <3>1, <3>2, WorkerStepSafe, OrchestratorSafe, UserSafe DEF Next
    <3>3. ASSUME UNCHANGED vars PROVE SafeInv'
      BY <3>1, <3>3 DEF vars, SafeInv, Sound, Tracks
    <3>4. SafeInv' BY <3>2, <3>3
    <3> QED BY <2>1, <2>2, <2>4, <3>4 DEF DataInv
  <2> QED BY <2>2, <2>3, <2>4
<1> QED BY <1>1, <1>2, TypeInvCorrect, SettledCorrect, TileInvCorrect, PTL DEF Spec

\* A file that finalizeDownload reports finished has no hole, for every size, thread
\* count, split, retry and interleaving, from a server that honours ranges, and from
\* any server when the size is not known.
THEOREM NoHole == ASSUME RangesHonoured PROVE Spec => []FinishedHasNoHole
<1>1. DataInv => FinishedHasNoHole
  BY DEF DataInv, WholeInv, SafeInv, AllWritten, FinishedHasNoHole
<1> QED BY <1>1, DataInvCorrect, PTL

\* What a chunk counts as downloaded is on disk, from the same servers.
THEOREM Counted == ASSUME RangesHonoured PROVE Spec => []CountedIsWritten
<1>1. DataInv => CountedIsWritten
  BY DEF DataInv, WholeInv, WholeChunk, SafeInv, Sound, CountedIsWritten
<1> QED BY <1>1, DataInvCorrect, PTL

\* The transfer implements FileDownload, the promise of a download task.
THEOREM Implements == ASSUME RangesHonoured PROVE Spec => KeepsPromise
<1>1. Init => Promise!FDInit BY DEF Init, Promise!FDInit
<1>2. ASSUME TypeInv, TypeInv', Settled, FinishedHasNoHole, FinishedHasNoHole', [Next]_vars
      PROVE  [Promise!FDNext]_(Promise!fdVars)
  <2> USE DEF Promise!fdVars, Promise!FDNext, Promise!Store, Promise!Complete,
              Promise!Fail, Promise!Offsets
  <2>1. written' \subseteq 0 .. FileLen - 1 /\ written \subseteq 0 .. FileLen - 1
    BY <1>2 DEF TypeInv, OtherInv
  <2>2. status \in {"Downloading", "Finished", "Error"} BY <1>2 DEF TypeInv, OtherInv
  <2>3. CASE status' = status /\ written \subseteq written'
    <3>1. status = "Finished" => written' = written
      BY <1>2, <2>1, <2>3 DEF FinishedHasNoHole
    <3> QED BY <2>1, <2>2, <2>3, <3>1
  <2>4. CASE status = "Downloading" /\ status' = "Error" /\ written' = written
    BY <2>4
  <2>5. CASE status = "Downloading" /\ status' = "Finished" /\ written' = written
    <3>1. written = 0 .. FileLen - 1 BY <1>2, <2>5 DEF FinishedHasNoHole
    <3> QED BY <2>5, <3>1
  <2>6. CASE \E w \in Worker : WorkerStep(w)
    BY <2>3, <2>6 DEF WorkerStep, Begin, Reply206, Reply200Other, Reply200First, ReplyBusy,
       ReplyDenied, Abandon, Stream, Read, WriteError, Eof, Drop, Exit
  <2>7. CASE Orchestrator
    <3>1. CASE Scan BY <1>2, <2>3, <2>4, <3>1 DEF Scan, Settled
    <3>2. CASE Finalize BY <1>2, <2>4, <2>5, <3>2 DEF Finalize, Settled
    <3>3. CASE SplitLock \/ SplitStep \/ SplitUnlock \/ (\E w \in Worker : Spawn(w)) \/ SpawnEnd
      BY <2>3, <3>3 DEF SplitLock, SplitStep, SplitUnlock, Spawn, SpawnEnd
    <3> QED BY <2>7, <3>1, <3>2, <3>3 DEF Orchestrator
  <2>8. CASE User BY <2>3, <2>8 DEF User, UpdateThreadCount, UserSplit
  <2>9. CASE UNCHANGED vars BY <2>3, <2>9 DEF vars
  <2> QED BY <1>2, <2>6, <2>7, <2>8, <2>9 DEF Next
<1> QED
  BY <1>1, <1>2, TypeInvCorrect, SettledCorrect, NoHole, PTL
  DEF Spec, KeepsPromise, Promise!FDSpec
=============================================================================
