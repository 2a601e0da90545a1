----------------------------- MODULE QueueManager -----------------------------
(***************************************************************************)
(* Queues: their schedule and dispatch in the main window                  *)
(* (frontend/src/context/download/useQueueScheduler.ts), and the dialog    *)
(* that edits a copy of them (components/modals/QueueManagerModal.tsx).    *)
(*                                                                         *)
(* An item names its queue, the schedule and the menus use its id; names   *)
(* need not be unique.  One day of a few minutes is modelled.  The general *)
(* limit is off, each queue runs one item at a time, and what becomes of a *)
(* started item is module DownloadList's business.                         *)
(***************************************************************************)
EXTENDS Naturals, Sequences, FiniteSets, SequencesExt

CONSTANTS
  Id, Main,            \* ids of queues; the queue that cannot be deleted
  Name, MainName,      \* names of queues, letter case aside
  NoName,              \* the queue of an item that has none
  Item,
  LastMinute,          \* bound: the day's minutes are 0..LastMinute
  MaxTriggers,         \* size at which the remembered triggers are dropped (200)
  MaxCommands          \* bound: commands of the user

ASSUME QueueAssumption ==
  /\ Main \in Id /\ MainName \in Name /\ NoName \notin Name
  /\ IsFiniteSet(Id) /\ IsFiniteSet(Item)
  /\ LastMinute \in Nat /\ MaxTriggers \in Nat /\ MaxCommands \in Nat

Minute == 0..LastMinute
Never == LastMinute + 1          \* a time that is not enabled

QueueConfig == [id : Id, name : Name, isRunning : BOOLEAN, start : Minute \cup {Never},
                stop : Minute \cup {Never}, today : BOOLEAN]
Closed == <<>>                   \* a list of queues has Main at least

VARIABLES
  queues,     \* queuesRef
  order,      \* downloadsRef: the items in the order of the list,
  status,     \* their status
  queueOf,    \* and the names of their queues
  minute,     \* the clock
  triggered,  \* lastSchedulerTriggerRef
  modal,      \* localQueues of the dialog
  commands

list == <<order, status, queueOf>>
vars == <<queues, list, minute, triggered, modal, commands>>

NewQueue(id, name) == [id |-> id, name |-> name, isRunning |-> FALSE, start |-> Never,
                       stop |-> Never, today |-> TRUE]

\* The queues as the database has them, none running: Main, and perhaps others.
Init ==
  /\ \E n \in 1..Cardinality(Id) : queues \in [1..n -> QueueConfig]
  /\ queues[1].id = Main /\ queues[1].name = MainName
  /\ \A k, l \in DOMAIN queues : ~queues[k].isRunning /\ (queues[k].id = queues[l].id => k = l)
  /\ order \in SetToSeqs(Item)
  /\ status \in [Item -> {"Queued", "Paused"}]
  /\ queueOf \in [Item -> {MainName, NoName}]
  /\ minute = 0 /\ triggered = {} /\ modal = Closed /\ commands = 0

Ids(qs) == {qs[k].id : k \in DOMAIN qs}
InQueue(i, q) == queueOf[i] = q.name

\* The elements of s that are in T, in their order (Array.filter).
Filtered(s, T) ==
  LET kept[k \in 0..Len(s)] ==
        IF k = 0 THEN <<>>
        ELSE IF s[k] \in T THEN Append(kept[k - 1], s[k]) ELSE kept[k - 1] IN
  kept[Len(s)]
-----------------------------------------------------------------------------
(***************************************************************************)
(* What one call does to the queues and the statuses: w is a record of     *)
(* both, taken from queuesRef and downloadsRef and put back at its end.    *)
(***************************************************************************)

Window == [queues |-> queues, status |-> status]
Becomes(w) == queues' = w.queues /\ status' = w.status

\* A queue of the same name is started and stopped along with q.
SetRunning(w, q, running) ==
  [w EXCEPT !.queues = [k \in DOMAIN @ |->
     IF @[k].id = q.id \/ @[k].name = q.name THEN [@[k] EXCEPT !.isRunning = running]
                                             ELSE @[k]]]
SetItems(w, q, from, to) ==
  [w EXCEPT !.status = [i \in Item |-> IF InQueue(i, q) /\ @[i] = from THEN to ELSE @[i]]]

StartQueue(w, q) ==
  SetRunning(IF q.isRunning THEN w ELSE SetItems(w, q, "Paused", "Queued"), q, TRUE)

\* What is Queued stays Queued.
StopQueue(w, q) == SetItems(SetRunning(w, q, FALSE), q, "Downloading", "Paused")

\* What waits in a queue, as positions in the list, and the first of it.
Waiting(st, q) == {k \in DOMAIN order : InQueue(order[k], q) /\ st[order[k]] = "Queued"}
First(positions) == {order[k] : k \in {l \in positions : \A m \in positions : l <= m}}

\* A mutant: what waits takes a slot, too.
WaitingTakesSlot(st, q) ==
  {i \in First(Waiting(st, q)) :
     \A j \in Item \ {i} : InQueue(j, q) => st[j] = "Finished"}

\* A mutant: what runs takes none.
NextUncounted(st, q) == First(Waiting(st, q))

\* The first that waits in a queue, if nothing of the queue runs.
Next1(st, q) ==
  {i \in First(Waiting(st, q)) :
     \A j \in Item : InQueue(j, q) => st[j] # "Downloading"}

\* dispatchQueueWorkers: the queues that run, one after the other, each of which stops
\* once all its items are done; then the items of no queue.
DispatchQueue(w, q) ==
  IF ~q.isRunning THEN w
  ELSE LET items == {i \in Item : InQueue(i, q)}
           done == items # {} /\ \A i \in items : w.status[i] = "Finished" IN
       [queues |-> [k \in DOMAIN w.queues |->
          [w.queues[k] EXCEPT !.isRunning = @ /\ ~(done /\ w.queues[k].id = q.id)]],
        status |-> [i \in Item |-> IF i \in Next1(w.status, q) THEN "Downloading"
                                                               ELSE w.status[i]]]

DispatchGeneral(w) ==
  [w EXCEPT !.status = [i \in Item |->
     IF queueOf[i] = NoName /\ @[i] = "Queued" THEN "Downloading" ELSE @[i]]]

DispatchQueueWorkers(w) ==
  LET after[k \in 0..Len(w.queues)] ==
        IF k = 0 THEN w ELSE DispatchQueue(after[k - 1], w.queues[k]) IN
  DispatchGeneral(after[Len(w.queues)])

HasWork(qs, st) == \/ \E k \in DOMAIN qs : qs[k].isRunning
                   \/ \E i \in Item : st[i] = "Queued"
-----------------------------------------------------------------------------
(***************************************************************************)
(* The schedule.                                                           *)
(***************************************************************************)

\* A mutant: every tick of the minute triggers.
StartsEachTick(q) == q.start = minute /\ q.today

Starts(q) == q.start = minute /\ q.today /\ <<q.id, "start", minute>> \notin triggered

\* The days restrict the starts only.
Stops(q) == q.stop = minute /\ <<q.id, "stop", minute>> \notin triggered

Trigger(w, q) ==
  LET s == IF Starts(q) /\ ~q.isRunning THEN StartQueue(w, q) ELSE w IN
  IF Stops(q) THEN StopQueue(s, q) ELSE s

Triggers ==
  LET after[k \in 0..Len(queues)] ==
        IF k = 0 THEN Window ELSE Trigger(after[k - 1], queues[k]) IN
  after[Len(queues)]

Remembered ==
  triggered
    \cup {<<q.id, "start", minute>> : q \in {r \in ToSet(queues) : Starts(r)}}
    \cup {<<q.id, "stop", minute>> : q \in {r \in ToSet(queues) : Stops(r)}}

\* checkScheduler, every second: it looks at the queues as they were at first.
CheckScheduler ==
  LET w == Triggers IN
  /\ Becomes(IF HasWork(queues, w.status) THEN DispatchQueueWorkers(w) ELSE w)
  /\ triggered' = IF Cardinality(Remembered) > MaxTriggers THEN {} ELSE Remembered
  /\ UNCHANGED <<order, queueOf, minute, modal, commands>>

\* The 50 ms timer after a start, and the effect on the queues and the list.
Dispatch ==
  /\ HasWork(queues, status)
  /\ Becomes(DispatchQueueWorkers(Window))
  /\ UNCHANGED <<order, queueOf, minute, triggered, modal, commands>>

\* The clock does not wait for the timer: a minute may pass without a tick.
MinutePasses ==
  /\ minute < LastMinute
  /\ minute' = minute + 1
  /\ UNCHANGED <<queues, list, triggered, modal, commands>>

ItemFinishes(i) ==
  /\ status[i] = "Downloading"
  /\ status' = [status EXCEPT ![i] = "Finished"]
  /\ UNCHANGED <<queues, order, queueOf, minute, triggered, modal, commands>>
-----------------------------------------------------------------------------
(***************************************************************************)
(* The user: the menus, which the dialog covers ...                        *)
(***************************************************************************)

Command == commands < MaxCommands /\ commands' = commands + 1

MenuStart(k) ==
  /\ Command /\ modal = Closed
  /\ Becomes(StartQueue(Window, queues[k]))
  /\ UNCHANGED <<order, queueOf, minute, triggered, modal>>

MenuStop(k) ==
  /\ Command /\ modal = Closed
  /\ Becomes(StopQueue(Window, queues[k]))
  /\ UNCHANGED <<order, queueOf, minute, triggered, modal>>

\* updateDownloadItem with a queue of the menu, or with none.
SetItemQueue(i, name) ==
  /\ Command /\ modal = Closed
  /\ queueOf[i] # name
  /\ queueOf' = [queueOf EXCEPT ![i] = name]
  /\ UNCHANGED <<queues, order, status, minute, triggered, modal>>

\* ... and the dialog, which works on the copy it took when it was opened.
OpenModal ==
  /\ modal = Closed
  /\ modal' = queues
  /\ UNCHANGED <<queues, list, minute, triggered, commands>>

CloseModal ==
  /\ modal # Closed
  /\ modal' = Closed
  /\ UNCHANGED <<queues, list, minute, triggered, commands>>

Edit(local) ==
  /\ Command
  /\ modal # Closed /\ modal' = local
  /\ UNCHANGED <<queues, list, minute, triggered>>

HandleCreateQueue(id, name) ==
  /\ id \notin Ids(queues) \cup Ids(modal)
  /\ Edit(Append(modal, NewQueue(id, name)))

\* A mutant: nothing protects the Main queue.
DeleteAnyQueue(k) == Edit(Filtered(modal, {q \in ToSet(modal) : q.id # modal[k].id}))

HandleDeleteSelectedQueue(k) ==
  /\ modal[k].id # Main /\ modal[k].name # MainName
  /\ Edit(Filtered(modal, {q \in ToSet(modal) : q.id # modal[k].id}))

\* The name of Main cannot be edited, nor that of another queue called like it.
HandleUpdate(k, q) ==
  /\ q.id = modal[k].id /\ q.isRunning = modal[k].isRunning /\ q # modal[k]
  /\ (modal[k].id = Main \/ modal[k].name = MainName) => q.name = modal[k].name
  /\ Edit([modal EXCEPT ![k] = q])

\* deleteQueue for each queue the copy lacks, which looks for items that have the queue's
\* id for a name and finds none; then saveQueues puts the copy in place, isRunning too.
SaveQueues(local) == queues' = local

HandleSave ==
  /\ Command
  /\ modal # Closed /\ modal' = Closed
  /\ SaveQueues(modal)
  /\ UNCHANGED <<list, minute, triggered>>

\* The items tab lists the items of the queue that is selected, by its name in the copy.
QueueDownloads(q) == Filtered(order, {i \in Item : InQueue(i, q)})

\* reorderQueueItems: the items of the queue go before all others.
ReorderQueueItems(q, from, to) ==
  LET others == Filtered(order, {i \in Item : ~InQueue(i, q)}) IN
  order' = InsertAt(RemoveAt(QueueDownloads(q), from), to, QueueDownloads(q)[from]) \o others

\* "Move Up" and "Move Down", the first of which the first item lacks, the other the last.
Movable(q, from, to) ==
  {from, to} \subseteq DOMAIN QueueDownloads(q) /\ (to = from - 1 \/ to = from + 1)

HandleMoveItem(q, from, to) ==
  /\ Command
  /\ modal # Closed
  /\ Movable(q, from, to)
  /\ ReorderQueueItems(q, from, to)
  /\ UNCHANGED <<queues, status, queueOf, minute, triggered, modal>>

\* "Remove from Queue" is at work at once, unlike what the dialog does to its copy.
RemoveItemFromQueue(i) == queueOf' = [queueOf EXCEPT ![i] = NoName]

HandleDeleteItem(q, i) ==
  /\ Command
  /\ modal # Closed
  /\ i \in ToSet(QueueDownloads(q))
  /\ RemoveItemFromQueue(i)
  /\ UNCHANGED <<queues, order, status, minute, triggered, modal>>

User ==
  \/ \E k \in DOMAIN queues : MenuStart(k) \/ MenuStop(k)
  \/ \E i \in Item : \E name \in {queues[k].name : k \in DOMAIN queues} \cup {NoName} :
       SetItemQueue(i, name)
  \/ OpenModal \/ CloseModal \/ HandleSave
  \/ \E id \in Id, name \in Name : HandleCreateQueue(id, name)
  \/ \E k \in DOMAIN modal :
       \/ HandleDeleteSelectedQueue(k)
       \/ \E q \in QueueConfig : HandleUpdate(k, q)
       \/ \E from, to \in DOMAIN order : HandleMoveItem(modal[k], from, to)
       \/ \E i \in Item : HandleDeleteItem(modal[k], i)

Next ==
  \/ CheckScheduler \/ Dispatch \/ MinutePasses
  \/ \E i \in Item : ItemFinishes(i)
  \/ User

\* The timer ticks, and downloads end.
Fairness == WF_vars(CheckScheduler) /\ \A i \in Item : WF_vars(ItemFinishes(i))

Spec == Init /\ [][Next]_vars /\ Fairness
-----------------------------------------------------------------------------
QueueList(qs) == /\ qs \in Seq(QueueConfig)
                 /\ Cardinality(Ids(qs)) = Len(qs)
                 /\ Main \in Ids(qs)

\* Types.  No two queues have one id, Main is among them and in the dialog's copy, and
\* each item is in the list once.
TypeOK ==
  /\ QueueList(queues)
  /\ modal = Closed \/ QueueList(modal)
  /\ order \in SetToSeqs(Item)
  /\ status \in [Item -> {"Queued", "Downloading", "Paused", "Finished"}]
  /\ queueOf \in [Item -> Name \cup {NoName}]
  /\ minute \in Minute
  /\ triggered \subseteq Id \X {"start", "stop"} \X Minute
  /\ commands \in 0..MaxCommands

Idle(q) == /\ \A k \in DOMAIN queues : queues[k].name = q.name => ~queues[k].isRunning
           /\ \A i \in Item : InQueue(i, q) => status[i] # "Downloading"
MayStart(q) == \E k \in DOMAIN queues :
  /\ queues[k].name = q.name /\ queues[k].start = minute
  /\ <<queues[k].id, "start", minute>> \notin triggered

\* A queue that was stopped, by the user or by the schedule, stays so with all its items
\* until the user does something or the start time of a queue of its name comes: no
\* tick, dispatch or trigger that has happened already in this minute starts any of it.
IdleStaysIdle == [][\A k \in DOMAIN queues :
  Idle(queues[k]) /\ ~MayStart(queues[k]) /\ commands' = commands => Idle(queues[k])']_vars

\* No step, of the pass over queues that may have one name or of any command, starts an item
\* while another of its queue runs, or two of one queue at once.
OneAtATime == [][\A i, j \in Item :
  /\ i # j /\ queueOf[i] = queueOf[j] /\ queueOf[i] # NoName
  /\ status'[i] = "Downloading" /\ status'[j] = "Downloading"
  => status[i] = "Downloading" /\ status[j] = "Downloading"]_vars

\* An item that waits does not wait for ever in a queue that runs, or in none.
ServedInTurn == \A i \in Item :
  []<>~(/\ status[i] = "Queued"
        /\ \/ queueOf[i] = NoName
           \/ \E k \in DOMAIN queues : queues[k].isRunning /\ InQueue(i, queues[k]))
=============================================================================
