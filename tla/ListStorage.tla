------------------------------ MODULE ListStorage ------------------------------
(***************************************************************************)
(* What keeps the list of downloads over a restart: the main window's list *)
(* (frontend/src/context/download/storageSync.ts and the handlers that     *)
(* change it), the delayed saves of utils/thunderDB.ts, the table          *)
(* downloads of the database, and the confirmation window, which reads and *)
(* writes that table by itself.                                            *)
(*                                                                         *)
(* A save sends a whole list, and the database keeps no other row.  Calls  *)
(* to the engine run in goroutines of their own: those under way are done  *)
(* in any order.  Of an item only its status is kept.                      *)
(***************************************************************************)
EXTENDS Naturals, FiniteSets

CONSTANTS
  Old, New,        \* ids in the database at first; ids still to be given
  EarlyEvents,     \* may an event announce a download while the list is being loaded?
  MaxChanges,      \* bound: changes of the list by the user and the engine
  MaxCrashes       \* bound: the program ends, whichever way

Item == Old \cup New

ASSUME StorageAssumption ==
  /\ IsFiniteSet(Item) /\ Item # {} /\ Old \cap New = {}
  /\ EarlyEvents \in BOOLEAN
  /\ MaxChanges \in Nat /\ MaxCrashes \in Nat

\* Missing is Finished with fileMissing set.
Status == {"Queued", "Downloading", "Paused", "Finished", "Missing"}
Over == {"Finished", "Missing"}
List == [Item -> Status \cup {"none"}]
Empty == [i \in Item |-> "none"]
NoList == [i \in {} |-> "none"]

VARIABLES
  db,           \* the table downloads
  list,         \* downloadsRef.current of the main window
  stage,        \* of the window: down, reading, read, listed (list shown), up (isLoaded)
  answer,       \* what the database answered to the load
  pending,      \* thunderDB's delayed save, of 150 ms
  saves,        \* saves on their way to the database
  confirm,      \* what the confirmation window is doing
  registering,  \* register-download-item events on their way
  deleting,     \* deletingIdsRef
  deleted,      \* every item the user deleted
  disk,         \* the items whose file is in its folder
  tracking,     \* the setting trackDeletedFiles
  check,        \* the answer checkDiskFiles waits for
  changes, crashes

files == <<disk, tracking, check>>
vars == <<db, list, stage, answer, pending, saves, confirm, registering, deleting,
          deleted, files, changes, crashes>>

Ids(l) == {i \in Item : l[i] # "none"}
Idle == [pc |-> "idle", id |-> CHOOSE i \in Item : TRUE, base |-> Empty, status |-> "none"]

\* Ids no one has used: a new id is the time in milliseconds.
Fresh == {i \in New : /\ i \notin Ids(list) \cup Ids(db) \cup deleted
                      /\ i # confirm.id \/ confirm.pc = "idle"
                      /\ \A r \in registering : r.id # i
                      /\ \A s \in saves \cup {pending} : s = NoList \/ i \notin Ids(s)}

NoCheck == [items |-> {}, found |-> {}]

Init ==
  /\ db \in {l \in [Item -> {"none", "Queued", "Paused", "Finished"}] : Ids(l) = Old}
  /\ disk = {i \in Item : db[i] = "Finished"}
  /\ tracking \in BOOLEAN /\ check = NoCheck
  /\ list = Empty /\ stage = "down" /\ answer = Empty
  /\ pending = NoList /\ saves = {} /\ confirm = Idle /\ registering = {}
  /\ deleting = {} /\ deleted = {} /\ changes = 0 /\ crashes = 0

Change == changes < MaxChanges /\ changes' = changes + 1 /\ UNCHANGED crashes
Bounds == <<changes, crashes>>
-----------------------------------------------------------------------------
(***************************************************************************)
(* Saves.                                                                  *)
(***************************************************************************)

\* saveToThunderDB: only the last of the lists saved within 150 ms is sent ...
SaveSoon(l) == pending' = l /\ UNCHANGED saves

\* ... or at once, which forgets the one that waits.
SaveNow(l) == pending' = NoList /\ saves' = saves \cup {l}

DelayOver ==
  /\ pending # NoList
  /\ saves' = saves \cup {pending}
  /\ pending' = NoList
  /\ UNCHANGED <<db, list, stage, answer, confirm, registering, deleting, deleted, files, Bounds>>

\* SaveDownloads, in one transaction: rows of other ids go.
SaveDownloads(l) ==
  /\ l \in saves
  /\ saves' = saves \ {l}
  /\ db' = l
  /\ UNCHANGED <<list, stage, answer, pending, confirm, registering, deleting, deleted,
                 files, Bounds>>

\* A mutant: the flush is over when the window is up.
PeriodicFlushLoading ==
  /\ stage = "listed" /\ list # Empty
  /\ SaveSoon(list)
  /\ UNCHANGED <<db, list, stage, answer, confirm, registering, deleting, deleted, files, Bounds>>

\* The timer of 2 seconds.
PeriodicFlush ==
  /\ stage = "up" /\ list # Empty
  /\ SaveSoon(list)
  /\ UNCHANGED <<db, list, stage, answer, confirm, registering, deleting, deleted, files, Bounds>>
-----------------------------------------------------------------------------
(***************************************************************************)
(* The window is mounted: loadStorageData.                                 *)
(***************************************************************************)

Mount ==
  /\ stage = "down"
  /\ stage' = "reading"
  /\ UNCHANGED <<db, list, answer, pending, saves, confirm, registering, deleting,
                 deleted, files, Bounds>>

Read ==
  /\ stage = "reading"
  /\ stage' = "read"
  /\ answer' = db
  /\ UNCHANGED <<db, list, pending, saves, confirm, registering, deleting, deleted, files, Bounds>>

\* sanitizeDownloadItem: nothing runs after a start.
Sanitized(l) == [i \in Item |-> IF l[i] = "Downloading" THEN "Paused" ELSE l[i]]

Loaded ==
  /\ stage = "read"
  /\ stage' = "listed"
  /\ list' = IF answer = Empty THEN list ELSE Sanitized(answer)
  /\ UNCHANGED <<db, answer, pending, saves, confirm, registering, deleting, deleted, files, Bounds>>

\* The effect on trackDeletedFiles, when the setting is off.
Cleared(l) == [i \in Item |-> IF l[i] = "Missing" THEN "Finished" ELSE l[i]]

\* Once the queues and the settings are read too, the timer may save; until then files
\* are tracked.
IsLoaded ==
  /\ stage = "listed"
  /\ stage' = "up"
  /\ list' = IF tracking THEN list ELSE Cleared(list)
  /\ UNCHANGED <<db, answer, pending, saves, confirm, registering, deleting,
                 deleted, files, Bounds>>
-----------------------------------------------------------------------------
(***************************************************************************)
(* Changes of the list.                                                    *)
(***************************************************************************)

Listed == stage \in {"listed", "up"}
With(l, i, st) == [l EXCEPT ![i] = st]

\* addDownload saves soon, addBatchDownloads at once.
AddDownload(i) ==
  /\ Change
  /\ Listed /\ i \in Fresh
  /\ \E st \in {"Downloading", "Queued"} :
       /\ list' = With(list, i, st)
       /\ SaveSoon(list') \/ SaveNow(list')
  /\ UNCHANGED <<db, stage, answer, confirm, registering, deleting, deleted, files>>

\* download-added, for a download the engine was given by the browser.
OnAdded(i) ==
  /\ Change
  /\ Listed \/ (EarlyEvents /\ stage # "down")
  /\ i \in Fresh \ deleting
  /\ list' = With(list, i, "Downloading")
  /\ SaveSoon(list')
  /\ UNCHANGED <<db, stage, answer, confirm, registering, deleting, deleted, files>>

\* Commands and events that change a status; flushProgressBatch saves only when an
\* item ends.
StatusChanges(i) ==
  /\ Change
  /\ Listed /\ i \in Ids(list) \ deleting
  /\ \/ list[i] \in {"Paused", "Queued"} /\ list' = With(list, i, "Downloading")
     \/ \E st \in {"Paused", "Finished"} :
          list[i] = "Downloading" /\ list' = With(list, i, st)
  /\ SaveSoon(list')
  /\ disk' = IF list'[i] = "Finished" THEN disk \cup {i} ELSE disk
  /\ UNCHANGED <<db, stage, answer, confirm, registering, deleting, deleted, tracking, check>>

DeleteDownloads(S) ==
  /\ Change
  /\ Listed /\ S # {} /\ S \subseteq Ids(list)
  /\ list' = [i \in Item |-> IF i \in S THEN "none" ELSE list[i]]
  /\ SaveSoon(list')
  /\ deleting' = deleting \cup S /\ deleted' = deleted \cup S
  /\ UNCHANGED <<db, stage, answer, confirm, registering, files>>

DeletionOver ==
  /\ deleting # {}
  /\ deleting' = {}
  /\ UNCHANGED <<db, list, stage, answer, pending, saves, confirm, registering, deleted,
                 files, Bounds>>

\* register-download-item: the item is sanitized, and looked up in no deletion.
OnRegister(r) ==
  /\ r \in registering /\ stage # "down"
  /\ Listed \/ EarlyEvents
  /\ registering' = registering \ {r}
  /\ list' = With(list, r.id, IF r.status = "Downloading" THEN "Paused" ELSE r.status)
  /\ SaveSoon(list')
  /\ UNCHANGED <<db, stage, answer, confirm, deleting, deleted, files, Bounds>>
-----------------------------------------------------------------------------
(***************************************************************************)
(* The files of the downloads: the user moves them, and the window looks   *)
(* for them every two seconds and when it gets the focus.  Bound: one      *)
(* answer is awaited at a time.                                            *)
(***************************************************************************)

FileMoves(i) ==
  /\ Change
  /\ list[i] \in Over
  /\ disk' = IF i \in disk THEN disk \ {i} ELSE disk \cup {i}
  /\ UNCHANGED <<db, list, stage, answer, pending, saves, confirm, registering, deleting,
                 deleted, tracking, check>>

SetTracking ==
  /\ Change
  /\ stage = "up"
  /\ tracking' = ~tracking
  /\ list' = IF tracking' THEN list ELSE Cleared(list)
  /\ UNCHANGED <<db, stage, answer, pending, saves, confirm, registering, deleting,
                 deleted, disk, check>>

Tracked == stage \in {"listed", "up"} /\ (stage = "up" => tracking)

\* The candidate paths of each item that is not being deleted: the file is found if it
\* is in one of them.
Candidates == Ids(list) \ deleting
Found == Candidates \cap disk

\* checkDiskFiles asks which of the files exist,
CheckDiskFiles ==
  /\ Tracked
  /\ check = NoCheck /\ Candidates # {}
  /\ check' = [items |-> Candidates, found |-> Found]
  /\ UNCHANGED <<db, list, stage, answer, pending, saves, confirm, registering, deleting,
                 deleted, disk, tracking, Bounds>>

\* and sets the flags of those that are over by then; an item the answer does not know,
\* or that is being deleted, stays as it is.
Flagged(l) ==
  [i \in Item |-> IF i \notin check.items \ deleting \/ l[i] \notin Over THEN l[i]
                  ELSE IF i \in check.found THEN "Finished" ELSE "Missing"]

\* A file found in another folder is saved with it.
DiskChecked ==
  /\ check # NoCheck
  /\ check' = NoCheck
  /\ list' = Flagged(list)
  /\ \/ UNCHANGED <<pending, saves>>
     \/ check.found # {} /\ SaveSoon(list')
  /\ UNCHANGED <<db, stage, answer, confirm, registering, deleting, deleted, disk,
                 tracking, Bounds>>
-----------------------------------------------------------------------------
(***************************************************************************)
(* The confirmation window.                                                *)
(***************************************************************************)

\* Does a new item wait?  In a queue that does not run it does; in one that runs, when as
\* many of the rows just read are active in it as it may have, at least one; of an item
\* without a queue the engine decides.
EvaluateQueueShouldWait(queue, base) ==
  IF queue = "stopped" THEN {TRUE}
  ELSE IF queue = "running" /\ \A i \in Item : base[i] # "Downloading" THEN {FALSE}
  ELSE BOOLEAN

\* A mutant: the item is saved on top of the list the window knows, which has none.
DownloadNowUnread(i) ==
  /\ Change
  /\ confirm.pc = "idle" /\ stage # "down" /\ i \in Fresh
  /\ confirm' = [pc |-> "read", id |-> i, base |-> Empty, status |-> "Queued"]
  /\ UNCHANGED <<db, list, stage, answer, pending, saves, registering, deleting, deleted, files>>

\* executeDownloadNowTask reads the table before it announces the item,
DownloadNow(i) ==
  /\ Change
  /\ confirm.pc = "idle" /\ stage # "down" /\ i \in Fresh
  /\ \E queue \in {"", "running", "stopped"} : \E wait \in EvaluateQueueShouldWait(queue, db) :
       confirm' = [pc |-> "read", id |-> i, base |-> db,
                   status |-> IF wait THEN "Queued" ELSE "Downloading"]
  /\ UNCHANGED <<db, list, stage, answer, pending, saves, registering, deleting, deleted, files>>

\* executeAddOnlyTask after it has.
AddOnly(i) ==
  /\ Change
  /\ confirm.pc = "idle" /\ stage # "down" /\ i \in Fresh
  /\ \E st \in {"Paused", "Queued"} :
       /\ confirm' = [pc |-> "announced", id |-> i, base |-> Empty, status |-> st]
       /\ registering' = registering \cup {[id |-> i, status |-> st]}
  /\ UNCHANGED <<db, list, stage, answer, pending, saves, deleting, deleted, files>>

AddOnlyRead ==
  /\ confirm.pc = "announced"
  /\ confirm' = [confirm EXCEPT !.pc = "readAgain", !.base = db]
  /\ UNCHANGED <<db, list, stage, answer, pending, saves, registering, deleting, deleted,
                 files, Bounds>>

\* Its own save of the whole table, at once: it waits for no save of the main window.
ConfirmSave ==
  /\ confirm.pc \in {"read", "readAgain"}
  /\ saves' = saves \cup {With(confirm.base, confirm.id, confirm.status)}
  /\ registering' = IF confirm.pc = "readAgain" THEN registering
                    ELSE registering \cup {[id |-> confirm.id, status |-> confirm.status]}
  /\ confirm' = Idle
  /\ UNCHANGED <<db, list, stage, answer, pending, deleting, deleted, files, Bounds>>
-----------------------------------------------------------------------------
\* The program ends.  Saves on their way are lost, and what waits too: the list that
\* beforeunload saves waits 150 ms, which the page has not.
Exit ==
  /\ crashes < MaxCrashes /\ stage # "down"
  /\ crashes' = crashes + 1
  /\ stage' = "down" /\ list' = Empty /\ answer' = Empty
  /\ pending' = NoList /\ saves' = {} /\ confirm' = Idle /\ registering' = {}
  /\ deleting' = {} /\ check' = NoCheck
  /\ UNCHANGED <<db, deleted, disk, tracking, changes>>

Next ==
  \/ Mount \/ Read \/ Loaded \/ IsLoaded \/ DelayOver \/ PeriodicFlush
  \/ \E l \in saves : SaveDownloads(l)
  \/ \E i \in Item : AddDownload(i) \/ OnAdded(i) \/ StatusChanges(i)
                       \/ DownloadNow(i) \/ AddOnly(i) \/ FileMoves(i)
  \/ \E S \in SUBSET Item : DeleteDownloads(S)
  \/ \E r \in registering : OnRegister(r)
  \/ SetTracking \/ CheckDiskFiles \/ DiskChecked
  \/ DeletionOver \/ AddOnlyRead \/ ConfirmSave \/ Exit

\* Timers fire, calls return and events arrive, unless the program ends.
Fairness ==
  /\ WF_vars(Mount) /\ WF_vars(Read) /\ WF_vars(Loaded) /\ WF_vars(IsLoaded)
  /\ WF_vars(DelayOver) /\ WF_vars(PeriodicFlush)
  /\ WF_vars(\E l \in saves : SaveDownloads(l))
  /\ WF_vars(\E r \in registering : OnRegister(r))
  /\ WF_vars(AddOnlyRead) /\ WF_vars(ConfirmSave)
  /\ WF_vars(CheckDiskFiles) /\ WF_vars(DiskChecked) /\ WF_vars(DeletionOver)

Spec == Init /\ [][Next]_vars /\ Fairness
-----------------------------------------------------------------------------
\* Types.  What is being deleted was deleted by the user.
TypeOK ==
  /\ db \in List /\ list \in List /\ answer \in List
  /\ stage \in {"down", "reading", "read", "listed", "up"}
  /\ pending \in List \cup {NoList} /\ saves \subseteq List
  /\ confirm \in [pc : {"idle", "announced", "read", "readAgain"}, id : Item, base : List,
                  status : Status \cup {"none"}]
  /\ confirm.pc # "idle" => confirm.status # "none"
  /\ registering \subseteq [id : Item, status : Status]
  /\ deleting \subseteq deleted /\ deleted \subseteq Item
  /\ disk \subseteq Item /\ tracking \in BOOLEAN
  /\ check \in [items : SUBSET Item, found : SUBSET Item]
  /\ changes \in Nat /\ crashes \in Nat

\* An item the database had at first is in no moment without a row, and is in the list
\* whenever there is one, until the user deletes it: no save of a window that had not
\* read the table yet, or of one that read it long ago, drops it, whatever order the
\* saves arrive in and wherever the program ends.
HistoryKept == \A i \in Old \ deleted :
  /\ i \in Ids(db)
  /\ Listed => i \in Ids(list)

\* What the window says of a file is true: it crosses an item out when it is over and its
\* file is gone, and no other.
FlagsTrue == \A i \in Ids(list) : list[i] \in Over => (list[i] = "Missing" <=> i \notin disk)

\* Again and again the table holds what the list shows, and the list shows what is on the
\* disk: what another window's save has dropped from the table, or brought back, is put
\* right while the program runs, and so is a flag set by an answer that was out of date.
Saved == []<>(stage = "up" /\ list # Empty => db = list /\ (tracking => FlagsTrue))
=============================================================================
