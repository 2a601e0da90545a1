-------------------------- MODULE ListStorageProofs --------------------------
(***************************************************************************)
(* Theorems about ListStorage, for any items, any number of changes and    *)
(* any number of ends of the program.                                      *)
(***************************************************************************)
EXTENDS ListStorage, TLAPS

\* Every reachable state has its type: in particular a whole list is on its way in every
\* save, and only what the user deleted is being deleted.
THEOREM StorageTypeCorrect == Spec => []TypeOK
<1>1. Init => TypeOK
  <2> SUFFICES ASSUME Init PROVE TypeOK
    OBVIOUS
  <2>1. Idle \in [pc : {"idle"}, id : Item, base : List, status : {"none"}]
    BY StorageAssumption DEF Idle, Empty, List
  <2> QED
    BY <2>1, StorageAssumption DEF Init, TypeOK, List, Status, Empty, NoCheck, Ids
<1>2. TypeOK /\ [Next]_vars => TypeOK'
  <2> SUFFICES ASSUME TypeOK, [Next]_vars
               PROVE  TypeOK'
    OBVIOUS
  <2>0. Idle \in [pc : {"idle"}, id : Item, base : List, status : {"none"}]
    BY StorageAssumption DEF Idle, Empty, List
  <2> USE DEF TypeOK, Status, List, NoCheck, Bounds, files
  <2>1. CASE Mount
    BY <2>1 DEF Mount
  <2>2. CASE Read
    <3>1. answer' \in List
      BY <2>2 DEF Read
    <3> QED
      BY <2>2, <3>1 DEF Read
  <2>3. CASE Loaded
    <3>1. Sanitized(answer) \in List
      BY DEF Sanitized
    <3>2. list' \in List
      BY <2>3, <3>1 DEF Loaded
    <3> QED
      BY <2>3, <3>2 DEF Loaded
  <2>4. CASE IsLoaded
    BY <2>4 DEF IsLoaded, Cleared
  <2>5. CASE DelayOver
    BY <2>5 DEF DelayOver
  <2>6. CASE PeriodicFlush
    BY <2>6 DEF PeriodicFlush, SaveSoon, SaveNow
  <2>7. ASSUME NEW l \in saves, SaveDownloads(l) PROVE TypeOK'
    BY <2>7 DEF SaveDownloads
  <2>8. ASSUME NEW i \in Item, AddDownload(i) PROVE TypeOK'
    BY <2>8 DEF AddDownload, SaveSoon, SaveNow, Change, With, Listed, Fresh
  <2>9. ASSUME NEW i \in Item, OnAdded(i) PROVE TypeOK'
    BY <2>9 DEF OnAdded, SaveSoon, SaveNow, Change, With
  <2>10. ASSUME NEW i \in Item, StatusChanges(i) PROVE TypeOK'
    BY <2>10 DEF StatusChanges, SaveSoon, SaveNow, Change, With, Listed, Ids
  <2>11. ASSUME NEW i \in Item, DownloadNow(i) PROVE TypeOK'
    <3>1. PICK wait :
            confirm' = [pc |-> "read", id |-> i, base |-> db,
                        status |-> IF wait THEN "Queued" ELSE "Downloading"]
      BY <2>11 DEF DownloadNow
    <3>2. /\ confirm' \in [pc : {"idle", "announced", "read", "readAgain"}, id : Item,
                        base : List, status : Status \cup {"none"}]
          /\ confirm.status' # "none"
      BY <3>1
    <3>3. /\ UNCHANGED <<db, list, stage, answer, pending, saves, registering, deleting,
                        deleted, disk, tracking, check, crashes>>
          /\ changes' = changes + 1
      BY <2>11 DEF DownloadNow, Change
    <3> QED
      BY <3>2, <3>3
  <2>12. ASSUME NEW i \in Item, AddOnly(i) PROVE TypeOK'
    <3>1. PICK st \in {"Paused", "Queued"} :
            /\ confirm' = [pc |-> "announced", id |-> i, base |-> Empty, status |-> st]
            /\ registering' = registering \cup {[id |-> i, status |-> st]}
      BY <2>12 DEF AddOnly
    <3>2. /\ confirm' \in [pc : {"idle", "announced", "read", "readAgain"}, id : Item,
                        base : List, status : Status \cup {"none"}]
          /\ confirm.status' # "none"
      BY <3>1 DEF Empty
    <3>3. registering' \subseteq [id : Item, status : Status]
      BY <3>1
    <3> QED
      BY <2>12, <3>2, <3>3 DEF AddOnly, Change
  <2>13. ASSUME NEW i \in Item, FileMoves(i) PROVE TypeOK'
    BY <2>13 DEF FileMoves, Change
  <2>14. ASSUME NEW S \in SUBSET Item, DeleteDownloads(S) PROVE TypeOK'
    BY <2>14 DEF DeleteDownloads, SaveSoon, SaveNow, Change, Ids, Listed
  <2>15. ASSUME NEW r \in registering, OnRegister(r) PROVE TypeOK'
    BY <2>15 DEF OnRegister, SaveSoon, SaveNow, With
  <2>16. CASE SetTracking
    BY <2>16 DEF SetTracking, Change, Cleared
  <2>17. CASE CheckDiskFiles
    BY <2>17 DEF CheckDiskFiles, Candidates, Found, Ids
  <2>18. CASE DiskChecked
    BY <2>18 DEF DiskChecked, SaveSoon, SaveNow, Flagged
  <2>19. CASE DeletionOver
    BY <2>19 DEF DeletionOver
  <2>20. CASE AddOnlyRead
    BY <2>20 DEF AddOnlyRead
  <2>21. CASE ConfirmSave
    <3>1. /\ confirm.id \in Item /\ confirm.base \in List
          /\ confirm.status \in Status
      BY <2>21 DEF ConfirmSave
    <3>2. With(confirm.base, confirm.id, confirm.status) \in List
      BY <3>1 DEF With
    <3>3. registering' \subseteq [id : Item, status : Status]
      BY <2>21, <3>1 DEF ConfirmSave
    <3>4. /\ confirm' \in [pc : {"idle", "announced", "read", "readAgain"}, id : Item,
                        base : List, status : Status \cup {"none"}]
          /\ confirm.pc' = "idle"
      BY <2>21, <2>0 DEF ConfirmSave
    <3> QED
      BY <2>21, <3>2, <3>3, <3>4 DEF ConfirmSave
  <2>22. CASE Exit
    BY <2>22 DEF Exit, Idle, Empty, NoList
  <2>23. CASE UNCHANGED vars
    BY <2>23 DEF vars
  <2> QED
    BY <2>1, <2>2, <2>3, <2>4, <2>5, <2>6, <2>7, <2>8, <2>9, <2>10, <2>11, <2>12, <2>13,
       <2>14, <2>15, <2>16, <2>17, <2>18, <2>19, <2>20, <2>21, <2>22, <2>23 DEF Next
<1> QED
  BY <1>1, <1>2, PTL DEF Spec

\* HistoryKept is not inductive: a row is safe because every list that may still become
\* the table has it, the one that waits, those on their way, the one the confirmation
\* window has read and the one the main window is loading; and the answer about files is
\* only awaited while there is a list.
KeepingAll ==
  /\ \A i \in Old \ deleted :
       /\ db[i] # "none"
       /\ \A s \in saves : s[i] # "none"
       /\ pending # NoList => pending[i] # "none"
       /\ stage = "read" => answer[i] # "none"
       /\ stage \in {"listed", "up"} => list[i] # "none"
       /\ confirm.pc \in {"read", "readAgain"} => confirm.base[i] # "none"
  /\ check # NoCheck => stage \in {"listed", "up"}

\* KeepingAll is inductive.
LEMMA KeepingAllCorrect == ASSUME ~EarlyEvents PROVE Spec => []KeepingAll
<1>1. Init => KeepingAll
  BY DEF Init, KeepingAll, Idle, Ids, Item
<1>2. TypeOK /\ KeepingAll /\ [Next]_vars => KeepingAll'
  <2> SUFFICES ASSUME TypeOK, KeepingAll, [Next]_vars
               PROVE  KeepingAll'
    OBVIOUS
  <2> USE DEF TypeOK, KeepingAll, Bounds, files, Item, Listed, List, Status
  <2>1. CASE Mount
    BY <2>1 DEF Mount
  <2>2. CASE Read
    BY <2>2 DEF Read
  <2>3. CASE Loaded
    <3>1. \A i \in Old \ deleted : Sanitized(answer)[i] # "none" /\ answer # Empty
      BY <2>3 DEF Loaded, Sanitized, Empty
    <3> QED
      BY <2>3, <3>1 DEF Loaded
  <2>4. CASE IsLoaded
    BY <2>4 DEF IsLoaded, Cleared
  <2>5. CASE DelayOver
    BY <2>5 DEF DelayOver
  <2>6. CASE PeriodicFlush
    BY <2>6 DEF PeriodicFlush, SaveSoon, SaveNow
  <2>7. ASSUME NEW l \in saves, SaveDownloads(l) PROVE KeepingAll'
    BY <2>7 DEF SaveDownloads
  <2>8. ASSUME NEW i \in Item, AddDownload(i) PROVE KeepingAll'
    BY <2>8 DEF AddDownload, SaveSoon, SaveNow, Change, With
  <2>9. ASSUME NEW i \in Item, OnAdded(i) PROVE KeepingAll'
    BY <2>9 DEF OnAdded, SaveSoon, SaveNow, Change, With
  <2>10. ASSUME NEW i \in Item, StatusChanges(i) PROVE KeepingAll'
    BY <2>10 DEF StatusChanges, SaveSoon, SaveNow, Change, With
  <2>11. ASSUME NEW i \in Item, DownloadNow(i) PROVE KeepingAll'
    <3>1. PICK wait :
            confirm' = [pc |-> "read", id |-> i, base |-> db,
                        status |-> IF wait THEN "Queued" ELSE "Downloading"]
      BY <2>11 DEF DownloadNow
    <3>2. confirm.base' = db
      BY <3>1
    <3> QED
      BY <2>11, <3>2 DEF DownloadNow, Change
  <2>12. ASSUME NEW i \in Item, AddOnly(i) PROVE KeepingAll'
    BY <2>12 DEF AddOnly, Change
  <2>13. ASSUME NEW i \in Item, FileMoves(i) PROVE KeepingAll'
    BY <2>13 DEF FileMoves, Change
  <2>14. ASSUME NEW S \in SUBSET Item, DeleteDownloads(S) PROVE KeepingAll'
    BY <2>14 DEF DeleteDownloads, SaveSoon, SaveNow, Change
  <2>15. ASSUME NEW r \in registering, OnRegister(r) PROVE KeepingAll'
    BY <2>15 DEF OnRegister, SaveSoon, SaveNow, With
  <2>16. CASE SetTracking
    BY <2>16 DEF SetTracking, Change, Cleared
  <2>17. CASE CheckDiskFiles
    BY <2>17 DEF CheckDiskFiles, Tracked
  <2>18. CASE DiskChecked
    BY <2>18 DEF DiskChecked, SaveSoon, SaveNow, Flagged
  <2>19. CASE DeletionOver
    BY <2>19 DEF DeletionOver
  <2>20. CASE AddOnlyRead
    BY <2>20 DEF AddOnlyRead
  <2>21. CASE ConfirmSave
    BY <2>21 DEF ConfirmSave, With, Idle
  <2>22. CASE Exit
    BY <2>22 DEF Exit, Idle, NoCheck
  <2>23. CASE UNCHANGED vars
    BY <2>23 DEF vars
  <2> QED
    BY <2>1, <2>2, <2>3, <2>4, <2>5, <2>6, <2>7, <2>8, <2>9, <2>10, <2>11, <2>12, <2>13,
       <2>14, <2>15, <2>16, <2>17, <2>18, <2>19, <2>20, <2>21, <2>22, <2>23 DEF Next
<1> QED
  BY StorageTypeCorrect, <1>1, <1>2, PTL DEF Spec

\* An item the database had at first keeps its row, and its place in the list, until the
\* user deletes it, if no event announces a download while the list is being loaded.
THEOREM HistoryIsKept == ASSUME ~EarlyEvents PROVE Spec => []HistoryKept
<1>1. KeepingAll => HistoryKept
  BY DEF KeepingAll, HistoryKept, Ids, Listed, Item
<1> QED
  BY KeepingAllCorrect, <1>1, PTL
=============================================================================
