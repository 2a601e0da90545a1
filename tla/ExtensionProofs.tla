-------------------------- MODULE ExtensionProofs --------------------------
(***************************************************************************)
(* Theorems about Extension, for any browser downloads and addresses, any  *)
(* number of routes, transfers, late answers, stops of the worker and      *)
(* turns of the application; then about VideoBadge and ExtensionConfig,    *)
(* the extension's badges and its settings: what the worker learns, and    *)
(* that the user's choice is kept while the popup is open once.            *)
(***************************************************************************)
EXTENDS Extension, VideoBadge, ExtensionConfig, FiniteSetTheorems, SequenceTheorems, TLAPS

\* The clicks on one download are some of all the clicks.
Asked == \A i \in Item : history.clicks[i] <= history.asked

Browser == {"none", "prevented", "active", "complete", "interrupted", "cancelled", "erased"}
Worker == [up: BOOLEAN, grace: BOOLEAN, bypassed: SUBSET Item, intercepted: SUBSET Item,
           cancelled: SUBSET Item, urls: SUBSET {UrlOf[i] : i \in Item}]
Popup == [open: BOOLEAN, shown: SUBSET Item, moving: [Item -> Sender],
          answer: [Item -> Answer], direct: [Item -> 0..Routes]]
History == [caught: SUBSET Item, clicks: [Item -> 0..MaxClicks], asked: 0..MaxClicks,
            sleeps: 0..MaxSleeps, turns: 0..MaxTurns]

\* The bounds are numbers, and there is a route to try.
LEMMA Bounds ==
  /\ MaxClicks \in Nat /\ MaxLate \in Nat /\ MaxSleeps \in Nat /\ MaxTurns \in Nat
  /\ Routes \in Nat \ {0}
BY ConstantsAssumption

\* A worker that starts, and a popup that opens, have the memory of their types.
LEMMA FreshMemory ==
  /\ Fresh \in Worker /\ [Fresh EXCEPT !.up = FALSE] \in Worker
  /\ Closed \in Popup /\ [Closed EXCEPT !.open = TRUE] \in Popup
<1>1. Fresh \in Worker /\ [Fresh EXCEPT !.up = FALSE] \in Worker
  BY DEF Fresh, Worker
<1>2. 0 \in 0..Routes /\ 0 \in Sender
  BY ConstantsAssumption DEF Sender
<1> QED
  BY <1>1, <1>2 DEF Closed, Popup, Answer

\* What a send tells the popup keeps the popup's type.
LEMMA AnswerPopupType ==
  ASSUME popup \in Popup, NEW i \in Item, NEW s, NEW a \in Answer, AnswerPopup(i, s, a)
  PROVE  popup' \in Popup
BY DEF AnswerPopup, Popup

\* So do the marks the worker puts on a download it takes.
LEMMA TakenType ==
  ASSUME worker \in Worker, NEW i \in Item,
         worker' = [worker EXCEPT !.intercepted = @ \cup {i}, !.cancelled = @ \cup {i}]
  PROVE  worker' \in Worker
<1>1. worker.intercepted \cup {i} \in SUBSET Item /\ worker.cancelled \cup {i} \in SUBSET Item
  BY DEF Worker
<1> QED
  BY <1>1 DEF Worker

\* A call that removes a download has its type.
LEMMA RemovalType ==
  ASSUME NEW i \in Item, NEW step \in {"look", "cancel", "erase"},
         NEW by \in {"worker", "popup", "closed"}
  PROVE  [item |-> i, step |-> step, by |-> by] \in Removal
BY DEF Removal

\* Every reachable state has its type: in particular each click on a row of the popup
\* starts a send with a number of its own.
THEOREM ExtensionTypeCorrect == Spec => [](TypeOK /\ Asked)
<1>1. Init => TypeOK /\ Asked
  <2> SUFFICES ASSUME Init PROVE TypeOK /\ Asked
    OBVIOUS
  <2>1. worker \in Worker /\ popup \in Popup
    BY FreshMemory DEF Init
  <2>2. history \in History
    BY ConstantsAssumption DEF Init, History
  <2>3. send \in [Item -> [Sender -> 0..Routes]] /\ late \in [Item -> 0..MaxLate]
    BY ConstantsAssumption DEF Init
  <2> QED
    BY <2>1, <2>2, <2>3, ConstantsAssumption
       DEF Init, TypeOK, Asked, Worker, Popup, History
<1>2. TypeOK /\ Asked /\ [Next]_vars => (TypeOK /\ Asked)'
  <2> SUFFICES ASSUME TypeOK, Asked, [Next]_vars
               PROVE  (TypeOK /\ Asked)'
    OBVIOUS
  <2>0. /\ browser \in [Item -> Browser] /\ created \subseteq Item /\ byExtension \subseteq Item
        /\ worker \in Worker /\ send \in [Item -> [Sender -> 0..Routes]]
        /\ removing \subseteq Removal /\ popup \in Popup
        /\ app \in {"up", "down", "disabled"} /\ received \in [Item -> Nat]
        /\ alert \in Item \cup {NoItem} /\ told \subseteq Item
        /\ late \in [Item -> 0..MaxLate] /\ history \in History
    BY DEF TypeOK, Browser, Worker, Popup, History
  <2> SUFFICES
        /\ browser' \in [Item -> Browser] /\ created' \subseteq Item
        /\ byExtension' \subseteq Item
        /\ worker' \in Worker /\ send' \in [Item -> [Sender -> 0..Routes]]
        /\ removing' \subseteq Removal /\ popup' \in Popup
        /\ app' \in {"up", "down", "disabled"} /\ received' \in [Item -> Nat]
        /\ alert' \in Item \cup {NoItem} /\ told' \subseteq Item
        /\ late' \in [Item -> 0..MaxLate] /\ history' \in History
        /\ \A i \in Item : history'.clicks[i] <= history'.asked
    BY DEF TypeOK, Asked, Browser, Worker, Popup, History
  <2> DEFINE Typed ==
        /\ browser' \in [Item -> Browser] /\ created' \subseteq Item
        /\ byExtension' \subseteq Item
        /\ worker' \in Worker /\ send' \in [Item -> [Sender -> 0..Routes]]
        /\ removing' \subseteq Removal /\ popup' \in Popup
        /\ app' \in {"up", "down", "disabled"} /\ received' \in [Item -> Nat]
        /\ alert' \in Item \cup {NoItem} /\ told' \subseteq Item
        /\ late' \in [Item -> 0..MaxLate] /\ history' \in History
        /\ \A i \in Item : history'.clicks[i] <= history'.asked
  <2>a. \A i \in Item : history.clicks[i] <= history.asked
    BY DEF Asked
  <2>b. Catch \in Sender /\ Routes \in 0..Routes /\ 0 \in 0..Routes
    BY ConstantsAssumption DEF Catch, Sender
  <2>1. CASE AppTurns
    <3>1. history' \in History /\ history'.clicks = history.clicks
                               /\ history'.asked = history.asked
      BY <2>1, <2>0, ConstantsAssumption DEF AppTurns, History
    <3> QED
      BY <2>1, <2>0, <2>a, <3>1 DEF AppTurns
  <2>2. CASE Sleep
    <3>1. history' \in History /\ history'.clicks = history.clicks
                               /\ history'.asked = history.asked
      BY <2>2, <2>0, ConstantsAssumption DEF Sleep, History
    <3> QED
      BY <2>2, <2>0, <2>a, <3>1, FreshMemory DEF Sleep
  <2>3. CASE Wake
    <3>1. worker' \in Worker
      BY <2>3 DEF Wake, Fresh, Worker
    <3> QED
      BY <2>3, <2>0, <2>a, <3>1 DEF Wake
  <2>4. CASE GraceOver
    <3>1. worker' \in Worker
      BY <2>4, <2>0 DEF GraceOver, Worker
    <3> QED
      BY <2>4, <2>0, <2>a, <3>1 DEF GraceOver
  <2>5. CASE UrlExpires
    <3>1. worker' \in Worker
      BY <2>5, <2>0 DEF UrlExpires, Worker
    <3> QED
      BY <2>5, <2>0, <2>a, <3>1 DEF UrlExpires
  <2>6. CASE CloseAlert
    BY <2>6, <2>0, <2>a DEF CloseAlert
  <2>7. CASE OpenPopup
    BY <2>7, <2>0, <2>a, FreshMemory DEF OpenPopup
  <2>8. CASE PopupCloses
    <3>1. removing' \subseteq Removal
      BY <2>8, <2>0 DEF PopupCloses, Removal
    <3> QED
      BY <2>8, <2>0, <2>a, <3>1, FreshMemory DEF PopupCloses
  <2>9. CASE LoadBrowserDownloads
    <3>1. popup' \in Popup
      BY <2>9, <2>0 DEF LoadBrowserDownloads, Popup
    <3> QED
      BY <2>9, <2>0, <2>a, <3>1 DEF LoadBrowserDownloads
  <2>10. ASSUME NEW i \in Item, PageDownload(i) PROVE Typed
    BY <2>10, <2>0, <2>a DEF PageDownload, Browser
  <2>11. ASSUME NEW i \in Item, LinkClick(i) PROVE Typed
    <3>1. history' \in History /\ history'.clicks = history.clicks
                               /\ history'.asked = history.asked
      BY <2>11, <2>0 DEF LinkClick, History
    <3>2. send' \in [Item -> [Sender -> 0..Routes]]
      BY <2>11, <2>0, <2>b DEF LinkClick, SendDownload
    <3> QED
      BY <2>11, <2>0, <2>a, <3>1, <3>2 DEF LinkClick, Browser
  <2>12. ASSUME NEW i \in Item, Ends(i) PROVE Typed
    BY <2>12, <2>0, <2>a DEF Ends, Browser
  <2>13. ASSUME NEW i \in Item, OnCreated(i) PROVE Typed
    <3>1. PICK on \in BOOLEAN :
       IF ShouldIntercept(i, on)
         THEN /\ worker' = [worker EXCEPT !.intercepted = @ \cup {i},
                                          !.cancelled = @ \cup {i}]
              /\ removing' = removing \cup
                   {[item |-> i, step |-> "cancel", by |-> "worker"]}
              /\ send' = [send EXCEPT ![i][Catch] = Routes]
              /\ history' = [history EXCEPT !.caught = @ \cup {i}]
         ELSE /\ worker' = [worker EXCEPT !.bypassed =
                              IF on /\ i \notin Known THEN @ \cup {i} ELSE @]
              /\ UNCHANGED <<removing, send, history>>
      BY <2>13 DEF OnCreated
    <3>2. CASE ShouldIntercept(i, on)
      <4>1. worker' \in Worker /\ removing' \subseteq Removal
        <5>1. worker' \in Worker
          BY <3>1, <3>2, <2>0, TakenType
        <5>2. [item |-> i, step |-> "cancel", by |-> "worker"] \in Removal
          BY RemovalType
        <5> QED
          BY <3>1, <3>2, <2>0, <5>1, <5>2
      <4>2. send' \in [Item -> [Sender -> 0..Routes]]
        BY <3>1, <3>2, <2>0, <2>b
      <4>3. history' \in History /\ history'.clicks = history.clicks
                                 /\ history'.asked = history.asked
        BY <3>1, <3>2, <2>0 DEF History
      <4> QED
        BY <2>13, <4>1, <4>2, <4>3, <2>0, <2>a DEF OnCreated
    <3>3. CASE ~ShouldIntercept(i, on)
      <4>1. (IF on /\ i \notin Known THEN worker.bypassed \cup {i} ELSE worker.bypassed)
              \in SUBSET Item
        BY <2>0 DEF Worker
      <4>2. worker' \in Worker
        BY <3>1, <3>3, <4>1, <2>0 DEF Worker
      <4> QED
        BY <2>13, <3>1, <3>3, <4>2, <2>0, <2>a DEF OnCreated
    <3> QED
      BY <3>2, <3>3
  <2>14. ASSUME NEW i \in Item, TriggerBrowserDownload(i) PROVE Typed
    <3>1. worker' \in Worker
      BY <2>14, <2>0 DEF TriggerBrowserDownload, Worker
    <3> QED
      BY <2>14, <2>0, <2>a, <3>1 DEF TriggerBrowserDownload, Browser
  <2>15. ASSUME NEW i \in Item, Transfer(i) PROVE Typed
    <3> DEFINE click == history.asked + 1
    <3>0. history.asked \in 0..MaxClicks /\ click <= MaxClicks
      BY <2>15, <2>0 DEF Transfer, History
    <3>1. click \in Sender /\ click \in 0..MaxClicks
      BY <3>0, Bounds DEF Sender
    <3>2. send' \in [Item -> [Sender -> 0..Routes]]
      BY <2>15, <2>0, <2>b, <3>1 DEF Transfer
    <3>3. popup' \in Popup
      BY <2>15, <2>0, <3>1 DEF Transfer, Popup, Answer
    <3>4. /\ history' = [history EXCEPT !.clicks[i] = @ + 1, !.asked = click]
          /\ history.clicks[i] + 1 \in 0..MaxClicks
      BY <2>15, <2>0, <2>a, <3>1, ConstantsAssumption DEF Transfer, History
    <3>5. history' \in History
      BY <3>1, <3>4, <2>0 DEF History
    <3>6. \A j \in Item : history'.clicks[j] <= history'.asked
      BY <3>4, <2>0, <2>a, ConstantsAssumption DEF History
    <3> QED
      BY <2>15, <2>0, <3>2, <3>3, <3>5, <3>6 DEF Transfer
  <2>16. ASSUME NEW i \in Item, OnAnswer(i) PROVE Typed
    <3>1. popup' \in Popup
      BY <2>16, <2>0, <2>b DEF OnAnswer, Popup, Answer, Sender, Catch
    <3> QED
      BY <2>16, <2>0, <2>a, <3>1 DEF OnAnswer
  <2>17. ASSUME NEW i \in Item, SendDownloadDirect(i) PROVE Typed
    <3>a. DirectDone(i) \in Popup
      BY <2>0, <2>b DEF DirectDone, Popup, Catch
    <3>b. popup.direct[i] \in 1..Routes
      BY <2>17, <2>0, Bounds DEF SendDownloadDirect, Popup
    <3>c. popup.direct[i] - 1 \in 0..Routes
      BY <3>b, Bounds
    <3>0. DirectDone(i) \in Popup /\ DirectNext(i) \in Popup
      BY <3>a, <3>c, <2>0 DEF DirectNext, Popup
    <3>1. popup' \in Popup
      BY <2>17, <3>0 DEF SendDownloadDirect, Popup
    <3>2. removing' \subseteq Removal
      <4>1. [item |-> i, step |-> "cancel", by |-> "popup"] \in Removal
        BY RemovalType
      <4> QED
        BY <2>17, <2>0, <4>1 DEF SendDownloadDirect
    <3>3. received' \in [Item -> Nat] /\ late' \in [Item -> 0..MaxLate]
      <4>1. CASE UNCHANGED late
        BY <2>17, <2>0, <4>1 DEF SendDownloadDirect, Given
      <4>2. CASE Given(i) /\ Late(i)
        <5>1. late[i] + 1 \in 0..MaxLate
          BY <2>0, <4>2, Bounds DEF Late
        <5> QED
          BY <2>0, <4>2, <5>1 DEF Given, Late
      <4> QED
        BY <2>17, <4>1, <4>2 DEF SendDownloadDirect
    <3> QED
      BY <2>17, <2>0, <2>a, <3>1, <3>2, <3>3 DEF SendDownloadDirect
  <2>18. ASSUME NEW i \in Item, NEW s \in Sender, SendToThunderDM(i, s) PROVE Typed
    <3>1. popup' \in Popup
      BY <2>18, <2>0, AnswerPopupType
         DEF SendToThunderDM, Accept, RouteFails, Disabled, Answer
    <3>2. send' \in [Item -> [Sender -> 0..Routes]]
      BY <2>18, <2>0, <2>b, ConstantsAssumption
         DEF SendToThunderDM, Accept, RouteFails, Disabled
    <3>3. received' \in [Item -> Nat] /\ late' \in [Item -> 0..MaxLate]
      <4>1. CASE UNCHANGED late
        BY <2>18, <2>0, <4>1 DEF SendToThunderDM, Given
      <4>2. CASE Given(i) /\ Late(i)
        <5>1. late[i] + 1 \in 0..MaxLate
          BY <2>0, <4>2, Bounds DEF Late
        <5> QED
          BY <2>0, <4>2, <5>1 DEF Given, Late
      <4> QED
        BY <2>18, <4>1, <4>2 DEF SendToThunderDM
    <3>4. worker' \in Worker /\ removing' \subseteq Removal
      BY <2>18, <2>0, TakenType, RemovalType
         DEF SendToThunderDM, Accept, RouteFails, Disabled
    <3>5. alert' \in Item \cup {NoItem} /\ told' \subseteq Item
      BY <2>18, <2>0 DEF SendToThunderDM, Accept, RouteFails, Disabled, ShowAlert
    <3> QED
      BY <2>18, <2>0, <2>a, <3>1, <3>2, <3>3, <3>4, <3>5 DEF SendToThunderDM
  <2>19. ASSUME NEW r \in removing, Removed(r) PROVE Typed
    <3>1. r \in Removal
      BY <2>0
    <3>2. removing' \subseteq Removal
      <4>1. ASSUME NEW step \in {"look", "cancel", "erase"}
            PROVE  [r EXCEPT !.step = step] \in Removal
        BY <3>1 DEF Removal
      <4>2. removing \ {r} \subseteq Removal
        BY <2>0
      <4> QED
        BY <2>19, <4>1, <4>2, <3>1 DEF Removed, Removal
    <3>3. browser' \in [Item -> Browser]
      BY <2>19, <2>0, <3>1 DEF Removed, Removal, Browser
    <3> QED
      BY <2>19, <2>0, <2>a, <3>2, <3>3 DEF Removed
  <2>20. CASE UNCHANGED vars
    BY <2>20, <2>0, <2>a DEF vars
  <2> QED
    BY <2>1, <2>2, <2>3, <2>4, <2>5, <2>6, <2>7, <2>8, <2>9, <2>10, <2>11, <2>12, <2>13,
       <2>14, <2>15, <2>16, <2>17, <2>18, <2>19, <2>20 DEF Next
<1> QED
  BY <1>1, <1>2, PTL DEF Spec

-----------------------------------------------------------------------------
\* A download that has left the browser, or that a call is about to take away.
Leaving(i) == Gone(i) \/ \E r \in removing : r.item = i

\* Somebody has it: the application, a running send, or the user who was told.
Held(i) == received[i] > 0 \/ Sending(i) \/ i \in told

\* A download begins to leave the browser only when it is caught, with a send of it
\* started in the same step, or when the application has just been given it.
LEMMA LeavingBegins ==
  ASSUME TypeOK, [Next]_vars, NEW i \in Item, ~Leaving(i), Leaving(i)'
  PROVE  (i \in history'.caught /\ Sending(i)') \/ received'[i] > 0
<1> DEFINE Goal == (i \in history'.caught /\ Sending(i)') \/ received'[i] > 0
<1> USE DEF Leaving, Gone, Sending
<1>0. /\ browser \in [Item -> Browser] /\ removing \subseteq Removal
      /\ received \in [Item -> Nat] /\ send \in [Item -> [Sender -> 0..Routes]]
      /\ history \in History
  BY DEF TypeOK, Browser, History
<1>a. Catch \in Sender /\ Routes > 0
  BY Bounds DEF Catch, Sender
<1>b. ~ UNCHANGED <<browser, removing>>
  OBVIOUS
<1>c. ASSUME NEW j \in Item, Given(j), UNCHANGED browser,
             removing' \subseteq removing \cup
               {[item |-> j, step |-> "look", by |-> "worker"],
                [item |-> j, step |-> "cancel", by |-> "popup"]}
      PROVE  Goal
  <2>1. j = i
    BY <1>c
  <2> QED
    BY <1>c, <1>0, <2>1 DEF Given
<1>1. CASE PopupCloses
  <2>1. \A r \in Removal : [r EXCEPT !.by = "closed"].item = r.item
    BY DEF Removal
  <2>2. \A x \in removing' : \E r \in removing : x.item = r.item
    <3>1. ASSUME NEW x \in removing' PROVE \E r \in removing : x.item = r.item
      <4>1. PICK r \in removing : x = IF r.by = "popup" THEN [r EXCEPT !.by = "closed"] ELSE r
        BY <1>1, <3>1 DEF PopupCloses
      <4>2. x.item = r.item
        BY <1>0, <2>1, <4>1
      <4> QED
        BY <4>2
    <3> QED
      BY <3>1
  <2> QED
    BY <1>1, <2>2 DEF PopupCloses
<1>2. ASSUME NEW j \in Item, PageDownload(j) PROVE Goal
  BY <1>2, <1>0 DEF PageDownload
<1>3. ASSUME NEW j \in Item, LinkClick(j) PROVE Goal
  <2>1. j = i
    BY <1>3, <1>0 DEF LinkClick
  <2> QED
    BY <1>3, <1>0, <1>a, <2>1 DEF LinkClick, SendDownload, History
<1>4. ASSUME NEW j \in Item, Ends(j) PROVE Goal
  BY <1>4, <1>0 DEF Ends
<1>5. ASSUME NEW j \in Item, OnCreated(j) PROVE Goal
  <2>1. /\ removing' = removing \cup {[item |-> j, step |-> "cancel", by |-> "worker"]}
        /\ send' = [send EXCEPT ![j][Catch] = Routes]
        /\ history' = [history EXCEPT !.caught = @ \cup {j}]
        /\ UNCHANGED browser
    BY <1>5, <1>b DEF OnCreated
  <2>2. j = i
    BY <2>1
  <2> QED
    BY <2>1, <2>2, <1>0, <1>a DEF History
<1>6. ASSUME NEW j \in Item, TriggerBrowserDownload(j) PROVE Goal
  BY <1>6, <1>0 DEF TriggerBrowserDownload
<1>7. ASSUME NEW j \in Item, SendDownloadDirect(j) PROVE Goal
  BY <1>7, <1>b, <1>c DEF SendDownloadDirect
<1>8. ASSUME NEW j \in Item, NEW s \in Sender, SendToThunderDM(j, s) PROVE Goal
  BY <1>8, <1>b, <1>c DEF SendToThunderDM, Accept, RouteFails, Disabled
<1>9. ASSUME NEW r \in removing, Removed(r) PROVE Goal
  <2>1. r.item # i /\ \A x \in removing : x.item # i
    BY <1>9
  <2>2. r \in Removal
    BY <1>0
  <2>3. browser'[i] = browser[i]
    BY <1>9, <1>0, <2>1, <2>2 DEF Removed, Removal
  <2>4. \A x \in removing' : x.item # i
    <3>1. \A step \in {"cancel", "erase"} : [r EXCEPT !.step = step].item = r.item
      BY <2>2 DEF Removal
    <3>2. \A x \in removing' :
            x \in removing \/ \E step \in {"cancel", "erase"} : x = [r EXCEPT !.step = step]
      BY <1>9, <2>2 DEF Removed, Removal
    <3> QED
      BY <2>1, <3>1, <3>2
  <2> QED
    BY <2>3, <2>4
<1> QED
  BY <1>b, <1>1, <1>2, <1>3, <1>4, <1>5, <1>6, <1>7, <1>8, <1>9
     DEF Next, vars, AppTurns, Sleep, Wake, GraceOver, UrlExpires, CloseAlert, OpenPopup,
         LoadBrowserDownloads, Transfer, OnAnswer

\* What somebody has is never dropped: the last route that fails, and an application
\* that is disabled, tell the user in the step that ends the send.
LEMMA HeldStays ==
  ASSUME TypeOK, [Next]_vars, NEW i \in Item, Held(i)
  PROVE  Held(i)'
<1> USE DEF Held, Sending
<1>0. /\ received \in [Item -> Nat] /\ send \in [Item -> [Sender -> 0..Routes]]
      /\ history \in History
  BY DEF TypeOK, History
<1>a. Catch \in Sender /\ Routes \in Nat \ {0}
  BY Bounds DEF Catch, Sender
<1>b. UNCHANGED <<received, send, told>> => Held(i)'
  OBVIOUS
<1>1. ASSUME NEW j \in Item, LinkClick(j) PROVE Held(i)'
  BY <1>1, <1>0, <1>a DEF LinkClick, SendDownload
<1>2. ASSUME NEW j \in Item, OnCreated(j) PROVE Held(i)'
  BY <1>2, <1>0, <1>a DEF OnCreated
<1>3. ASSUME NEW j \in Item, Transfer(j) PROVE Held(i)'
  <2>1. history.asked + 1 # Catch
    BY <1>0, Bounds DEF History, Catch
  <2> QED
    BY <1>3, <1>0, <2>1 DEF Transfer
<1>4. ASSUME NEW j \in Item, SendDownloadDirect(j) PROVE Held(i)'
  BY <1>4, <1>0 DEF SendDownloadDirect, Given
<1>5. ASSUME NEW j \in Item, NEW s \in Sender, SendToThunderDM(j, s) PROVE Held(i)'
  <2>1. CASE i # j
    BY <1>5, <1>0, <2>1
       DEF SendToThunderDM, Given, Accept, RouteFails, Disabled, ShowAlert
  <2>2. CASE i = j
    <3>1. CASE app = "up" /\ Given(i)
      BY <1>0, <3>1 DEF Given
    <3>2. CASE RouteFails(i, s) /\ UNCHANGED received
      <4>1. CASE s = Catch /\ send[i][s] = 1
        BY <1>5, <2>2, <3>2, <4>1 DEF RouteFails, ShowAlert
      <4>2. CASE s = Catch /\ send[i][s] > 1
        BY <1>0, <1>a, <3>2, <4>2 DEF RouteFails
      <4>3. CASE s # Catch
        BY <1>0, <1>a, <3>2, <4>3 DEF RouteFails, ShowAlert
      <4>4. send[i][s] \in Nat /\ send[i][s] > 0
        BY <1>5, <2>2, <1>0, <1>a DEF SendToThunderDM
      <4> QED
        BY <4>1, <4>2, <4>3, <4>4
    <3>3. CASE Disabled(i, s)
      BY <3>3 DEF Disabled, ShowAlert
    <3> QED
      BY <1>5, <2>2, <3>1, <3>2, <3>3 DEF SendToThunderDM
  <2> QED
    BY <2>1, <2>2
<1> QED
  BY <1>b, <1>1, <1>2, <1>3, <1>4, <1>5
     DEF Next, vars, AppTurns, Sleep, Wake, GraceOver, UrlExpires, CloseAlert, OpenPopup,
         PopupCloses, LoadBrowserDownloads, PageDownload, Ends, TriggerBrowserDownload,
         OnAnswer, Removed

\* What was caught stays caught, and what the application has it keeps.
LEMMA TakenStays ==
  ASSUME TypeOK, [Next]_vars, NEW i \in Item
  PROVE  /\ i \in history.caught => i \in history'.caught
         /\ received[i] > 0 => received'[i] > 0
<1>1. history.caught \subseteq history'.caught
  <2>1. history \in History
    BY DEF TypeOK, History
  <2>2. CASE AppTurns \/ Sleep
    BY <2>1, <2>2 DEF AppTurns, Sleep, History
  <2>3. ASSUME NEW j \in Item, LinkClick(j) \/ OnCreated(j) \/ Transfer(j)
        PROVE  history.caught \subseteq history'.caught
    BY <2>1, <2>3 DEF LinkClick, OnCreated, Transfer, History
  <2> QED
    BY <2>2, <2>3
       DEF Next, vars, Wake, GraceOver, UrlExpires, CloseAlert, OpenPopup, PopupCloses,
           LoadBrowserDownloads, PageDownload, Ends, TriggerBrowserDownload, OnAnswer,
           SendDownloadDirect, SendToThunderDM, Removed
<1>2. received[i] > 0 => received'[i] > 0
  <2>1. received \in [Item -> Nat]
    BY DEF TypeOK
  <2>2. UNCHANGED received \/ \E j \in Item : Given(j)
    BY DEF Next, vars, AppTurns, Sleep, Wake, GraceOver, UrlExpires, CloseAlert,
           OpenPopup, PopupCloses, LoadBrowserDownloads, PageDownload, LinkClick, Ends,
           OnCreated, TriggerBrowserDownload, Transfer, OnAnswer, SendDownloadDirect,
           SendToThunderDM, Removed
  <2> QED
    BY <2>1, <2>2 DEF Given
<1> QED
  BY <1>1, <1>2

\* A download the extension took from the browser is not dropped, whatever the
\* application does: it has the download, or a send of it runs, or the user was told.
THEOREM NothingIsLost == Spec => []NothingLost
<1> DEFINE Inv == \A i \in Item : Leaving(i) => Held(i)
<1>1. Init => Inv
  BY DEF Init, Leaving, Gone
<1>2. TypeOK /\ Inv /\ [Next]_vars => Inv'
  BY LeavingBegins, HeldStays DEF Held
<1>3. TypeOK /\ Inv => NothingLost
  BY DEF NothingLost, Leaving, Held
<1> QED
  BY ExtensionTypeCorrect, <1>1, <1>2, <1>3, PTL DEF Spec

\* A download the user moves by hand leaves the browser only once the application has it:
\* no call removes it before.
THEOREM MovedAfterTaken == Spec => []MovedOnlyWhenTaken
<1> DEFINE Inv == \A i \in Item \ history.caught : Leaving(i) => received[i] > 0
<1>1. Init => Inv
  BY DEF Init, Leaving, Gone
<1>2. TypeOK /\ Inv /\ [Next]_vars => Inv'
  BY LeavingBegins, TakenStays
<1>3. Inv => MovedOnlyWhenTaken
  BY DEF MovedOnlyWhenTaken, Leaving
<1> QED
  BY ExtensionTypeCorrect, <1>1, <1>2, <1>3, PTL DEF Spec

-----------------------------------------------------------------------------
\* The requests of i that the application may still be given: those a send of the worker
\* tries, and the one the popup tries itself or is about to.
Unspent(i) ==
  {s \in Sender : \/ send[i][s] > 0
                  \/ /\ s # Catch /\ popup.moving[i] = s
                     /\ popup.direct[i] > 0 \/ popup.answer[i] = "failed"}

\* What was asked for: the catch, the clicks, and the answers that came too late.
Due(i) == (IF i \in history.caught THEN 1 ELSE 0) + history.clicks[i] + late[i]

\* A download is caught once: before it started or when its creation is handled.
CaughtOnce ==
  \A i \in Item :
    /\ i \in created => browser[i] # "none" /\ i \notin history.caught
    /\ browser[i] = "none" => i \notin history.caught

\* The popup tries the routes itself only for the request its row waits for, and when the
\* worker is done with that one.
OneTurn ==
  \A i \in Item :
    /\ popup.direct[i] > 0 => popup.moving[i] # 0 /\ popup.answer[i] = "none"
    /\ popup.moving[i] # 0 /\ send[i][popup.moving[i]] > 0
         => popup.direct[i] = 0 /\ popup.answer[i] = "none"

\* Every request the application was given, or may still be given, was asked for.
Counted == \A i \in Item : received[i] + Cardinality(Unspent(i)) <= Due(i)

\* A catch happens to a download that was not caught before.
LEMMA CaughtOnceStep ==
  ASSUME TypeOK, CaughtOnce, [Next]_vars
  PROVE  CaughtOnce'
<1> USE DEF CaughtOnce
<1>0. browser \in [Item -> Browser] /\ history \in History /\ created \subseteq Item
  BY DEF TypeOK, Browser, History
<1>1. CASE AppTurns \/ Sleep
  BY <1>1, <1>0 DEF AppTurns, Sleep, History
<1>2. ASSUME NEW j \in Item, PageDownload(j) PROVE CaughtOnce'
  BY <1>2, <1>0 DEF PageDownload
<1>3. ASSUME NEW j \in Item, LinkClick(j) PROVE CaughtOnce'
  BY <1>3, <1>0 DEF LinkClick, History
<1>4. ASSUME NEW j \in Item, Ends(j) PROVE CaughtOnce'
  BY <1>4, <1>0 DEF Ends
<1>5. ASSUME NEW j \in Item, OnCreated(j) PROVE CaughtOnce'
  BY <1>5, <1>0 DEF OnCreated, History
<1>6. ASSUME NEW j \in Item, TriggerBrowserDownload(j) PROVE CaughtOnce'
  BY <1>6, <1>0 DEF TriggerBrowserDownload
<1>7. ASSUME NEW j \in Item, Transfer(j) PROVE CaughtOnce'
  BY <1>7, <1>0 DEF Transfer, History
<1>8. ASSUME NEW r \in removing, Removed(r) PROVE CaughtOnce'
  <2>1. r \in Removal
    BY DEF TypeOK
  <2>2. \A i \in Item : browser'[i] = "none" => browser[i] = "none"
    BY <1>8, <1>0, <2>1 DEF Removed, Removal
  <2> QED
    BY <1>8, <2>2 DEF Removed
<1> QED
  BY <1>1, <1>2, <1>3, <1>4, <1>5, <1>6, <1>7, <1>8
     DEF Next, vars, Wake, GraceOver, UrlExpires, CloseAlert, OpenPopup, PopupCloses,
         LoadBrowserDownloads, OnAnswer, SendDownloadDirect, SendToThunderDM

\* The worker and the popup take turns about a request.
LEMMA OneTurnStep ==
  ASSUME TypeOK, OneTurn, [Next]_vars
  PROVE  OneTurn'
<1> USE DEF OneTurn
<1>0. /\ popup \in Popup /\ send \in [Item -> [Sender -> 0..Routes]] /\ history \in History
  BY DEF TypeOK, Popup, History
<1>a. /\ Catch \in Sender /\ Catch = 0 /\ 0 \in 0..Routes
      /\ Routes \in Nat \ {0} /\ MaxClicks \in Nat
  BY Bounds DEF Catch, Sender
<1>1. CASE OpenPopup \/ PopupCloses
  BY <1>1 DEF OpenPopup, PopupCloses, Closed
<1>2. CASE LoadBrowserDownloads
  BY <1>2, <1>0 DEF LoadBrowserDownloads, Popup
<1>3. ASSUME NEW j \in Item, LinkClick(j) \/ OnCreated(j) PROVE OneTurn'
  <2>1. popup' = popup /\ (send' = send \/ send' = [send EXCEPT ![j][Catch] = Routes])
    BY <1>3 DEF LinkClick, OnCreated, SendDownload
  <2> QED
    BY <2>1, <1>0, <1>a DEF Popup
<1>4. ASSUME NEW j \in Item, Transfer(j) PROVE OneTurn'
  <2>1. history.asked + 1 \in Sender /\ history.asked + 1 # 0
    BY <1>4, <1>0, <1>a DEF Transfer, History, Sender
  <2>2. popup.moving[j] = 0 /\ popup.direct[j] = 0
    BY <1>4, <1>0, <1>a DEF Transfer, Pressable, Popup
  <2> QED
    BY <1>4, <1>0, <1>a, <2>1, <2>2 DEF Transfer, Popup
<1>b. \A i \in Item :
        /\ popup.moving[i] \in Sender /\ popup.direct[i] \in Nat
        /\ \A s \in Sender : send[i][s] \in Nat
  BY <1>0, <1>a DEF Popup
<1>5. ASSUME NEW j \in Item, OnAnswer(j) PROVE OneTurn'
  <2>1. /\ popup.moving[j] # 0 /\ popup.answer[j] # "none" /\ popup.direct[j] = 0
        /\ send' = send /\ send[j][popup.moving[j]] = 0
    BY <1>5, <1>b DEF OnAnswer
  <2>2. popup'.answer = [popup.answer EXCEPT ![j] = "none"]
    BY <1>5, <1>0 DEF OnAnswer, Popup, Answer
  <2>3. \/ /\ popup'.moving = popup.moving
           /\ popup'.direct = [popup.direct EXCEPT ![j] = Routes]
        \/ /\ popup'.moving = [popup.moving EXCEPT ![j] = 0]
           /\ popup'.direct = popup.direct
    BY <1>5, <1>0 DEF OnAnswer, Popup, Answer
  <2>4. ASSUME NEW i \in Item, i # j PROVE OneTurn!(i)'
    BY <2>1, <2>2, <2>3, <2>4, <1>0 DEF Popup
  <2>5. OneTurn!(j)'
    BY <2>1, <2>2, <2>3, <1>0 DEF Popup
  <2> QED
    BY <2>4, <2>5
<1>6. ASSUME NEW j \in Item, SendDownloadDirect(j) PROVE OneTurn'
  <2>1. popup.direct[j] \in 1..Routes /\ send' = send
    BY <1>6, <1>0, <1>a DEF SendDownloadDirect, Popup
  <2>2. CASE popup'.direct = [popup.direct EXCEPT ![j] = 0]
             /\ popup'.moving = [popup.moving EXCEPT ![j] = 0]
             /\ popup'.answer = popup.answer
    BY <1>0, <1>a, <2>1, <2>2 DEF Popup
  <2>3. CASE popup.direct[j] > 1 /\ popup' = [popup EXCEPT !.direct[j] = @ - 1]
    BY <1>0, <1>a, <2>1, <2>3 DEF Popup
  <2> QED
    BY <1>6, <1>0, <2>2, <2>3 DEF SendDownloadDirect, DirectDone, DirectNext, Popup
<1>7. ASSUME NEW j \in Item, NEW s \in Sender, SendToThunderDM(j, s) PROVE OneTurn'
  <2>1. send[j][s] > 0 /\ send[j][s] \in Nat
    BY <1>7, <1>0, <1>a DEF SendToThunderDM
  <2>2. \/ /\ send' = [send EXCEPT ![j][s] = 0]
           /\ \E a \in Answer : AnswerPopup(j, s, a)
        \/ /\ send[j][s] > 1 /\ send' = [send EXCEPT ![j][s] = @ - 1] /\ popup' = popup
    BY <1>7, <1>0, <2>1 DEF SendToThunderDM, Accept, RouteFails, Disabled, Answer
  <2>3. ASSUME NEW a \in Answer, send' = [send EXCEPT ![j][s] = 0], AnswerPopup(j, s, a)
        PROVE  OneTurn'
    <3>1. \A i \in Item : send'[i][popup.moving[i]] > 0 => send[i][popup.moving[i]] > 0
      BY <2>3, <1>0, <1>b
    <3>2. popup'.moving = popup.moving /\ popup'.direct = popup.direct
      BY <2>3, <1>0 DEF AnswerPopup, Popup
    <3>3. CASE popup' = popup
      BY <3>1, <3>3
    <3>4. CASE popup.moving[j] = s /\ s # 0 /\ popup'.answer = [popup.answer EXCEPT ![j] = a]
      <4>1. popup.direct[j] = 0 /\ send'[j][s] = 0
        BY <2>1, <2>3, <3>4, <1>0, <1>b
      <4> QED
        BY <3>1, <3>2, <3>4, <4>1, <1>0 DEF Popup
    <3> QED
      BY <2>3, <3>3, <3>4, <1>0, <1>a DEF AnswerPopup, Popup
  <2>4. CASE send[j][s] > 1 /\ send' = [send EXCEPT ![j][s] = @ - 1] /\ popup' = popup
    BY <2>4, <2>1, <1>0, <1>a DEF Popup
  <2> QED
    BY <2>2, <2>3, <2>4
<1> QED
  BY <1>1, <1>2, <1>3, <1>4, <1>5, <1>6, <1>7
     DEF Next, vars, AppTurns, Sleep, Wake, GraceOver, UrlExpires, CloseAlert, PageDownload,
         Ends, TriggerBrowserDownload, Removed

\* How many requests are unspent after a step that spends none, starts one or spends one.
LEMMA UnspentCount ==
  ASSUME NEW S \in SUBSET Sender, NEW T \in SUBSET Sender, NEW s \in Sender
  PROVE  /\ Cardinality(S) \in Nat /\ Cardinality(T) \in Nat
         /\ T \subseteq S => Cardinality(T) <= Cardinality(S)
         /\ T \subseteq S \cup {s} => Cardinality(T) <= Cardinality(S) + 1
         /\ s \in S /\ T \subseteq S \ {s} => Cardinality(T) + 1 <= Cardinality(S)
<1>1. IsFiniteSet(Sender)
  BY FS_Interval, Bounds DEF Sender
<1>2. IsFiniteSet(S) /\ IsFiniteSet(T)
  BY <1>1, FS_Subset
<1>3. Cardinality(S) \in Nat /\ Cardinality(T) \in Nat
  BY <1>2, FS_CardinalityType
<1>4. T \subseteq S => Cardinality(T) <= Cardinality(S)
  BY <1>2, FS_Subset
<1>5. ASSUME T \subseteq S \cup {s} PROVE Cardinality(T) <= Cardinality(S) + 1
  <2>1. /\ IsFiniteSet(S \cup {s})
        /\ Cardinality(S \cup {s}) = IF s \in S THEN Cardinality(S) ELSE Cardinality(S) + 1
    BY <1>2, FS_AddElement
  <2>2. Cardinality(T) <= Cardinality(S \cup {s})
    BY <2>1, <1>5, FS_Subset
  <2> QED
    BY <2>1, <2>2, <1>3
<1>6. ASSUME s \in S, T \subseteq S \ {s} PROVE Cardinality(T) + 1 <= Cardinality(S)
  <2>1. IsFiniteSet(S \ {s}) /\ Cardinality(S \ {s}) = Cardinality(S) - 1
    BY <1>2, <1>6, FS_RemoveElement
  <2>2. Cardinality(T) <= Cardinality(S \ {s})
    BY <2>1, <1>6, FS_Subset
  <2> QED
    BY <2>1, <2>2, <1>3
<1> QED
  BY <1>3, <1>4, <1>5, <1>6

\* The application gets a download once for the catch and once for each click, and again
\* only for a request whose answer came too late: no route, popup or worker asks twice.
THEOREM AskedOnce == Spec => []NotSentAgain
<1> DEFINE Inv == CaughtOnce /\ OneTurn /\ Counted
<1>1. Init => Inv
  <2> SUFFICES ASSUME Init PROVE Inv
    OBVIOUS
  <2>1. CaughtOnce /\ OneTurn
    BY DEF Init, CaughtOnce, OneTurn, Closed
  <2>2. ASSUME NEW i \in Item PROVE Unspent(i) = {}
    BY DEF Init, Unspent, Closed
  <2>3. Counted
    BY <2>2, FS_EmptySet DEF Init, Counted, Due
  <2> QED
    BY <2>1, <2>3
<1>2. TypeOK /\ Inv /\ [Next]_vars => Inv'
  <2> SUFFICES ASSUME TypeOK, Inv, [Next]_vars, NEW i \in Item
               PROVE  (received[i] + Cardinality(Unspent(i)) <= Due(i))'
    BY CaughtOnceStep, OneTurnStep DEF Counted
  <2> DEFINE Goal == (received[i] + Cardinality(Unspent(i)) <= Due(i))'
  <2>0. /\ popup \in Popup /\ send \in [Item -> [Sender -> 0..Routes]]
        /\ history \in History /\ received \in [Item -> Nat] /\ late \in [Item -> 0..MaxLate]
    BY DEF TypeOK, Popup, History
  <2>a. /\ Catch \in Sender /\ Catch = 0 /\ Routes \in Nat \ {0} /\ MaxClicks \in Nat
        /\ MaxLate \in Nat
    BY Bounds DEF Catch, Sender
  <2>b. /\ received[i] \in Nat /\ late[i] \in Nat /\ history.clicks[i] \in Nat
        /\ Due(i) \in Nat
    BY <2>0, <2>a DEF History, Due
  <2>c. /\ Unspent(i) \in SUBSET Sender /\ Unspent(i)' \in SUBSET Sender
        /\ received[i] + Cardinality(Unspent(i)) <= Due(i)
    BY DEF Unspent, Counted
  <2>d. ASSUME Unspent(i)' \subseteq Unspent(i), received'[i] = received[i],
               Due(i)' \in Nat, Due(i)' >= Due(i)
        PROVE  Goal
    BY <2>b, <2>c, <2>d, <2>a, UnspentCount
  <2>e. ASSUME NEW s \in Sender, Unspent(i)' \subseteq Unspent(i) \cup {s},
               received'[i] = received[i], Due(i)' = Due(i) + 1
        PROVE  Goal
    BY <2>b, <2>c, <2>e, UnspentCount
  <2>f. ASSUME NEW s \in Unspent(i), Unspent(i)' \subseteq Unspent(i) \ {s},
               received'[i] = received[i] + 1, Due(i)' = Due(i)
        PROVE  Goal
    BY <2>b, <2>c, <2>f, UnspentCount
  <2>g. ASSUME Unspent(i)' \subseteq Unspent(i), received'[i] = received[i] + 1,
               Due(i)' = Due(i) + 1
        PROVE  Goal
    BY <2>b, <2>c, <2>g, <2>a, UnspentCount
  <2>h. ASSUME UNCHANGED <<send, popup, received, late, history>> PROVE Goal
    <3>1. Unspent(i)' = Unspent(i) /\ Due(i)' = Due(i)
      BY <2>h DEF Unspent, Due
    <3> QED
      BY <2>b, <2>d, <2>h, <3>1
  <2>1. CASE AppTurns \/ Sleep
    <3>1. Unspent(i)' = Unspent(i) /\ UNCHANGED received
      BY <2>1 DEF AppTurns, Sleep, Unspent
    <3>2. Due(i)' = Due(i)
      BY <2>1, <2>0 DEF AppTurns, Sleep, Due, History
    <3> QED
      BY <2>b, <2>d, <3>1, <3>2
  <2>2. CASE OpenPopup \/ PopupCloses
    <3>1. Unspent(i)' \subseteq Unspent(i)
      BY <2>2 DEF OpenPopup, PopupCloses, Unspent, Closed
    <3>2. Due(i)' = Due(i) /\ UNCHANGED received
      BY <2>2 DEF OpenPopup, PopupCloses, Due
    <3> QED
      BY <2>b, <2>d, <3>1, <3>2
  <2>3. CASE LoadBrowserDownloads
    <3>1. Unspent(i)' = Unspent(i)
      BY <2>3, <2>0 DEF LoadBrowserDownloads, Unspent, Popup
    <3>2. Due(i)' = Due(i) /\ UNCHANGED received
      BY <2>3 DEF LoadBrowserDownloads, Due
    <3> QED
      BY <2>b, <2>d, <3>1, <3>2
  <2>4. ASSUME NEW j \in Item, history' = [history EXCEPT !.caught = @ \cup {j}],
               j \notin history.caught, send' = [send EXCEPT ![j][Catch] = Routes],
               UNCHANGED <<popup, received, late>>
        PROVE  Goal
    <3>1. history'.caught = history.caught \cup {j} /\ history'.clicks = history.clicks
      BY <2>4, <2>0 DEF History
    <3>2. CASE i = j
      <4>1. Unspent(i)' \subseteq Unspent(i) \cup {Catch}
        BY <2>4, <2>0 DEF Unspent
      <4>2. Due(i)' = Due(i) + 1
        BY <2>4, <2>b, <3>1, <3>2 DEF Due
      <4> QED
        BY <2>4, <2>a, <2>e, <4>1, <4>2
    <3>3. CASE i # j
      <4>1. Unspent(i)' = Unspent(i)
        BY <2>4, <2>0, <3>3 DEF Unspent
      <4>2. Due(i)' = Due(i)
        BY <2>4, <3>1, <3>3 DEF Due
      <4> QED
        BY <2>4, <2>b, <2>d, <4>1, <4>2
    <3> QED
      BY <3>2, <3>3
  <2>5. ASSUME NEW j \in Item, LinkClick(j) PROVE Goal
    BY <2>4, <2>5 DEF LinkClick, SendDownload, CaughtOnce
  <2>6. ASSUME NEW j \in Item, OnCreated(j) PROVE Goal
    BY <2>4, <2>6, <2>h DEF OnCreated, CaughtOnce
  <2>7. ASSUME NEW j \in Item, Transfer(j) PROVE Goal
    <3> DEFINE click == history.asked + 1
    <3>0. click \in Sender
      BY <2>7, <2>0, <2>a DEF Transfer, History, Sender
    <3>1. /\ history'.caught = history.caught
          /\ history'.clicks = [history.clicks EXCEPT ![j] = @ + 1]
          /\ UNCHANGED <<received, late>>
      BY <2>7, <2>0 DEF Transfer, History
    <3>2. popup'.moving = [popup.moving EXCEPT ![j] = click] /\ popup'.direct = popup.direct
          /\ popup'.answer = [popup.answer EXCEPT ![j] = "none"]
      BY <2>7, <2>0 DEF Transfer, Popup
    <3>3. send' = [send EXCEPT ![j][click] = Routes]
      BY <2>7 DEF Transfer
    <3>4. CASE i = j
      <4>1. Unspent(i)' \subseteq Unspent(i) \cup {click}
        BY <3>2, <3>3, <3>4, <3>0, <2>0 DEF Unspent, Popup
      <4>2. Due(i)' = Due(i) + 1
        <5>1. history'.clicks[i] = history.clicks[i] + 1
          BY <3>1, <3>4, <2>0 DEF History
        <5> QED
          BY <2>b, <3>1, <5>1 DEF Due
      <4> QED
        BY <2>e, <3>0, <3>1, <4>1, <4>2
    <3>5. CASE i # j
      <4>1. Unspent(i)' = Unspent(i)
        BY <3>2, <3>3, <3>5, <2>0 DEF Unspent, Popup
      <4>2. Due(i)' = Due(i)
        BY <3>1, <3>5, <2>0 DEF Due, History
      <4> QED
        BY <2>b, <2>d, <3>1, <4>1, <4>2
    <3> QED
      BY <3>4, <3>5
  <2>8. ASSUME NEW j \in Item, OnAnswer(j) PROVE Goal
    <3>1. popup.answer[j] # "none" /\ send' = send /\ UNCHANGED <<received, late, history>>
      BY <2>8 DEF OnAnswer
    <3>2. popup'.answer = [popup.answer EXCEPT ![j] = "none"]
      BY <2>8, <2>0 DEF OnAnswer, Popup, Answer
    <3>3. \/ /\ popup'.moving = popup.moving /\ popup.answer[j] = "failed"
             /\ popup'.direct = [popup.direct EXCEPT ![j] = Routes]
          \/ /\ popup'.moving = [popup.moving EXCEPT ![j] = 0]
             /\ popup'.direct = popup.direct
      BY <2>8, <2>0 DEF OnAnswer, Popup, Answer
    <3>4. Unspent(i)' \subseteq Unspent(i)
      BY <3>1, <3>2, <3>3, <2>0, <2>a DEF Unspent, Popup
    <3>5. Due(i)' = Due(i)
      BY <3>1 DEF Due
    <3> QED
      BY <2>b, <2>d, <3>1, <3>4, <3>5
  <2>9. ASSUME NEW j \in Item, SendDownloadDirect(j) PROVE Goal
    <3> DEFINE s == popup.moving[j]
    <3>1. /\ popup.direct[j] > 0 /\ s # 0 /\ s \in Sender /\ send[j][s] = 0
          /\ UNCHANGED <<send, history>>
      BY <2>9, <2>0, <2>a DEF SendDownloadDirect, OneTurn, Popup
    <3>2. /\ popup'.answer = popup.answer
          /\ \/ /\ popup'.direct = [popup.direct EXCEPT ![j] = 0]
                /\ popup'.moving = [popup.moving EXCEPT ![j] = 0]
             \/ /\ popup'.direct = [popup.direct EXCEPT ![j] = @ - 1]
                /\ popup'.moving = popup.moving
      BY <2>9, <2>0 DEF SendDownloadDirect, DirectDone, DirectNext, Popup
    <3>3. Unspent(i)' \subseteq Unspent(i)
      BY <3>1, <3>2, <2>0, <2>a DEF Unspent, Popup
    <3>4. CASE i # j \/ UNCHANGED received
      <4>1. received'[i] = received[i]
        BY <2>9, <2>0, <3>4 DEF SendDownloadDirect, Given
      <4>2. Due(i)' = Due(i) \/ (Due(i)' = Due(i) + 1)
        BY <2>9, <2>0, <2>b, <3>1 DEF SendDownloadDirect, Due, Late
      <4> QED
        BY <2>b, <2>d, <3>3, <4>1, <4>2
    <3>5. CASE i = j /\ Given(i) /\ UNCHANGED late
      <4>1. CASE popup' = [DirectDone(i) EXCEPT !.shown = @ \ {i}]
        <5>1. popup'.moving[i] = 0
          BY <4>1, <2>0, <2>a DEF DirectDone, Popup
        <5>2. s \in Unspent(i) /\ Unspent(i)' \subseteq Unspent(i) \ {s}
          BY <3>1, <3>3, <3>5, <5>1, <2>a DEF Unspent
        <5>3. received'[i] = received[i] + 1 /\ Due(i)' = Due(i)
          BY <3>1, <3>5, <2>0 DEF Given, Due
        <5> QED
          BY <2>f, <5>2, <5>3
      <4>2. CASE Late(i)
        BY <3>5, <4>2, <2>0, <2>a DEF Late
      <4>3. CASE UNCHANGED received
        BY <3>4, <4>3
      <4> QED
        BY <2>9, <3>5, <4>1, <4>2, <4>3 DEF SendDownloadDirect
    <3>6. CASE i = j /\ Given(i) /\ Late(i)
      <4>1. received'[i] = received[i] + 1 /\ Due(i)' = Due(i) + 1
        <5>1. received'[i] = received[i] + 1 /\ late'[i] = late[i] + 1
          BY <3>6, <2>0 DEF Given, Late
        <5> QED
          BY <3>1, <5>1, <2>b DEF Due
      <4> QED
        BY <2>g, <3>3, <4>1
    <3> QED
      BY <2>9, <3>4, <3>5, <3>6 DEF SendDownloadDirect
  <2>10. ASSUME NEW j \in Item, NEW s \in Sender, SendToThunderDM(j, s) PROVE Goal
    <3>1. send[j][s] > 0 /\ send[j][s] \in Nat /\ UNCHANGED history
      BY <2>10, <2>0, <2>a DEF SendToThunderDM
    <3>2. \/ /\ send' = [send EXCEPT ![j][s] = 0]
             /\ \E a \in Answer : AnswerPopup(j, s, a)
          \/ /\ send[j][s] > 1 /\ send' = [send EXCEPT ![j][s] = @ - 1] /\ popup' = popup
      BY <2>10, <2>0, <3>1 DEF SendToThunderDM, Accept, RouteFails, Disabled, Answer
    <3>3. /\ popup'.moving = popup.moving /\ popup'.direct = popup.direct
          /\ popup'.answer = popup.answer \/
             (popup.moving[j] = s /\ s # 0
              /\ \E a \in Answer : popup'.answer = [popup.answer EXCEPT ![j] = a])
      BY <3>2, <2>0, <2>a DEF AnswerPopup, Popup
    <3>4. Unspent(i)' \subseteq Unspent(i)
      <4>1. \A t \in Sender : send'[i][t] > 0 => send[i][t] > 0
        BY <3>1, <3>2, <2>0, <2>a
      <4>2. CASE popup'.answer = popup.answer
        BY <3>3, <4>1, <4>2 DEF Unspent
      <4>3. CASE /\ popup.moving[j] = s
                 /\ \E a \in Answer : popup'.answer = [popup.answer EXCEPT ![j] = a]
        <5>1. CASE i = j
          BY <3>1, <3>3, <4>1, <4>3, <5>1 DEF Unspent
        <5>2. CASE i # j
          BY <3>3, <4>1, <4>3, <5>2, <2>0 DEF Unspent, Popup
        <5> QED
          BY <5>1, <5>2
      <4> QED
        BY <3>3, <4>2, <4>3
    <3>5. CASE i # j \/ UNCHANGED received
      <4>1. received'[i] = received[i]
        BY <2>10, <2>0, <3>5 DEF SendToThunderDM, Given
      <4>2. Due(i)' = Due(i) \/ (Due(i)' = Due(i) + 1)
        BY <2>10, <2>0, <2>b, <3>1 DEF SendToThunderDM, Due, Late
      <4> QED
        BY <2>b, <2>d, <3>4, <4>1, <4>2
    <3>6. CASE i = j /\ Given(i) /\ Accept(i, s) /\ UNCHANGED late
      <4>1. send' = [send EXCEPT ![i][s] = 0] /\ AnswerPopup(i, s, "ok")
        BY <3>6 DEF Accept
      <4>2. s \in Unspent(i)
        BY <3>1, <3>6 DEF Unspent
      <4>3. s \notin Unspent(i)'
        <5>1. send'[i][s] = 0
          BY <4>1, <2>0
        <5>2. popup.moving[i] = s /\ s # 0 =>
                popup'.answer[i] = "ok" /\ popup'.direct[i] = 0
          BY <3>1, <3>3, <3>6, <4>1, <2>0, <2>a DEF AnswerPopup, OneTurn, Popup
        <5> QED
          BY <3>3, <5>1, <5>2, <2>a DEF Unspent
      <4>4. received'[i] = received[i] + 1 /\ Due(i)' = Due(i)
        BY <3>1, <3>6, <2>0 DEF Given, Due
      <4> QED
        BY <2>f, <3>4, <4>2, <4>3, <4>4
    <3>7. CASE i = j /\ Given(i) /\ Late(i)
      <4>1. received'[i] = received[i] + 1 /\ Due(i)' = Due(i) + 1
        <5>1. received'[i] = received[i] + 1 /\ late'[i] = late[i] + 1
          BY <3>7, <2>0 DEF Given, Late
        <5> QED
          BY <3>1, <5>1, <2>b DEF Due
      <4> QED
        BY <2>g, <3>4, <4>1
    <3> QED
      BY <2>10, <3>5, <3>6, <3>7 DEF SendToThunderDM
  <2> QED
    BY <2>h, <2>1, <2>2, <2>3, <2>5, <2>6, <2>7, <2>8, <2>9, <2>10
       DEF Next, vars, Wake, GraceOver, UrlExpires, CloseAlert, PageDownload, Ends,
           TriggerBrowserDownload, Removed
<1>3. TypeOK /\ Inv => NotSentAgain
  <2> SUFFICES ASSUME TypeOK, Inv, NEW i \in Item PROVE received[i] <= Due(i)
    BY DEF NotSentAgain, Due
  <2>1. received[i] \in Nat /\ Due(i) \in Int
    BY Bounds DEF TypeOK, Due
  <2>2. Cardinality(Unspent(i)) \in Nat
    <3>1. Unspent(i) \in SUBSET Sender /\ Catch \in Sender
      BY Bounds DEF Unspent, Catch, Sender
    <3> QED
      BY <3>1, UnspentCount
  <2> QED
    BY <2>1, <2>2 DEF Counted
<1> QED
  BY ExtensionTypeCorrect, <1>1, <1>2, <1>3, PTL DEF Spec

-----------------------------------------------------------------------------
\* The badges of the content script (VideoBadge): for any videos, any spots for their
\* badges and any order of pointer, page and configuration events.

\* Every reachable state has its type.
THEOREM BadgeTypeCorrect == BadgeSpec => []BadgeTypeOK
<1>1. BadgeInit => BadgeTypeOK
  <2> SUFFICES ASSUME BadgeInit PROVE BadgeTypeOK
    OBVIOUS
  <2>1. hover \in [shown: BOOLEAN, of: Video \cup {NoVideo}] /\ ~hover.shown
    BY DEF BadgeInit
  <2>2. {feed, over, timer, frame, settle, quiet} \subseteq BOOLEAN
    BY DEF BadgeInit
  <2>3. badges \in [Video -> {"none", "hidden", "shown"}]
    BY DEF BadgeInit
  <2> QED
    BY <2>1, <2>2, <2>3 DEF BadgeInit, BadgeTypeOK, Pointer
<1>2. BadgeTypeOK /\ [BadgeNext]_badgeVars => BadgeTypeOK'
  <2> SUFFICES ASSUME BadgeTypeOK, [BadgeNext]_badgeVars
               PROVE  BadgeTypeOK'
    OBVIOUS
  <2> USE DEF BadgeTypeOK, Pointer, Here, hovers, always, scene
  <2>0. /\ HideAll \in [Video -> {"none", "hidden", "shown"}]
        /\ Candidates \subseteq Video
    BY DEF HideAll, Candidates, InView
  <2>a. ASSUME UpdateAlwaysBadges
        PROVE  badges' \in [Video -> {"none", "hidden", "shown"}] /\ quiet' \in BOOLEAN
    BY <2>a, <2>0 DEF UpdateAlwaysBadges
  <2>1. ASSUME NEW p \in Pointer, MovePointer(p) PROVE BadgeTypeOK'
    <3>1. CASE p = "badge"
      BY <2>1, <3>1 DEF MovePointer
    <3>2. CASE p # "badge"
      <4>1. /\ pointer' = p /\ over' = (over /\ ~Leaves) /\ MouseMove(p)
            /\ UNCHANGED <<feed, mode, place, quiet, badges, dismissed, frame, settle>>
        BY <2>1, <3>2 DEF MovePointer
      <4>2. /\ hover' \in [shown: BOOLEAN, of: Video \cup {NoVideo}]
            /\ hover'.shown => hover'.of \in Video
            /\ timer' \in BOOLEAN
        <5>1. CASE hover' = hover /\ timer' = (timer \/ Leaves)
          BY <5>1 DEF Leaves
        <5>2. CASE p \in Video /\ ShowHoverBadgeForVideo(p)
          <6>1. CASE p \in InView
            <7>1. hover' = [shown |-> TRUE, of |-> p] /\ timer' = FALSE
              BY <5>2, <6>1 DEF ShowHoverBadgeForVideo
            <7>2. hover'.shown => hover'.of \in Video
              BY <5>2, <7>1
            <7> QED
              BY <5>2, <7>1, <7>2
          <6>2. CASE p \notin InView
            BY <5>2, <6>2 DEF ShowHoverBadgeForVideo, HideBadgeImmediately
          <6> QED
            BY <6>1, <6>2
        <5>3. CASE hover' = hover /\ timer' = (timer \/ Leaves \/ hover.shown)
          BY <5>3 DEF Leaves
        <5> QED
          BY <4>1, <5>1, <5>2, <5>3 DEF MouseMove
      <4>3. over' \in BOOLEAN
        BY <4>1 DEF Leaves
      <4> QED
        BY <4>1, <4>2, <4>3
    <3> QED
      BY <3>1, <3>2
  <2>2. CASE LeaveWindow
    BY <2>2 DEF LeaveWindow, Leaves
  <2>3. CASE HideTimer
    BY <2>3 DEF HideTimer, HideBadgeImmediately
  <2>4. CASE CloseHoverBadge
    BY <2>4 DEF CloseHoverBadge, HideBadgeImmediately
  <2>5. CASE BadgeRemoved
    BY <2>5 DEF BadgeRemoved
  <2>6. CASE AnimationFrame
    BY <2>6, <2>a DEF AnimationFrame, PageChanged
  <2>7. CASE Settled
    BY <2>7, <2>a DEF Settled, PageChanged
  <2>8. CASE Scroll
    <3>1. PICK to \in [Video -> Place \cup {OutOfView, Absent}] :
            /\ place' = to
            /\ pointer' = Under(Moved(to))
            /\ IF mode = "always"
                 THEN badges' = HideAll /\ settle' = TRUE
                 ELSE UNCHANGED <<badges, settle>>
            /\ \/ HideBadgeImmediately
               \/ UNCHANGED <<timer, hover>>
            /\ UNCHANGED <<feed, mode, quiet, over, dismissed, frame>>
      BY <2>8 DEF Scroll
    <3>2. /\ pointer' \in Pointer
          /\ badges' \in [Video -> {"none", "hidden", "shown"}]
          /\ settle' \in BOOLEAN
      BY <3>1, <2>0 DEF Under
    <3>3. /\ hover' \in [shown: BOOLEAN, of: Video \cup {NoVideo}]
          /\ hover'.shown => hover'.of \in Video
          /\ timer' \in BOOLEAN
      BY <3>1 DEF HideBadgeImmediately
    <3> QED
      BY <3>1, <3>2, <3>3
  <2>9. ASSUME NEW v \in Video, CloseAlwaysBadge(v) PROVE BadgeTypeOK'
    BY <2>9 DEF CloseAlwaysBadge
  <2>10. ASSUME NEW v \in Video, Mutation(v) PROVE BadgeTypeOK'
    BY <2>10 DEF Mutation, Under
  <2>11. ASSUME NEW v \in Video, Restyle(v) PROVE BadgeTypeOK'
    <3>1. PICK p \in Place \cup {OutOfView} : place' = [place EXCEPT ![v] = p]
      BY <2>11 DEF Restyle
    <3>2. place' \in [Video -> Place \cup {OutOfView, Absent}]
      BY <3>1
    <3>3. pointer' \in Pointer /\ quiet' = FALSE
      BY <2>11 DEF Restyle, Under
    <3> QED
      BY <2>11, <3>2, <3>3 DEF Restyle
  <2>12. ASSUME NEW m \in {"never", "hover", "always"}, OnConfigUpdated(m) PROVE BadgeTypeOK'
    BY <2>12, <2>0 DEF OnConfigUpdated, HideBadgeImmediately
  <2>13. CASE UNCHANGED badgeVars
    BY <2>13 DEF badgeVars
  <2> QED
    BY <2>1, <2>2, <2>3, <2>4, <2>5, <2>6, <2>7, <2>8, <2>9, <2>10, <2>11, <2>12, <2>13
       DEF BadgeNext
<1> QED
  BY <1>1, <1>2, PTL DEF BadgeSpec

-----------------------------------------------------------------------------
\* Hiding all badges, as a scroll or another mode does, leaves none drawn.
LEMMA NoneShown ==
  ASSUME badges' = HideAll
  PROVE  Shown' = {}
BY DEF HideAll, Shown

\* In "always" mode an update draws exactly one of the choices among the candidates.
LEMMA UpdateDrawsAccepted ==
  ASSUME UpdateAlwaysBadges, mode = "always"
  PROVE  Shown' \in Accepted(Candidates)
<1>1. PICK s \in Accepted(Candidates) :
        badges' = [v \in Video |->
          CASE v \in s -> "shown"
            [] v \in Here \ s /\ badges[v] # "none" -> "hidden"
            [] OTHER -> "none"]
  BY DEF UpdateAlwaysBadges
<1>2. s \subseteq Video
  BY <1>1 DEF Accepted, Candidates, InView
<1>3. Shown' = s
  BY <1>1, <1>2 DEF Shown
<1> QED
  BY <1>1, <1>3

\* Which badges a page may draw depends on its videos and what was dismissed alone.
LEMMA AcceptedUnchanged ==
  ASSUME UNCHANGED <<feed, place, dismissed>>
  PROVE  Accepted(Candidates)' = Accepted(Candidates)
BY DEF Accepted, Candidates, InView

-----------------------------------------------------------------------------
\* No badge is drawn in a mode that is not its own: whatever frame, timer or pointer
\* event was pending when the mode changed.
THEOREM BadgesKeepTheirMode == BadgeSpec => []OnlyInItsMode
<1> DEFINE Inv == /\ hover.shown => mode = "hover"
                  /\ Shown # {} => mode = "always"
<1>1. BadgeInit => Inv
  BY DEF BadgeInit, Shown
<1>2. BadgeTypeOK /\ Inv /\ [BadgeNext]_badgeVars => Inv'
  <2> SUFFICES ASSUME BadgeTypeOK, Inv, [BadgeNext]_badgeVars
               PROVE  Inv'
    OBVIOUS
  <2> USE DEF hovers, always, scene
  <2>a. ASSUME UNCHANGED badges PROVE Shown' = Shown
    BY <2>a DEF Shown
  <2>b. HideBadgeImmediately => ~hover'.shown
    BY DEF HideBadgeImmediately, BadgeTypeOK
  <2>1. ASSUME NEW p \in Pointer, MovePointer(p) PROVE Inv'
    <3>1. UNCHANGED <<mode, badges>>
      BY <2>1 DEF MovePointer
    <3>2. hover'.shown => mode = "hover"
      BY <2>1, <2>b DEF MovePointer, MouseMove, ShowHoverBadgeForVideo
    <3> QED
      BY <2>a, <3>1, <3>2
  <2>2. CASE LeaveWindow
    BY <2>2, <2>a DEF LeaveWindow
  <2>3. CASE HideTimer
    BY <2>3, <2>a, <2>b DEF HideTimer
  <2>4. CASE CloseHoverBadge
    BY <2>4, <2>a, <2>b DEF CloseHoverBadge
  <2>5. CASE BadgeRemoved
    BY <2>5, <2>a DEF BadgeRemoved, BadgeTypeOK
  <2>c. ASSUME UpdateAlwaysBadges, UNCHANGED <<mode, hover>> PROVE Inv'
    BY <2>c, NoneShown DEF UpdateAlwaysBadges
  <2>6. CASE AnimationFrame
    BY <2>6, <2>c DEF AnimationFrame
  <2>7. CASE Settled
    BY <2>7, <2>c DEF Settled
  <2>8. CASE Scroll
    BY <2>8, <2>a, <2>b, NoneShown DEF Scroll
  <2>9. ASSUME NEW v \in Video, CloseAlwaysBadge(v) PROVE Inv'
    BY <2>9 DEF CloseAlwaysBadge, Shown
  <2>10. ASSUME NEW v \in Video, Mutation(v) PROVE Inv'
    BY <2>10, <2>a DEF Mutation
  <2>11. ASSUME NEW v \in Video, Restyle(v) PROVE Inv'
    BY <2>11, <2>a DEF Restyle
  <2>12. ASSUME NEW m \in {"never", "hover", "always"}, OnConfigUpdated(m) PROVE Inv'
    BY <2>12, <2>a, <2>b, NoneShown DEF OnConfigUpdated
  <2>13. CASE UNCHANGED badgeVars
    BY <2>13, <2>a DEF badgeVars
  <2> QED
    BY <2>1, <2>2, <2>3, <2>4, <2>5, <2>6, <2>7, <2>8, <2>9, <2>10, <2>11, <2>12, <2>13
       DEF BadgeNext
<1>3. BadgeTypeOK /\ Inv => OnlyInItsMode
  BY DEF OnlyInItsMode
<1> QED
  BY BadgeTypeCorrect, <1>1, <1>2, <1>3, PTL DEF BadgeSpec

\* No update of the "always" badges is lost: once no frame and no settle timer is pending
\* and nothing has changed unannounced, the badges drawn are a choice among the videos in
\* view. Every change of the page either leaves an update pending or is an update.
THEOREM BadgesFollowVideos == BadgeSpec => []BadgesMatchVideos
<1>1. BadgeInit => BadgesMatchVideos
  BY DEF BadgeInit, BadgesMatchVideos
<1>2. BadgesMatchVideos /\ [BadgeNext]_badgeVars => BadgesMatchVideos'
  <2> SUFFICES ASSUME BadgesMatchVideos, [BadgeNext]_badgeVars
               PROVE  BadgesMatchVideos'
    OBVIOUS
  <2> USE DEF hovers, always, scene
  <2>a. ASSUME UNCHANGED <<mode, frame, settle, quiet, badges, feed, place, dismissed>>
        PROVE  BadgesMatchVideos'
    <3>1. Shown' = Shown
      BY <2>a DEF Shown
    <3> QED
      BY <2>a, <3>1, AcceptedUnchanged DEF BadgesMatchVideos
  <2>b. ASSUME UpdateAlwaysBadges, UNCHANGED <<mode, feed, place, dismissed>>
        PROVE  BadgesMatchVideos'
    BY <2>b, UpdateDrawsAccepted, AcceptedUnchanged DEF BadgesMatchVideos
  <2>1. ASSUME NEW p \in Pointer, MovePointer(p) PROVE BadgesMatchVideos'
    BY <2>1, <2>a DEF MovePointer
  <2>2. CASE LeaveWindow
    BY <2>2, <2>a DEF LeaveWindow
  <2>3. CASE HideTimer
    BY <2>3, <2>a DEF HideTimer
  <2>4. CASE CloseHoverBadge
    BY <2>4, <2>a DEF CloseHoverBadge
  <2>5. CASE BadgeRemoved
    BY <2>5, <2>a DEF BadgeRemoved
  <2>6. CASE AnimationFrame
    BY <2>6, <2>b DEF AnimationFrame
  <2>7. CASE Settled
    BY <2>7, <2>b DEF Settled
  <2>8. CASE Scroll
    BY <2>8 DEF Scroll, BadgesMatchVideos
  <2>9. ASSUME NEW v \in Video, CloseAlwaysBadge(v) PROVE BadgesMatchVideos'
    BY <2>9 DEF CloseAlwaysBadge, BadgesMatchVideos
  <2>10. ASSUME NEW v \in Video, Mutation(v) PROVE BadgesMatchVideos'
    BY <2>10 DEF Mutation, BadgesMatchVideos
  <2>11. ASSUME NEW v \in Video, Restyle(v) PROVE BadgesMatchVideos'
    BY <2>11 DEF Restyle, BadgesMatchVideos
  <2>12. ASSUME NEW m \in {"never", "hover", "always"}, OnConfigUpdated(m)
         PROVE  BadgesMatchVideos'
    BY <2>12 DEF OnConfigUpdated, BadgesMatchVideos
  <2>13. CASE UNCHANGED badgeVars
    BY <2>13, <2>a DEF badgeVars
  <2> QED
    BY <2>1, <2>2, <2>3, <2>4, <2>5, <2>6, <2>7, <2>8, <2>9, <2>10, <2>11, <2>12, <2>13
       DEF BadgeNext
<1> QED
  BY <1>1, <1>2, PTL DEF BadgeSpec

\* The hide timer does not run under a pointer that is over the badge: the badge's
\* mouseenter clears it, and the document's mousemove arms none while the pointer is there.
THEOREM TimerIsClearedUnderPointer == BadgeSpec => []NoTimerUnderPointer
<1>1. BadgeInit => NoTimerUnderPointer
  BY DEF BadgeInit, NoTimerUnderPointer
<1>2. BadgeTypeOK /\ NoTimerUnderPointer /\ [BadgeNext]_badgeVars => NoTimerUnderPointer'
  <2> SUFFICES ASSUME BadgeTypeOK, NoTimerUnderPointer, [BadgeNext]_badgeVars
               PROVE  NoTimerUnderPointer'
    OBVIOUS
  <2> USE DEF hovers, always, scene, NoTimerUnderPointer
  <2>a. {over, timer} \subseteq BOOLEAN
    BY DEF BadgeTypeOK
  <2>1. ASSUME NEW p \in Pointer, MovePointer(p) PROVE NoTimerUnderPointer'
    BY <2>1, <2>a DEF MovePointer, MouseMove, Leaves
  <2>2. CASE LeaveWindow
    BY <2>2, <2>a DEF LeaveWindow, Leaves
  <2>3. CASE HideTimer
    BY <2>3 DEF HideTimer, HideBadgeImmediately
  <2>4. CASE CloseHoverBadge
    BY <2>4 DEF CloseHoverBadge, HideBadgeImmediately
  <2>5. CASE BadgeRemoved
    BY <2>5 DEF BadgeRemoved
  <2>6. CASE AnimationFrame
    BY <2>6 DEF AnimationFrame
  <2>7. CASE Settled
    BY <2>7 DEF Settled
  <2>8. CASE Scroll
    BY <2>8 DEF Scroll, HideBadgeImmediately
  <2>9. ASSUME NEW v \in Video, CloseAlwaysBadge(v) PROVE NoTimerUnderPointer'
    BY <2>9 DEF CloseAlwaysBadge
  <2>10. ASSUME NEW v \in Video, Mutation(v) PROVE NoTimerUnderPointer'
    BY <2>10 DEF Mutation
  <2>11. ASSUME NEW v \in Video, Restyle(v) PROVE NoTimerUnderPointer'
    BY <2>11 DEF Restyle
  <2>12. ASSUME NEW m \in {"never", "hover", "always"}, OnConfigUpdated(m)
         PROVE  NoTimerUnderPointer'
    BY <2>12 DEF OnConfigUpdated, HideBadgeImmediately
  <2>13. CASE UNCHANGED badgeVars
    BY <2>13 DEF badgeVars
  <2> QED
    BY <2>1, <2>2, <2>3, <2>4, <2>5, <2>6, <2>7, <2>8, <2>9, <2>10, <2>11, <2>12, <2>13
       DEF BadgeNext
<1> QED
  BY BadgeTypeCorrect, <1>1, <1>2, PTL DEF BadgeSpec

-----------------------------------------------------------------------------
\* The settings of the extension (ExtensionConfig): for any choices and ports, any
\* number of writes and openings of the popup, and whether or not the browser carries
\* out a write before the message sent after it.

Call == [op: {"get"}, job: Job] \cup [op: {"set"}, job: Job, value: Config]
Event == [event: {"got"}, job: Job, value: Stored] \cup [event: {"done"}, job: Job]
           \cup [event: {"changed"}, value: Config]
Form == [open: BOOLEAN, shows: Config, cached: BOOLEAN, modified: BOOLEAN,
         asks: {"no", "storage"}, got: {<<>>} \cup ({"storage", "worker"} \X Stored)]
User == [choice: Choice, opens: Nat, writes: Nat]

\* Every queue of the settings holds what its reader understands.
Channels ==
  /\ storage \in Stored /\ cache \in Stored /\ config \in Config /\ page \in Config
  /\ ops \in Seq(Call) /\ inbox \in Seq(Event) /\ mail \in Seq(Job)
  /\ popupSets \in Seq(Config) /\ fromBrowser \in Seq(Stored)
  /\ fromWorker \in Seq(Config) /\ fromPopup \in Seq(Config)
  /\ form \in Form /\ user \in User

\* A queue that grows at its end keeps what it had.
LEMMA Grown ==
  ASSUME NEW T, NEW s \in Seq(T), NEW e \in T
  PROVE  /\ Append(s, e) \in Seq(T)
         /\ DOMAIN Append(s, e) = 1..Len(s) + 1 /\ DOMAIN s = 1..Len(s)
         /\ Len(s) \in Nat
         /\ \A k \in 1..Len(s) : Append(s, e)[k] = s[k]
         /\ Append(s, e)[Len(s) + 1] = e
OBVIOUS

\* A queue that gives its head keeps the rest, one place nearer.
LEMMA Shrunk ==
  ASSUME NEW T, NEW s \in Seq(T), s # <<>>
  PROVE  /\ Tail(s) \in Seq(T) /\ Head(s) \in T
         /\ DOMAIN s = 1..Len(s) /\ DOMAIN Tail(s) = 1..Len(s) - 1
         /\ Len(s) \in Nat \ {0}
         /\ Head(s) = s[1]
         /\ \A k \in 1..Len(s) - 1 : Tail(s)[k] = s[k + 1]
OBVIOUS

\* Two queues joined.
LEMMA Joined ==
  ASSUME NEW T, NEW s \in Seq(T), NEW t \in Seq(T)
  PROVE  /\ DOMAIN (s \o t) = 1..Len(s) + Len(t)
         /\ \A k \in 1..Len(s) : (s \o t)[k] = s[k]
         /\ \A k \in Len(s) + 1..Len(s) + Len(t) : (s \o t)[k] = t[k - Len(s)]
<1>1. /\ s \o t \in Seq(T) /\ Len(s \o t) = Len(s) + Len(t)
      /\ \A k \in 1..Len(s) + Len(t) :
           (s \o t)[k] = IF k <= Len(s) THEN s[k] ELSE t[k - Len(s)]
  BY ConcatProperties
<1>2. Len(s) \in Nat /\ Len(t) \in Nat
  OBVIOUS
<1> QED
  BY <1>1, <1>2

\* What a read or a write is about.
LEMMA JobFields ==
  ASSUME NEW j \in Job
  PROVE  (j.for = "all" => j.with \in Config) /\ (j.for = "port" => j.with \in Port)
<1>1. CASE j \in {Load, Tell("page")} \cup [for: {"popup"}, opening: Nat]
  BY <1>1 DEF Load, Tell
<1>2. CASE \E c \in Config : j = SetAll(c)
  BY <1>2 DEF SetAll
<1>3. CASE \E q \in Port : j = SetPort(q)
  BY <1>3 DEF SetPort
<1> QED
  BY <1>1, <1>2, <1>3 DEF Job

\* What a call of the worker to the storage carries.
LEMMA CallFields ==
  ASSUME NEW c \in Call
  PROVE  /\ c.op \in {"get", "set"} /\ c.job \in Job
         /\ c.op = "set" => c.value \in Config
BY DEF Call

\* What the browser tells the worker carries.
LEMMA EventFields ==
  ASSUME NEW m \in Event
  PROVE  /\ m.event \in {"got", "done", "changed"}
         /\ m.event = "got" => m.job \in Job /\ m.value \in Stored
         /\ m.event = "done" => m.job \in Job
         /\ m.event = "changed" => m.value \in Config
BY DEF Event

\* What the worker merges a read with are settings.
LEMMA MergedType ==
  ASSUME NEW j \in Job, NEW c \in Stored, config \in Config
  PROVE  Merged(j, c) \in Config
<1>1. (IF c = Empty THEN config ELSE c) \in Config
  BY DEF Stored
<1> QED
  BY <1>1, JobFields DEF Merged, Config

\* What the operators of the model build has its type.
LEMMA Settings ==
  /\ Default \in Config /\ Empty \notin Config
  /\ \A c \in Stored : OrDefault(c) \in Config
  /\ \A c \in Config, d \in Choice : [c EXCEPT !.choice = d] \in Config
  /\ \A c \in Config, q \in Port : [c EXCEPT !.port = q] \in Config
  /\ \A j \in Job : Get(j) \in Call
  /\ \A j \in Job, c \in Config : Put(c, j) \in Call
  /\ Load \in Job /\ Tell("page") \in Job /\ \A n \in Nat : TellPopup(n) \in Job
  /\ \A c \in Config : SetAll(c) \in Job
  /\ \A q \in Port : SetPort(q) \in Job
BY SettingsAssumption DEF Default, Config, Stored, OrDefault, Job, TellPopup, Call, Get, Put

\* The counters are numbers.
LEMMA Counters ==
  ASSUME NEW u \in User
  PROVE  /\ [u EXCEPT !.opens = @ + 1] \in User /\ [u EXCEPT !.writes = @ + 1] \in User
         /\ \A c \in Choice : [u EXCEPT !.choice = c, !.writes = @ + 1] \in User
<1>1. u.opens + 1 \in Nat /\ u.writes + 1 \in Nat
  BY DEF User
<1> QED
  BY <1>1 DEF User

\* What a step does to a queue of settings on its way to the page.
LEMMA Sent ==
  ASSUME NEW c \in Config
  PROVE  /\ \A s \in Seq(Config) : Append(s, c) \in Seq(Config)
         /\ \A s \in Seq(Stored) : Append(s, c) \in Seq(Stored)
BY DEF Stored

\* A write carried out keeps the types of what it changes.
LEMMA WriteType ==
  ASSUME Channels, NEW c \in Config, Write(c)
  PROVE  /\ storage' \in Stored /\ fromBrowser' \in Seq(Stored)
         /\ Changed(c) \in Seq(Event)
         /\ \A j \in Job : <<[event |-> "done", job |-> j]>> \in Seq(Event)
<1>1. [event |-> "changed", value |-> c] \in Event
  BY DEF Event
<1>2. Changed(c) \in Seq(Event)
  BY <1>1 DEF Changed
<1>3. storage' \in Stored /\ fromBrowser' \in Seq(Stored)
  BY Sent DEF Channels, Write, Stored
<1>4. \A j \in Job : [event |-> "done", job |-> j] \in Event
  BY DEF Event
<1> QED
  BY <1>2, <1>3, <1>4

\* A change the user makes in the popup keeps the types.
LEMMA BroadcastType ==
  ASSUME Channels, NEW c \in Config, BroadcastConfig(c), user' \in User
  PROVE  Channels'
<1>1. cache' \in Stored /\ form' \in Form
  BY DEF Channels, BroadcastConfig, Stored, Form
<1>2. popupSets' \in Seq(Config) /\ fromPopup' \in Seq(Config)
  BY Sent DEF Channels, BroadcastConfig
<1>3. mail' \in Seq(Job)
  BY Settings DEF Channels, BroadcastConfig
<1> QED
  BY <1>1, <1>2, <1>3 DEF Channels, BroadcastConfig

\* The worker's callbacks keep the types.
LEMMA HearsType == ASSUME Channels, WorkerHears PROVE Channels'
<1> DEFINE m == Head(inbox)
<1>1. m \in Event /\ inbox' \in Seq(Event)
  BY DEF Channels, WorkerHears
<1> HIDE DEF m
<1>2. config \in Config /\ ops \in Seq(Call) /\ fromWorker \in Seq(Config) /\ form \in Form
  BY DEF Channels
<1>3. CASE Got(m)
  <2> DEFINE c == Merged(m.job, m.value)
  <2>1. m.job \in Job /\ c \in Config
    BY <1>1, <1>2, <1>3, EventFields, MergedType DEF Got
  <2> HIDE DEF c
  <2>2. /\ config' = c
        /\ ops' = IF m.job.for \in {"all", "port"} THEN Append(ops, Put(c, m.job)) ELSE ops
        /\ fromWorker' = IF m.job.for = "page" THEN Append(fromWorker, c) ELSE fromWorker
        /\ form' = IF m.job.for = "popup" /\ form.open /\ m.job.opening = user.opens
                     THEN [form EXCEPT !.got = <<"worker", c>>] ELSE form
    BY <1>3 DEF Got, c
  <2>3. ops' \in Seq(Call)
    BY <1>2, <2>1, <2>2, Settings
  <2>4. fromWorker' \in Seq(Config)
    BY <1>2, <2>1, <2>2, Sent
  <2>5. form' \in Form
    BY <1>2, <2>1, <2>2 DEF Form, Stored
  <2> QED
    BY <1>1, <2>1, <2>2, <2>3, <2>4, <2>5 DEF Channels, WorkerHears
<1>4. CASE Done(m)
  <2>1. fromWorker' \in Seq(Config)
    BY <1>2, <1>4 DEF Done
  <2> QED
    BY <1>1, <1>4, <2>1 DEF Channels, WorkerHears, Done
<1>5. CASE OnChanged(m)
  BY <1>1, <1>5, EventFields DEF Channels, WorkerHears, OnChanged
<1> QED
  BY <1>3, <1>4, <1>5 DEF WorkerHears, m

\* What the popup does with the settings it read keeps the types.
LEMMA LoadsType == ASSUME Channels, PopupLoads PROVE Channels'
<1> DEFINE from == form.got[1]
           c == form.got[2]
<1>1. /\ form \in Form /\ cache \in Stored /\ popupSets \in Seq(Config)
      /\ mail \in Seq(Job) /\ user.opens \in Nat
  BY DEF Channels, User
<1>2. form.got # <<>> /\ c \in Stored /\ form.shows \in Config
  BY <1>1 DEF PopupLoads, Form
<1>0. UNCHANGED <<storage, ops, inbox, config, page, fromBrowser, fromWorker, fromPopup, user>>
  BY DEF PopupLoads, pages
<1> HIDE DEF c
<1>3. CASE c = Empty
  <2>1. /\ form' = [form EXCEPT !.got = <<>>]
        /\ popupSets' = IF form.cached THEN Append(popupSets, form.shows) ELSE popupSets
        /\ mail' = IF form.cached THEN mail ELSE Append(mail, TellPopup(user.opens))
        /\ cache' = cache
    BY <1>3 DEF PopupLoads, c
  <2>2. form' \in Form
    BY <1>1, <2>1 DEF Form
  <2>3. popupSets' \in Seq(Config) /\ mail' \in Seq(Job)
    BY <1>1, <1>2, <2>1, Settings
  <2> QED
    BY <1>0, <2>1, <2>2, <2>3 DEF Channels
<1>4. CASE c # Empty
  <2>1. /\ form' = [form EXCEPT !.got = <<>>, !.shows = IF form.modified THEN @ ELSE c]
        /\ cache' = IF form.modified THEN cache ELSE c
        /\ popupSets' = IF from = "worker" /\ ~form.modified
                          THEN Append(popupSets, c) ELSE popupSets
        /\ mail' = mail
    BY <1>4 DEF PopupLoads, c
  <2>2. c \in Config
    BY <1>2, <1>4 DEF Stored
  <2>3. form' \in Form
    BY <1>1, <2>1, <2>2 DEF Form
  <2>4. popupSets' \in Seq(Config) /\ cache' \in Stored
    BY <1>1, <1>2, <2>1, <2>2
  <2> QED
    BY <1>0, <2>1, <2>3, <2>4 DEF Channels
<1> QED
  BY <1>3, <1>4

\* Every reachable state of the settings has its type.
THEOREM SettingsTypeCorrect == SettingsSpec => []Channels
<1>1. SettingsInit => Channels
  <2> SUFFICES ASSUME SettingsInit PROVE Channels
    OBVIOUS
  <2>1. storage \in Stored /\ cache \in Stored
    BY Settings DEF SettingsInit, Stored
  <2>2. <<Get(Load)>> \in Seq(Call) /\ <<Tell("page")>> \in Seq(Job)
    BY Settings
  <2>3. form \in Form
    BY Settings DEF SettingsInit, Form
  <2>4. user \in User
    BY <2>1, Settings DEF SettingsInit, User, Config
  <2> QED
    BY <2>1, <2>2, <2>3, <2>4, Settings DEF SettingsInit, Channels
<1>2. Channels /\ [SettingsNext]_settingsVars => Channels'
  <2> SUFFICES ASSUME Channels, [SettingsNext]_settingsVars
               PROVE  Channels'
    OBVIOUS
  <2> USE DEF workers, popups, pages
  <2>1. CASE WorkerCall
    <3> DEFINE call == Head(ops)
    <3>1. call \in Call /\ ops' \in Seq(Call)
      BY <2>1 DEF Channels, WorkerCall
    <3> HIDE DEF call
    <3>2. CASE /\ call.op = "get"
               /\ inbox' = Append(inbox, [event |-> "got", job |-> call.job, value |-> storage])
               /\ UNCHANGED <<storage, fromBrowser>>
      <4>1. [event |-> "got", job |-> call.job, value |-> storage] \in Event
        BY <3>1, CallFields DEF Channels, Event
      <4>2. inbox' \in Seq(Event)
        BY <3>2, <4>1 DEF Channels
      <4> QED
        BY <2>1, <3>1, <3>2, <4>2 DEF Channels, WorkerCall
    <3>3. CASE /\ call.op = "set"
               /\ Write(call.value)
               /\ inbox' = inbox \o Changed(call.value)
                             \o <<[event |-> "done", job |-> call.job]>>
      <4>1. call.value \in Config /\ call.job \in Job
        BY <3>1, <3>3, CallFields
      <4>2. /\ storage' \in Stored /\ fromBrowser' \in Seq(Stored)
            /\ Changed(call.value) \in Seq(Event)
            /\ <<[event |-> "done", job |-> call.job]>> \in Seq(Event)
        BY <3>3, <4>1, WriteType
      <4>3. inbox' \in Seq(Event)
        BY <3>3, <4>2 DEF Channels
      <4> QED
        BY <2>1, <3>1, <4>2, <4>3 DEF Channels, WorkerCall
    <3> QED
      BY <2>1, <3>2, <3>3 DEF WorkerCall, call
  <2>2. CASE PopupWrites
    <3> DEFINE c == Head(popupSets)
    <3>1. c \in Config /\ popupSets' \in Seq(Config)
      BY <2>2 DEF Channels, PopupWrites
    <3> HIDE DEF c
    <3>2. Write(c) /\ inbox' = inbox \o Changed(c)
      BY <2>2 DEF PopupWrites, c
    <3>3. storage' \in Stored /\ fromBrowser' \in Seq(Stored) /\ Changed(c) \in Seq(Event)
      BY <3>1, <3>2, WriteType
    <3>4. inbox' \in Seq(Event)
      BY <3>2, <3>3 DEF Channels
    <3> QED
      BY <2>2, <3>1, <3>3, <3>4 DEF Channels, PopupWrites
  <2>3. CASE TakeMail
    <3>1. mail' \in Seq(Job) /\ Head(mail) \in Job
      BY <2>3 DEF Channels, TakeMail
    <3>2. ops' \in Seq(Call)
      BY <2>3, <3>1, Settings DEF Channels, TakeMail
    <3> QED
      BY <2>3, <3>1, <3>2 DEF Channels, TakeMail
  <2>4. CASE WorkerHears
    BY <2>4, HearsType
  <2>5. CASE WorkerRestarts
    <3>1. ops' \in Seq(Call)
      BY <2>5, Settings DEF WorkerRestarts
    <3> QED
      BY <2>5, <3>1, Settings DEF Channels, WorkerRestarts
  <2>6. CASE OpenForm
    <3>1. form' \in Form
      BY <2>6, Settings DEF Channels, OpenForm, Form
    <3>2. user' \in User
      BY <2>6, Counters DEF Channels, OpenForm
    <3> QED
      BY <2>6, <3>1, <3>2 DEF Channels, OpenForm
  <2>7. CASE CloseForm
    <3>1. form' \in Form
      BY <2>7 DEF Channels, CloseForm, Form
    <3> QED
      BY <2>7, <3>1 DEF Channels, CloseForm
  <2>8. CASE StorageAnswers
    <3>1. form' \in Form
      BY <2>8 DEF Channels, StorageAnswers, Form
    <3> QED
      BY <2>8, <3>1 DEF Channels, StorageAnswers
  <2>9. CASE PopupLoads
    BY <2>9, LoadsType
  <2>10. CASE PageHears
    <3>1. /\ fromBrowser # <<>> => Head(fromBrowser) \in Stored /\ Tail(fromBrowser) \in Seq(Stored)
          /\ fromWorker # <<>> => Head(fromWorker) \in Config /\ Tail(fromWorker) \in Seq(Config)
          /\ fromPopup # <<>> => Head(fromPopup) \in Config /\ Tail(fromPopup) \in Seq(Config)
      BY DEF Channels
    <3> QED
      BY <2>10, <3>1 DEF Channels, PageHears, Stored
  <2>11. ASSUME NEW q \in Port, WorkerFindsPort(q) PROVE Channels'
    <3>1. ops' \in Seq(Call)
      BY <2>11, Settings DEF Channels, WorkerFindsPort
    <3>2. user' \in User
      BY <2>11, Counters DEF Channels, WorkerFindsPort
    <3> QED
      BY <2>11, <3>1, <3>2 DEF Channels, WorkerFindsPort
  <2>12. ASSUME NEW q \in Port, PopupFindsPort(q) PROVE Channels'
    <3>1. [form.shows EXCEPT !.port = q] \in Config
      BY Settings DEF Channels, Form
    <3>2. user' \in User
      BY <2>12, Counters DEF Channels, PopupFindsPort
    <3> QED
      BY <2>12, <3>1, <3>2, BroadcastType DEF PopupFindsPort
  <2>13. ASSUME NEW c \in Choice, ChangeSetting(c) PROVE Channels'
    <3>1. [form.shows EXCEPT !.choice = c] \in Config
      BY Settings DEF Channels, Form
    <3>2. user' \in User
      BY <2>13, Counters DEF Channels, ChangeSetting
    <3> QED
      BY <2>13, <3>1, <3>2, BroadcastType DEF ChangeSetting
  <2>14. CASE UNCHANGED settingsVars
    BY <2>14 DEF Channels, settingsVars
  <2> QED
    BY <2>1, <2>2, <2>3, <2>4, <2>5, <2>6, <2>7, <2>8, <2>9, <2>10, <2>11, <2>12, <2>13,
       <2>14 DEF SettingsNext
<1> QED
  BY <1>1, <1>2, PTL DEF SettingsSpec

-----------------------------------------------------------------------------
\* WorkerKnowsStored. What the worker holds is what the storage holds, or it is about
\* to be: it is what the worker's own last write will store, or a read is under way.

Writes(j) == j.for \in {"all", "port"}

\* The last write under way is of c.
Putting(c) ==
  \E k \in DOMAIN ops :
    /\ ops[k].op = "set" /\ ops[k].value = c
    /\ \A l \in DOMAIN ops : l > k => ops[l].op = "get"

Reading == \E k \in DOMAIN ops : ops[k].op = "get"

\* What the browser read or changed last is what it stores.
NewsIsStored ==
  \A k \in DOMAIN inbox :
    /\ inbox[k].event # "done"
    /\ \A l \in DOMAIN inbox : l > k => inbox[l].event # "changed"
    => inbox[k].value = storage

HeardAll == \A k \in DOMAIN inbox : inbox[k].event = "done"

Knows == storage # Empty /\ HeardAll => config = storage \/ Putting(config) \/ Reading

\* As long as nothing is stored, the worker has its defaults or writes what it has.
OnlyReads == \A k \in DOMAIN inbox : inbox[k].event = "got" => ~Writes(inbox[k].job)

NothingStored ==
  storage = Empty =>
    /\ \A k \in DOMAIN inbox : inbox[k].event \in {"got", "done"}
    /\ OnlyReads => config = Default \/ Putting(config)

Learned == Channels /\ NewsIsStored /\ Knows /\ NothingStored

\* A read asked for is under way, and asking for it takes no write away.
LEMMA ReadAsked ==
  ASSUME ops \in Seq(Call), NEW j \in Job, ops' = Append(ops, Get(j))
  PROVE  Reading' /\ \A c \in Config : Putting(c) => Putting(c)'
<1>1. Get(j) \in Call /\ Get(j).op = "get"
  BY Settings DEF Get
<1>2. /\ DOMAIN ops' = 1..Len(ops) + 1 /\ DOMAIN ops = 1..Len(ops) /\ Len(ops) \in Nat
      /\ \A k \in 1..Len(ops) : ops'[k] = ops[k]
      /\ ops'[Len(ops) + 1] = Get(j)
  BY <1>1, Grown
<1>3. Reading'
  BY <1>1, <1>2 DEF Reading
<1>4. ASSUME NEW c \in Config, Putting(c) PROVE Putting(c)'
  <2>1. PICK k \in 1..Len(ops) :
          /\ ops[k].op = "set" /\ ops[k].value = c
          /\ \A l \in 1..Len(ops) : l > k => ops[l].op = "get"
    BY <1>2, <1>4 DEF Putting
  <2>2. \A l \in 1..Len(ops) + 1 : l > k => ops'[l].op = "get"
    BY <1>1, <1>2, <2>1
  <2> QED
    BY <1>2, <2>1, <2>2 DEF Putting
<1> QED
  BY <1>3, <1>4

\* A write asked for is the last one.
LEMMA WriteAsked ==
  ASSUME ops \in Seq(Call), NEW j \in Job, NEW c \in Config, ops' = Append(ops, Put(c, j))
  PROVE  Putting(c)'
<1>1. Put(c, j) \in Call /\ Put(c, j).op = "set" /\ Put(c, j).value = c
  BY Settings DEF Put
<1>2. DOMAIN ops' = 1..Len(ops) + 1 /\ Len(ops) \in Nat /\ ops'[Len(ops) + 1] = Put(c, j)
  BY <1>1, Grown
<1> QED
  BY <1>1, <1>2 DEF Putting

\* A call carried out leaves the others under way.
LEMMA CarriedOut ==
  ASSUME ops \in Seq(Call), ops # <<>>, ops' = Tail(ops)
  PROVE  /\ Head(ops).op = "set" /\ Reading => Reading'
         /\ \A c \in Config :
              Putting(c) => Putting(c)' \/ (Head(ops).op = "set" /\ Head(ops).value = c)
<1>1. /\ DOMAIN ops = 1..Len(ops) /\ DOMAIN ops' = 1..Len(ops) - 1
      /\ Len(ops) \in Nat \ {0} /\ Head(ops) = ops[1]
      /\ \A k \in 1..Len(ops) - 1 : ops'[k] = ops[k + 1]
  BY Shrunk
<1>2. ASSUME NEW k \in 1..Len(ops), k # 1 PROVE k - 1 \in 1..Len(ops) - 1 /\ ops'[k - 1] = ops[k]
  BY <1>1, <1>2
<1>3. ASSUME Head(ops).op = "set", Reading PROVE Reading'
  <2>1. PICK k \in 1..Len(ops) : ops[k].op = "get"
    BY <1>1, <1>3 DEF Reading
  <2>2. k # 1
    BY <1>1, <1>3, <2>1
  <2> QED
    BY <1>1, <1>2, <2>1, <2>2 DEF Reading
<1>4. ASSUME NEW c \in Config, Putting(c), ~(Head(ops).op = "set" /\ Head(ops).value = c)
      PROVE  Putting(c)'
  <2>1. PICK k \in 1..Len(ops) :
          /\ ops[k].op = "set" /\ ops[k].value = c
          /\ \A l \in 1..Len(ops) : l > k => ops[l].op = "get"
    BY <1>1, <1>4 DEF Putting
  <2>2. k # 1
    BY <1>1, <1>4, <2>1
  <2>3. \A l \in 1..Len(ops) - 1 : l > k - 1 => ops'[l].op = "get"
    BY <1>1, <2>1
  <2>4. k - 1 \in 1..Len(ops) - 1 /\ ops'[k - 1] = ops[k]
    BY <1>2, <2>2
  <2> QED
    BY <1>1, <2>1, <2>3, <2>4 DEF Putting
<1> QED
  BY <1>3, <1>4

\* A read carried out brings the news of this moment.
LEMMA ReadDone ==
  ASSUME Learned, NEW j \in Job, UNCHANGED <<storage, config>>,
         inbox' = Append(inbox, [event |-> "got", job |-> j, value |-> storage])
  PROVE  /\ NewsIsStored' /\ ~HeardAll'
         /\ OnlyReads' => OnlyReads
         /\ storage = Empty => \A k \in DOMAIN inbox' : inbox'[k].event \in {"got", "done"}
<1> DEFINE m == [event |-> "got", job |-> j, value |-> storage]
<1>1. m \in Event /\ m.event = "got" /\ m.value = storage
  BY DEF Learned, Channels, Event
<1> HIDE DEF m
<1>2. /\ DOMAIN inbox' = 1..Len(inbox) + 1 /\ DOMAIN inbox = 1..Len(inbox)
      /\ Len(inbox) \in Nat
      /\ \A k \in 1..Len(inbox) : inbox'[k] = inbox[k]
      /\ inbox'[Len(inbox) + 1] = m
  BY <1>1, Grown DEF Learned, Channels, m
<1>3. NewsIsStored'
  <2> SUFFICES ASSUME NEW k \in 1..Len(inbox) + 1, inbox'[k].event # "done",
                      \A l \in 1..Len(inbox) + 1 : l > k => inbox'[l].event # "changed"
               PROVE  inbox'[k].value = storage
    BY <1>2 DEF NewsIsStored
  <2>1. CASE k = Len(inbox) + 1
    BY <1>1, <1>2, <2>1
  <2>2. CASE k \in 1..Len(inbox)
    <3>1. inbox[k].event # "done" /\ \A l \in 1..Len(inbox) : l > k => inbox[l].event # "changed"
      BY <1>2, <2>2
    <3> QED
      BY <1>2, <2>2, <3>1 DEF Learned, NewsIsStored
  <2> QED
    BY <1>2, <2>1, <2>2
<1>4. ~HeardAll'
  BY <1>1, <1>2 DEF HeardAll
<1>5. OnlyReads' => OnlyReads
  BY <1>2 DEF OnlyReads
<1>6. storage = Empty => \A k \in 1..Len(inbox) + 1 : inbox'[k].event \in {"got", "done"}
  BY <1>1, <1>2 DEF Learned, NothingStored
<1> QED
  BY <1>2, <1>3, <1>4, <1>5, <1>6

\* A write carried out: it is told to the worker when it changed something.
LEMMA WriteDone ==
  ASSUME Learned, NEW c \in Config, Write(c), NEW t \in Seq(Event),
         \A k \in DOMAIN t : t[k].event = "done",
         inbox' = inbox \o Changed(c) \o t
  PROVE  NewsIsStored' /\ storage' = c /\ (HeardAll' => HeardAll /\ c = storage)
<1> DEFINE n == Len(inbox)
           m == [event |-> "changed", value |-> c]
<1>0. /\ inbox \in Seq(Event) /\ n \in Nat /\ DOMAIN inbox = 1..n
      /\ Len(t) \in Nat /\ \A k \in 1..Len(t) : t[k].event = "done"
      /\ storage' = c
  BY DEF Learned, Channels, Write
<1>1. CASE c = storage
  <2>1. inbox' = inbox \o t
    BY <1>0, <1>1 DEF Changed
  <2>2. /\ DOMAIN inbox' = 1..n + Len(t)
        /\ \A k \in 1..n : inbox'[k] = inbox[k]
        /\ \A k \in n + 1..n + Len(t) : inbox'[k].event = "done"
    <3>1. /\ DOMAIN inbox' = 1..n + Len(t)
          /\ \A k \in 1..n : inbox'[k] = inbox[k]
          /\ \A k \in n + 1..n + Len(t) : inbox'[k] = t[k - n]
      BY <1>0, <2>1, Joined
    <3> HIDE DEF n
    <3>2. \A k \in n + 1..n + Len(t) : k - n \in 1..Len(t)
      BY <1>0
    <3> QED
      BY <1>0, <3>1, <3>2
  <2> HIDE DEF n
  <2>3. NewsIsStored'
    <3> SUFFICES ASSUME NEW k \in 1..n + Len(t), inbox'[k].event # "done",
                        \A l \in 1..n + Len(t) : l > k => inbox'[l].event # "changed"
                 PROVE  inbox'[k].value = c
      BY <1>0, <2>2 DEF NewsIsStored
    <3>1. k \in 1..n
      BY <1>0, <2>2
    <3>2. inbox[k].event # "done" /\ \A l \in 1..n : l > k => inbox[l].event # "changed"
      BY <1>0, <2>2, <3>1
    <3> QED
      BY <1>0, <1>1, <2>2, <3>1, <3>2 DEF Learned, NewsIsStored
  <2>4. HeardAll' => HeardAll
    BY <1>0, <2>2 DEF HeardAll
  <2> QED
    BY <1>0, <1>1, <2>3, <2>4
<1>2. CASE c # storage
  <2>1. m \in Event /\ m.event = "changed" /\ m.value = c
    BY DEF Event
  <2>2. inbox' = inbox \o <<m>> \o t
    BY <1>2 DEF Changed
  <2> HIDE DEF m
  <2>3. /\ DOMAIN inbox' = 1..n + 1 + Len(t)
        /\ inbox'[n + 1] = m
        /\ \A k \in n + 2..n + 1 + Len(t) : inbox'[k].event = "done"
    <3>1. inbox \o <<m>> \in Seq(Event) /\ Len(inbox \o <<m>>) = n + 1
          /\ (inbox \o <<m>>)[n + 1] = m
      BY <1>0, <2>1
    <3>2. /\ DOMAIN inbox' = 1..n + 1 + Len(t)
          /\ \A k \in 1..n + 1 : inbox'[k] = (inbox \o <<m>>)[k]
          /\ \A k \in n + 1 + 1..n + 1 + Len(t) : inbox'[k] = t[k - (n + 1)]
      BY <1>0, <2>2, <3>1, Joined
    <3> HIDE DEF n
    <3>3. \A k \in n + 2..n + 1 + Len(t) :
            k \in n + 1 + 1..n + 1 + Len(t) /\ k - (n + 1) \in 1..Len(t)
      BY <1>0
    <3>4. n + 1 \in 1..n + 1
      BY <1>0
    <3> QED
      BY <1>0, <3>1, <3>2, <3>3, <3>4
  <2> HIDE DEF n
  <2>4. NewsIsStored'
    <3> SUFFICES ASSUME NEW k \in 1..n + 1 + Len(t), inbox'[k].event # "done",
                        \A l \in 1..n + 1 + Len(t) : l > k => inbox'[l].event # "changed"
                 PROVE  inbox'[k].value = c
      BY <1>0, <2>3 DEF NewsIsStored
    <3>1. k = n + 1
      BY <1>0, <2>1, <2>3
    <3> QED
      BY <2>1, <2>3, <3>1
  <2>5. ~HeardAll'
    <3>1. n + 1 \in DOMAIN inbox'
      BY <1>0, <2>3
    <3> QED
      BY <2>1, <2>3, <3>1 DEF HeardAll
  <2> QED
    BY <1>0, <2>4, <2>5
<1> QED
  BY <1>1, <1>2

\* The worker hears an event: what is left is as new as before.
LEMMA EventHeard ==
  ASSUME Learned, inbox # <<>>, inbox' = Tail(inbox), storage' = storage
  PROVE  /\ Head(inbox) \in Event
         /\ NewsIsStored'
         /\ HeardAll' => IF Head(inbox).event = "done" THEN HeardAll
                                                      ELSE Head(inbox).value = storage
         /\ storage = Empty =>
              /\ \A k \in DOMAIN inbox' : inbox'[k].event \in {"got", "done"}
              /\ Head(inbox).event \in {"got", "done"}
              /\ Head(inbox).event = "got" => Head(inbox).value = Empty
         /\ OnlyReads' /\ ~OnlyReads =>
              Head(inbox).event = "got" /\ Writes(Head(inbox).job)
<1> DEFINE n == Len(inbox)
<1>1. /\ DOMAIN inbox = 1..n /\ DOMAIN inbox' = 1..n - 1
      /\ n \in Nat \ {0} /\ Head(inbox) = inbox[1] /\ Head(inbox) \in Event
      /\ \A k \in 1..n - 1 : inbox'[k] = inbox[k + 1]
  BY Shrunk DEF Learned, Channels
<1> HIDE DEF n
<1>2. ASSUME NEW k \in 1..n, k # 1 PROVE k - 1 \in 1..n - 1 /\ inbox'[k - 1] = inbox[k]
  BY <1>1, <1>2
<1>3. NewsIsStored'
  <2> SUFFICES ASSUME NEW k \in 1..n - 1, inbox'[k].event # "done",
                      \A l \in 1..n - 1 : l > k => inbox'[l].event # "changed"
               PROVE  inbox'[k].value = storage
    BY <1>1 DEF NewsIsStored
  <2>1. k + 1 \in 1..n /\ inbox[k + 1] = inbox'[k]
    BY <1>1
  <2>2. ASSUME NEW l \in 1..n, l > k + 1 PROVE inbox[l].event # "changed"
    <3>1. l - 1 \in 1..n - 1 /\ l - 1 > k /\ inbox'[l - 1] = inbox[l]
      BY <1>1, <1>2, <2>2
    <3> QED
      BY <3>1
  <2> QED
    BY <1>1, <2>1, <2>2 DEF Learned, NewsIsStored
<1>4. ASSUME HeardAll' PROVE \A k \in 1..n : k # 1 => inbox[k].event = "done"
  BY <1>1, <1>2, <1>4 DEF HeardAll
<1>5. ASSUME HeardAll', Head(inbox).event = "done" PROVE HeardAll
  BY <1>1, <1>4, <1>5 DEF HeardAll
<1>6. ASSUME HeardAll', Head(inbox).event # "done" PROVE Head(inbox).value = storage
  <2>1. \A l \in 1..n : l > 1 => inbox[l].event # "changed"
    BY <1>1, <1>4, <1>6
  <2> QED
    BY <1>1, <1>6, <2>1 DEF Learned, NewsIsStored
<1>7. ASSUME storage = Empty
      PROVE  /\ \A k \in 1..n - 1 : inbox'[k].event \in {"got", "done"}
             /\ Head(inbox).event \in {"got", "done"}
             /\ Head(inbox).event = "got" => Head(inbox).value = Empty
  <2>1. \A k \in 1..n : inbox[k].event \in {"got", "done"}
    BY <1>1, <1>7 DEF Learned, NothingStored
  <2>2. \A k \in 1..n - 1 : inbox'[k].event \in {"got", "done"}
    BY <1>1, <2>1
  <2>3. \A l \in 1..n : l > 1 => inbox[l].event # "changed"
    BY <2>1
  <2> QED
    BY <1>1, <1>7, <2>1, <2>2, <2>3 DEF Learned, NewsIsStored
<1>8. ASSUME OnlyReads', ~(Head(inbox).event = "got" /\ Writes(Head(inbox).job))
      PROVE  OnlyReads
  BY <1>1, <1>2, <1>8 DEF OnlyReads
<1> QED
  BY <1>1, <1>3, <1>5, <1>6, <1>7, <1>8

\* One call of the worker is carried out by the browser.
LEMMA CallLearned == ASSUME Learned, WorkerCall PROVE (NewsIsStored /\ Knows /\ NothingStored)'
<1> DEFINE call == Head(ops)
<1>1. /\ ops \in Seq(Call) /\ ops # <<>> /\ ops' = Tail(ops) /\ call \in Call
      /\ config' = config /\ config \in Config
  BY DEF Learned, Channels, WorkerCall
<1>2. call.op \in {"get", "set"} /\ call.job \in Job /\ (call.op = "set" => call.value \in Config)
  BY <1>1, CallFields
<1>3. /\ call.op = "set" /\ Reading => Reading'
      /\ Putting(config) => Putting(config)' \/ (call.op = "set" /\ call.value = config)
  BY <1>1, CarriedOut
<1> HIDE DEF call
<1>4. CASE /\ call.op = "get"
           /\ inbox' = Append(inbox, [event |-> "got", job |-> call.job, value |-> storage])
           /\ UNCHANGED <<storage, fromBrowser>>
  <2>1. /\ NewsIsStored' /\ ~HeardAll' /\ (OnlyReads' => OnlyReads)
        /\ storage = Empty => \A k \in DOMAIN inbox' : inbox'[k].event \in {"got", "done"}
    BY <1>1, <1>2, <1>4, ReadDone
  <2>2. Putting(config) => Putting(config)'
    BY <1>3, <1>4
  <2>3. NothingStored'
    <3> SUFFICES ASSUME storage = Empty, OnlyReads' PROVE config = Default \/ Putting(config)'
      BY <1>1, <1>4, <2>1 DEF NothingStored
    <3> QED
      BY <2>1, <2>2 DEF Learned, NothingStored
  <2> QED
    BY <2>1, <2>3 DEF Knows
<1>5. CASE /\ call.op = "set"
           /\ Write(call.value)
           /\ inbox' = inbox \o Changed(call.value)
                         \o <<[event |-> "done", job |-> call.job]>>
  <2> DEFINE t == <<[event |-> "done", job |-> call.job]>>
  <2>1. t \in Seq(Event) /\ \A k \in DOMAIN t : t[k].event = "done"
    BY <1>2 DEF Event
  <2> HIDE DEF t
  <2>2. inbox' = inbox \o Changed(call.value) \o t
    BY <1>5 DEF t
  <2>3. NewsIsStored' /\ storage' = call.value /\ (HeardAll' => HeardAll /\ call.value = storage)
    BY <1>2, <1>5, <2>1, <2>2, WriteDone
  <2>4. storage' # Empty
    BY <1>2, <1>5, <2>3, Settings
  <2>5. Knows'
    <3> SUFFICES ASSUME HeardAll' PROVE config = storage' \/ Putting(config)' \/ Reading'
      BY <1>1 DEF Knows
    <3>1. HeardAll /\ storage = storage' /\ storage # Empty
      BY <2>3, <2>4
    <3>2. config = storage \/ Putting(config) \/ Reading
      BY <3>1 DEF Learned, Knows
    <3> QED
      BY <1>3, <1>5, <2>3, <3>1, <3>2
  <2> QED
    BY <2>3, <2>4, <2>5 DEF NothingStored
<1> QED
  BY <1>4, <1>5 DEF WorkerCall, call

\* A callback of the worker is handled.
LEMMA HearsLearned == ASSUME Learned, WorkerHears PROVE (NewsIsStored /\ Knows /\ NothingStored)'
<1> DEFINE m == Head(inbox)
<1>1. inbox # <<>> /\ inbox' = Tail(inbox) /\ storage' = storage
  BY DEF WorkerHears
<1>2. /\ m \in Event
      /\ NewsIsStored'
      /\ HeardAll' => IF m.event = "done" THEN HeardAll ELSE m.value = storage
      /\ storage = Empty =>
           /\ \A k \in DOMAIN inbox' : inbox'[k].event \in {"got", "done"}
           /\ m.event \in {"got", "done"}
           /\ m.event = "got" => m.value = Empty
      /\ OnlyReads' /\ ~OnlyReads => m.event = "got" /\ Writes(m.job)
  BY <1>1, EventHeard
<1>3. Got(m) \/ Done(m) \/ OnChanged(m)
  BY DEF WorkerHears
<1> HIDE DEF m
<1>4. ops \in Seq(Call) /\ config \in Config /\ storage \in Stored
  BY DEF Learned, Channels
<1>5. CASE Got(m)
  <2>0. m.event = "got" /\ m.job \in Job /\ m.value \in Stored
    BY <1>2, <1>5, EventFields DEF Got
  <2>1. PICK c \in Config : c = Merged(m.job, m.value) /\ config' = c
    BY <1>4, <1>5, <2>0, MergedType DEF Got
  <2>2. CASE Writes(m.job)
    <3>1. ops' = Append(ops, Put(c, m.job))
      BY <1>5, <2>1, <2>2 DEF Got, Writes
    <3>2. Putting(c)'
      BY <1>4, <2>0, <3>1, WriteAsked
    <3>3. Putting(config)'
      BY <2>1, <3>2 DEF Putting
    <3>4. Knows' /\ NothingStored'
      BY <1>1, <1>2, <3>3 DEF Knows, NothingStored
    <3> QED
      BY <1>2, <3>4
  <2>3. CASE ~Writes(m.job)
    <3>1. ops' = ops /\ c = IF m.value = Empty THEN config ELSE m.value
      BY <1>5, <2>1, <2>3 DEF Got, Writes, Merged
    <3>2. Knows'
      BY <1>1, <1>2, <2>0, <2>1, <3>1 DEF Knows
    <3>3. NothingStored'
      <4> SUFFICES ASSUME storage = Empty, OnlyReads'
                   PROVE  config' = Default \/ Putting(config)'
        BY <1>1, <1>2 DEF NothingStored
      <4>1. config' = config /\ OnlyReads
        BY <1>2, <2>0, <2>1, <2>3, <3>1
      <4>2. config = Default \/ Putting(config)
        BY <4>1 DEF Learned, NothingStored
      <4> QED
        BY <3>1, <4>1, <4>2 DEF Putting
    <3> QED
      BY <1>2, <3>2, <3>3
  <2> QED
    BY <2>2, <2>3
<1>6. CASE Done(m)
  <2>1. m.event = "done" /\ config' = config /\ ops' = ops
    BY <1>6 DEF Done
  <2>2. /\ HeardAll' => HeardAll
        /\ OnlyReads' => OnlyReads
    BY <1>2, <2>1
  <2>3. (Putting(config) => Putting(config)') /\ (Reading => Reading')
    BY <2>1 DEF Putting, Reading
  <2>4. Knows'
    BY <1>1, <2>1, <2>2, <2>3 DEF Learned, Knows
  <2>5. NothingStored'
    BY <1>1, <1>2, <2>1, <2>2, <2>3 DEF Learned, NothingStored
  <2> QED
    BY <1>2, <2>4, <2>5
<1>7. CASE OnChanged(m)
  <2>1. m.event = "changed" /\ config' = m.value
    BY <1>7 DEF OnChanged
  <2>2. storage # Empty
    BY <1>2, <2>1
  <2> QED
    BY <1>1, <1>2, <2>1, <2>2 DEF Knows, NothingStored
<1> QED
  BY <1>3, <1>5, <1>6, <1>7

\* Every step keeps what the worker holds in step with the storage.
LEMMA LearnedStep ==
  ASSUME Learned, [SettingsNext]_settingsVars
  PROVE  (NewsIsStored /\ Knows /\ NothingStored)'
<1> USE DEF workers, popups, pages
<1>1. ASSUME UNCHANGED <<storage, ops, inbox, config>>
      PROVE  (NewsIsStored /\ Knows /\ NothingStored)'
  BY <1>1 DEF Learned, NewsIsStored, Knows, NothingStored, HeardAll, OnlyReads, Putting, Reading
<1>2. ASSUME NEW j \in Job, ops' = Append(ops, Get(j)), UNCHANGED <<storage, inbox, config>>
      PROVE  (NewsIsStored /\ Knows /\ NothingStored)'
  <2>1. Reading' /\ \A c \in Config : Putting(c) => Putting(c)'
    BY <1>2, ReadAsked DEF Learned, Channels
  <2>2. config \in Config /\ config' = config
    BY <1>2 DEF Learned, Channels
  <2>3. NewsIsStored' /\ Knows'
    BY <1>2, <2>1 DEF Learned, NewsIsStored, Knows
  <2>4. NothingStored'
    <3>1. OnlyReads' => OnlyReads
      BY <1>2 DEF OnlyReads
    <3> QED
      BY <1>2, <2>1, <2>2, <3>1 DEF Learned, NothingStored
  <2> QED
    BY <2>3, <2>4
<1>3. CASE WorkerCall
  BY <1>3, CallLearned
<1>4. CASE PopupWrites
  <2> DEFINE c == Head(popupSets)
  <2>1. c \in Config
    BY <1>4 DEF Learned, Channels, PopupWrites
  <2> HIDE DEF c
  <2>2. Write(c) /\ inbox' = inbox \o Changed(c) /\ UNCHANGED <<ops, config>>
    BY <1>4 DEF PopupWrites, c
  <2>3. inbox' = inbox \o Changed(c) \o <<>>
    <3>1. inbox \o Changed(c) \in Seq(Event)
      BY <2>1, <2>2, WriteType DEF Learned, Channels
    <3> QED
      BY <2>2, <3>1
  <2>4. <<>> \in Seq(Event) /\ \A k \in DOMAIN <<>> : <<>>[k].event = "done"
    OBVIOUS
  <2>5. NewsIsStored' /\ storage' = c /\ (HeardAll' => HeardAll /\ c = storage)
    BY <2>1, <2>2, <2>3, <2>4, WriteDone
  <2>6. storage' # Empty
    BY <2>1, <2>5, Settings
  <2>7. Knows'
    BY <2>2, <2>5, <2>6 DEF Learned, Knows, Putting, Reading
  <2> QED
    BY <2>5, <2>6, <2>7 DEF NothingStored
<1>5. CASE TakeMail
  <2>1. Head(mail) \in Job
    BY <1>5 DEF Learned, Channels, TakeMail
  <2> QED
    BY <1>2, <1>5, <2>1 DEF TakeMail
<1>6. CASE WorkerHears
  BY <1>6, HearsLearned
<1>7. CASE WorkerRestarts
  <2>1. /\ ops = <<>> /\ ops' = Append(ops, Get(Load)) /\ inbox = <<>>
        /\ inbox' = inbox /\ storage' = storage /\ config' = Default
    BY <1>7 DEF WorkerRestarts
  <2>2. Reading'
    BY <2>1, ReadAsked, Settings DEF Learned, Channels
  <2> QED
    BY <2>1, <2>2 DEF NewsIsStored, Knows, NothingStored
<1>8. ASSUME NEW q \in Port, WorkerFindsPort(q) PROVE (NewsIsStored /\ Knows /\ NothingStored)'
  <2>1. SetPort(q) \in Job
    BY Settings
  <2> QED
    BY <1>2, <1>8, <2>1 DEF WorkerFindsPort
<1>9. CASE OpenForm \/ CloseForm \/ StorageAnswers \/ PopupLoads \/ PageHears
  BY <1>1, <1>9 DEF OpenForm, CloseForm, StorageAnswers, PopupLoads, PageHears
<1>10. ASSUME NEW q \in Port, PopupFindsPort(q) PROVE UNCHANGED <<storage, ops, inbox, config>>
  BY <1>10 DEF PopupFindsPort, BroadcastConfig
<1>11. ASSUME NEW c \in Choice, ChangeSetting(c) PROVE UNCHANGED <<storage, ops, inbox, config>>
  BY <1>11 DEF ChangeSetting, BroadcastConfig
<1>12. CASE UNCHANGED settingsVars
  BY <1>1, <1>12 DEF settingsVars
<1> QED
  BY <1>1, <1>3, <1>4, <1>5, <1>6, <1>7, <1>8, <1>9, <1>10, <1>11, <1>12 DEF SettingsNext

\* What the worker has learned, in every state.
LEMMA LearnedAlways == SettingsSpec => []Learned
<1>1. SettingsInit /\ Channels => Learned
  <2> SUFFICES ASSUME SettingsInit, Channels PROVE NewsIsStored /\ Knows /\ NothingStored
    BY DEF Learned
  <2>1. Reading
    BY DEF SettingsInit, Reading, Get
  <2> QED
    BY <2>1 DEF SettingsInit, NewsIsStored, Knows, NothingStored
<1>2. Learned /\ [SettingsNext]_settingsVars /\ Channels' => Learned'
  BY LearnedStep DEF Learned
<1> QED
  BY SettingsTypeCorrect, <1>1, <1>2, PTL DEF SettingsSpec

\* When every message has been handled, the worker of the extension works with the
\* settings that are stored, however its reads and writes, the popup's writes and the
\* browser's change events were interleaved.
THEOREM WorkerLearns == SettingsSpec => []WorkerKnowsStored
<1>1. Learned => WorkerKnowsStored
  <2> SUFFICES ASSUME Learned PROVE WorkerKnowsStored
    OBVIOUS
  <2>1. SettingsTypeOK
    <3>1. \A k \in DOMAIN ops : ops[k].job \in Job
      BY CallFields DEF Learned, Channels
    <3> QED
      BY <3>1 DEF Learned, Channels, SettingsTypeOK, Form, User
  <2>2. ASSUME Quiet PROVE config = OrDefault(storage)
    <3>1. HeardAll /\ OnlyReads /\ ~Reading /\ ~Putting(config)
      BY <2>2 DEF Quiet, HeardAll, OnlyReads, Reading, Putting
    <3> QED
      BY <3>1 DEF Learned, Knows, NothingStored, OrDefault
  <2> QED
    BY <2>1, <2>2 DEF WorkerKnowsStored
<1> QED
  BY LearnedAlways, <1>1, PTL

-----------------------------------------------------------------------------
\* ChoiceSettles, for one opening of the popup in which any settings are changed any
\* number of times, as long as the worker itself finds no port. What is under way is said
\* in terms of the messages of a kind in a queue: whether there is one, what the last of
\* them is, and by what others it is followed.

Holds(s, T) == \E k \in DOMAIN s : s[k] \in T

\* The last one of T in s, if any, is in G.
LastIn(s, T, G) ==
  \A k \in DOMAIN s :
    s[k] \in T /\ (\A l \in DOMAIN s : l > k => s[l] \notin T) => s[k] \in G

\* Each one of B in s has one of E behind it.
Followed(s, B, E) ==
  \A k \in DOMAIN s : s[k] \in B => \E l \in DOMAIN s : l > k /\ s[l] \in E

\* Before the last one of E in s, if any, the last one of N is in G; where there is none,
\* c is in C.
Answered(s, E, N, G, c, C) ==
  \A k \in DOMAIN s :
    s[k] \in E /\ (\A l \in DOMAIN s : l > k => s[l] \notin E) =>
      /\ \A j \in DOMAIN s :
           /\ j < k /\ s[j] \in N
           /\ \A l \in DOMAIN s : j < l /\ l < k => s[l] \notin N
           => s[j] \in G
      /\ (\A j \in DOMAIN s : j < k => s[j] \notin N) => c \in C

\* A queue that grows by one.
LEMMA Lengthened ==
  ASSUME NEW S, NEW s \in Seq(S), NEW e \in S, NEW T, NEW G
  PROVE  /\ Holds(Append(s, e), T) <=> Holds(s, T) \/ e \in T
         /\ LastIn(Append(s, e), T, G) <=> IF e \in T THEN e \in G ELSE LastIn(s, T, G)
<1> DEFINE r == Append(s, e)
           n == Len(s)
<1>1. /\ DOMAIN r = 1..n + 1 /\ DOMAIN s = 1..n /\ n \in Nat
      /\ \A k \in 1..n : r[k] = s[k]
      /\ r[n + 1] = e
  BY Grown
<1> HIDE DEF r, n
<1>2. Holds(r, T) <=> Holds(s, T) \/ e \in T
  BY <1>1 DEF Holds
<1>3. CASE e \in T
  <2>1. \A k \in 1..n + 1 : k # n + 1 => n + 1 > k
    BY <1>1
  <2> QED
    BY <1>1, <1>2, <1>3, <2>1 DEF LastIn, r
<1>4. CASE e \notin T
  <2>1. LastIn(r, T, G) => LastIn(s, T, G)
    BY <1>1, <1>4 DEF LastIn
  <2>2. LastIn(s, T, G) => LastIn(r, T, G)
    BY <1>1, <1>4 DEF LastIn
  <2> QED
    BY <1>2, <1>4, <2>1, <2>2 DEF r
<1> QED
  BY <1>3, <1>4

LEMMA LengthenedFollowed ==
  ASSUME NEW S, NEW s \in Seq(S), NEW e \in S, NEW B, NEW E, NEW N, NEW G, NEW c, NEW C
  PROVE  /\ e \notin B /\ (e \in E \/ Followed(s, B, E)) => Followed(Append(s, e), B, E)
         /\ e \notin E /\ Answered(s, E, N, G, c, C) => Answered(Append(s, e), E, N, G, c, C)
         /\ e \in E /\ LastIn(s, N, G) /\ (Holds(s, N) \/ c \in C)
              => Answered(Append(s, e), E, N, G, c, C)
<1> DEFINE r == Append(s, e)
           n == Len(s)
<1>1. /\ DOMAIN r = 1..n + 1 /\ DOMAIN s = 1..n /\ n \in Nat
      /\ \A k \in 1..n : r[k] = s[k]
      /\ r[n + 1] = e
  BY Grown
<1> HIDE DEF r, n
<1>2. ASSUME e \notin B, e \in E \/ Followed(s, B, E) PROVE Followed(r, B, E)
  BY <1>1, <1>2 DEF Followed
<1>3. ASSUME e \notin E, Answered(s, E, N, G, c, C) PROVE Answered(r, E, N, G, c, C)
  <2> SUFFICES ASSUME NEW k \in 1..n + 1, r[k] \in E,
                      \A l \in 1..n + 1 : l > k => r[l] \notin E
               PROVE  /\ \A j \in 1..n + 1 :
                           /\ j < k /\ r[j] \in N
                           /\ \A l \in 1..n + 1 : j < l /\ l < k => r[l] \notin N
                           => r[j] \in G
                      /\ (\A j \in 1..n + 1 : j < k => r[j] \notin N) => c \in C
    BY <1>1 DEF Answered
  <2>1. k \in 1..n /\ s[k] \in E /\ \A l \in 1..n : l > k => s[l] \notin E
    BY <1>1, <1>3
  <2>2. /\ \A j \in 1..n :
             /\ j < k /\ s[j] \in N
             /\ \A l \in 1..n : j < l /\ l < k => s[l] \notin N
             => s[j] \in G
        /\ (\A j \in 1..n : j < k => s[j] \notin N) => c \in C
    BY <1>1, <1>3, <2>1 DEF Answered
  <2> QED
    BY <1>1, <2>1, <2>2
<1>4. ASSUME e \in E, LastIn(s, N, G), Holds(s, N) \/ c \in C PROVE Answered(r, E, N, G, c, C)
  <2> SUFFICES ASSUME NEW k \in 1..n + 1, r[k] \in E,
                      \A l \in 1..n + 1 : l > k => r[l] \notin E
               PROVE  /\ \A j \in 1..n + 1 :
                           /\ j < k /\ r[j] \in N
                           /\ \A l \in 1..n + 1 : j < l /\ l < k => r[l] \notin N
                           => r[j] \in G
                      /\ (\A j \in 1..n + 1 : j < k => r[j] \notin N) => c \in C
    BY <1>1 DEF Answered
  <2>1. k = n + 1
    BY <1>1, <1>4
  <2>2. ASSUME NEW j \in 1..n, s[j] \in N,
               \A l \in 1..n + 1 : j < l /\ l < k => r[l] \notin N
        PROVE  s[j] \in G
    <3>1. \A l \in 1..n : l > j => s[l] \notin N
      BY <1>1, <2>1, <2>2
    <3> QED
      BY <1>1, <1>4, <2>2, <3>1 DEF LastIn
  <2>3. Holds(s, N) => \E j \in 1..n : j < k /\ s[j] \in N
    BY <1>1, <2>1 DEF Holds
  <2> QED
    BY <1>1, <1>4, <2>1, <2>2, <2>3
<1> QED
  BY <1>2, <1>3, <1>4 DEF r

\* A queue that gives its head.
LEMMA Shortened ==
  ASSUME NEW S, NEW s \in Seq(S), s # <<>>, NEW T, NEW G
  PROVE  /\ Head(s) \in S /\ Tail(s) \in Seq(S)
         /\ Holds(s, T) <=> Holds(Tail(s), T) \/ Head(s) \in T
         /\ LastIn(s, T, G) => LastIn(Tail(s), T, G)
         /\ LastIn(s, T, G) /\ Head(s) \in T /\ ~Holds(Tail(s), T) => Head(s) \in G
<1> DEFINE r == Tail(s)
           n == Len(s)
<1>1. /\ DOMAIN r = 1..n - 1 /\ DOMAIN s = 1..n /\ n \in Nat \ {0}
      /\ \A k \in 1..n - 1 : r[k] = s[k + 1]
      /\ Head(s) = s[1] /\ Head(s) \in S /\ r \in Seq(S)
  BY Shrunk
<1> HIDE DEF r, n
<1>2. \A k \in 1..n : k # 1 => k - 1 \in 1..n - 1 /\ r[k - 1] = s[k]
  BY <1>1
<1>3. \A k \in 1..n - 1 : k + 1 \in 1..n
  BY <1>1
<1>4. Holds(s, T) <=> Holds(r, T) \/ Head(s) \in T
  <2>1. Holds(s, T) => Holds(r, T) \/ Head(s) \in T
    BY <1>1, <1>2 DEF Holds
  <2>2. Holds(r, T) => Holds(s, T)
    BY <1>1, <1>3 DEF Holds
  <2>3. Head(s) \in T => Holds(s, T)
    BY <1>1 DEF Holds
  <2> QED
    BY <2>1, <2>2, <2>3
<1>5. ASSUME LastIn(s, T, G) PROVE LastIn(r, T, G)
  <2> SUFFICES ASSUME NEW k \in 1..n - 1, r[k] \in T,
                      \A l \in 1..n - 1 : l > k => r[l] \notin T
               PROVE  r[k] \in G
    BY <1>1 DEF LastIn
  <2>1. k + 1 \in 1..n /\ s[k + 1] = r[k]
    BY <1>1
  <2>2. ASSUME NEW l \in 1..n, l > k + 1 PROVE s[l] \notin T
    <3>1. l # 1 /\ l - 1 > k
      BY <2>2
    <3> QED
      BY <1>2, <3>1
  <2> QED
    BY <1>1, <1>5, <2>1, <2>2 DEF LastIn
<1>6. ASSUME LastIn(s, T, G), Head(s) \in T, ~Holds(r, T) PROVE Head(s) \in G
  <2>1. \A l \in 1..n : l > 1 => s[l] \notin T
    BY <1>1, <1>2, <1>6 DEF Holds
  <2> QED
    BY <1>1, <1>6, <2>1 DEF LastIn
<1> QED
  BY <1>1, <1>4, <1>5, <1>6 DEF r

LEMMA ShortenedFollowed ==
  ASSUME NEW S, NEW s \in Seq(S), s # <<>>, NEW B, NEW E, NEW N, NEW G, NEW c, NEW C, NEW d
  PROVE  /\ Followed(s, B, E) => Followed(Tail(s), B, E)
         /\ Followed(s, B, E) /\ Head(s) \in B => Holds(Tail(s), E)
         /\ Answered(s, E, N, G, c, C) /\ Head(s) \in E /\ ~Holds(Tail(s), E) => c \in C
         /\ /\ Answered(s, E, N, G, c, C)
            /\ IF Head(s) \in N THEN Head(s) \in G => d \in C ELSE c \in C => d \in C
            => Answered(Tail(s), E, N, G, d, C)
<1> DEFINE r == Tail(s)
           n == Len(s)
<1>1. /\ DOMAIN r = 1..n - 1 /\ DOMAIN s = 1..n /\ n \in Nat \ {0}
      /\ \A k \in 1..n - 1 : r[k] = s[k + 1]
      /\ Head(s) = s[1]
  BY Shrunk
<1> HIDE DEF r, n
<1>2. \A k \in 1..n : k # 1 => k - 1 \in 1..n - 1 /\ r[k - 1] = s[k]
  BY <1>1
<1>3. ASSUME Followed(s, B, E) PROVE Followed(r, B, E)
  <2> SUFFICES ASSUME NEW k \in 1..n - 1, r[k] \in B
               PROVE  \E l \in 1..n - 1 : l > k /\ r[l] \in E
    BY <1>1 DEF Followed
  <2>1. k + 1 \in 1..n /\ s[k + 1] \in B
    BY <1>1
  <2>2. PICK l \in 1..n : l > k + 1 /\ s[l] \in E
    BY <1>1, <1>3, <2>1 DEF Followed
  <2>3. l # 1 /\ l - 1 > k
    BY <2>2
  <2> QED
    BY <1>2, <2>2, <2>3
<1>4. ASSUME Followed(s, B, E), Head(s) \in B PROVE Holds(r, E)
  <2>1. PICK l \in 1..n : l > 1 /\ s[l] \in E
    BY <1>1, <1>4 DEF Followed
  <2>2. l - 1 \in 1..n - 1 /\ r[l - 1] \in E
    BY <1>2, <2>1
  <2> QED
    BY <1>1, <2>2 DEF Holds
<1>5. ASSUME Answered(s, E, N, G, c, C), Head(s) \in E, ~Holds(r, E) PROVE c \in C
  <2>1. ASSUME NEW l \in 1..n, l > 1 PROVE s[l] \notin E
    <3>1. l - 1 \in DOMAIN r /\ r[l - 1] = s[l]
      BY <1>1, <1>2, <2>1
    <3> QED
      BY <1>5, <3>1 DEF Holds
  <2>2. 1 \in 1..n /\ \A j \in 1..n : ~(j < 1)
    BY <1>1
  <2>3. (\A j \in 1..n : j < 1 => s[j] \notin N) => c \in C
    BY <1>1, <1>5, <2>1, <2>2 DEF Answered
  <2> QED
    BY <2>2, <2>3
<1>6. ASSUME Answered(s, E, N, G, c, C),
             IF Head(s) \in N THEN Head(s) \in G => d \in C ELSE c \in C => d \in C
      PROVE  Answered(r, E, N, G, d, C)
  <2> SUFFICES ASSUME NEW k \in 1..n - 1, r[k] \in E,
                      \A l \in 1..n - 1 : l > k => r[l] \notin E
               PROVE  /\ \A j \in 1..n - 1 :
                           /\ j < k /\ r[j] \in N
                           /\ \A l \in 1..n - 1 : j < l /\ l < k => r[l] \notin N
                           => r[j] \in G
                      /\ (\A j \in 1..n - 1 : j < k => r[j] \notin N) => d \in C
    BY <1>1 DEF Answered
  <2>1. k + 1 \in 1..n /\ s[k + 1] \in E
    BY <1>1
  <2>2. ASSUME NEW l \in 1..n, l > k + 1 PROVE s[l] \notin E
    <3>1. l # 1 /\ l - 1 > k
      BY <2>2
    <3> QED
      BY <1>2, <3>1
  <2>3. /\ \A j \in 1..n :
             /\ j < k + 1 /\ s[j] \in N
             /\ \A l \in 1..n : j < l /\ l < k + 1 => s[l] \notin N
             => s[j] \in G
        /\ (\A j \in 1..n : j < k + 1 => s[j] \notin N) => c \in C
    BY <1>1, <1>6, <2>1, <2>2 DEF Answered
  <2>4. ASSUME NEW j \in 1..n - 1, j < k, r[j] \in N,
               \A l \in 1..n - 1 : j < l /\ l < k => r[l] \notin N
        PROVE  r[j] \in G
    <3>1. j + 1 \in 1..n /\ s[j + 1] = r[j] /\ j + 1 < k + 1
      BY <1>1, <2>4
    <3>2. ASSUME NEW l \in 1..n, j + 1 < l, l < k + 1 PROVE s[l] \notin N
      <4>1. l # 1 /\ j < l - 1 /\ l - 1 < k
        BY <3>2
      <4> QED
        BY <1>2, <2>4, <4>1
    <3> QED
      BY <2>3, <2>4, <3>1, <3>2
  <2>5. ASSUME \A j \in 1..n - 1 : j < k => r[j] \notin N PROVE d \in C
    <3>1. ASSUME NEW l \in 1..n, 1 < l, l < k + 1 PROVE s[l] \notin N
      <4>1. l # 1 /\ l - 1 < k
        BY <3>1
      <4> QED
        BY <1>2, <2>5, <4>1
    <3>2. 1 \in 1..n /\ 1 < k + 1
      BY <1>1
    <3>3. CASE Head(s) \in N
      BY <1>1, <1>6, <2>3, <3>1, <3>2, <3>3
    <3>4. CASE Head(s) \notin N
      <4>1. \A j \in 1..n : j < k + 1 => s[j] \notin N
        BY <1>1, <3>1, <3>4
      <4> QED
        BY <1>6, <2>3, <3>4, <4>1
    <3> QED
      BY <3>3, <3>4
  <2> QED
    BY <2>4, <2>5
<1> QED
  BY <1>3, <1>4, <1>5, <1>6 DEF r

\* What can be said of i is what can be said of s and e.
Joins(i, s, e) ==
  \A T, G : /\ Holds(i, T) <=> Holds(s, T) \/ e \in T
            /\ LastIn(i, T, G) <=> IF e \in T THEN e \in G ELSE LastIn(s, T, G)

LEMMA AppendJoins ==
  ASSUME NEW S, NEW s \in Seq(S), NEW e \in S
  PROVE  Joins(Append(s, e), s, e)
BY Lengthened DEF Joins

\* The settings as the user chose them last. What the popup sends goes to the worker
\* (Sends), to the browser as a read (Asks), back (Reads), and there as a write (Puts),
\* whose end (Dones) the worker tells the page.
Wanted == {c \in Config : c.choice = user.choice}
Sends == {j \in Job : j.for = "all"}
SendsIt == {j \in Job : j.with \in Wanted}
Asks == {c \in Call : c.op = "get" /\ c.job.for = "all"}
AsksIt == {c \in Call : c.job.with \in Wanted}
Reads == {m \in Event : m.event = "got" /\ m.job.for = "all"}
ReadsIt == {m \in Event : m.job.with \in Wanted}
Puts == {c \in Call : c.op = "set"}
PutsIt == {c \in Call : c.value \in Wanted}
Dones == {m \in Event : m.event = "done"}
News == {m \in Event : m.event # "done"}
NewsIt == {m \in Event : m.value \in Wanted}

Stands(c) == OrDefault(c).choice = user.choice /\ (form.modified => c # Empty)
Misread == {m \in Event : m.event = "got" /\ ~Stands(m.value)}
Stale == {m \in News : OrDefault(m.value).choice # user.choice}

Piped == Holds(mail, Sends) \/ Holds(ops, Asks) \/ Holds(inbox, Reads) \/ Holds(ops, Puts)

\* The worker has found no port: every write is of settings the popup sent.
PortJobs == {j \in Job : j.for = "port"}
PortCalls == {c \in Call : c.job.for = "port" \/ (c.op = "set" /\ c.job.for # "all")}
PortEvents == {m \in Event : \/ m.event = "got" /\ m.job.for = "port"
                             \/ m.event = "done" /\ m.job.for # "all"}
Portless == ~Holds(mail, PortJobs) /\ ~Holds(ops, PortCalls) /\ ~Holds(inbox, PortEvents)

\* The user's choice is the last of what is under way, where nothing newer is, and
\* is stored in the end.
Fate ==
  /\ LastIn(mail, Sends, SendsIt)
  /\ ~Holds(mail, Sends) =>
       /\ \A k \in DOMAIN popupSets : popupSets[k] \in Wanted
       /\ LastIn(ops, Asks, AsksIt)
       /\ ~Holds(ops, Asks) =>
            /\ LastIn(inbox, Reads, ReadsIt)
            /\ ~Holds(inbox, Reads) =>
                 /\ LastIn(ops, Puts, PutsIt)
                 /\ ~Holds(ops, Puts) => Stands(storage)

\* Before the user changes anything.
Untouched ==
  /\ user.opens = 0 => ~form.modified /\ ~form.open /\ form.asks = "no" /\ form.got = <<>>
  /\ user.opens # 0 => form.shows \in Wanted
  /\ ~form.modified =>
       /\ ~Piped /\ ~Holds(inbox, Dones) /\ ~Holds(inbox, Stale)
       /\ OrDefault(cache).choice = user.choice
       /\ form.got # <<>> => OrDefault(form.got[2]).choice = user.choice
       /\ config.choice \in {user.choice, DefaultChoice}

\* While a write is under way, the worker that has heard all holds what is stored or
\* what its last write will store.
Writing == storage # Empty /\ HeardAll /\ Holds(ops, Puts) => config = storage \/ Putting(config)

\* What the worker will tell the page last is what the user chose.
Telling ==
  Piped \/ /\ Followed(inbox, Misread, Dones)
           /\ Answered(inbox, Dones, News, NewsIt, config, Wanted)

\* So is what the page hears last of each of the three.
Heard ==
  /\ LastIn(fromBrowser, Config, {storage})
  /\ LastIn(fromPopup, Config, Wanted)
  /\ Piped \/ Holds(inbox, Dones) \/ LastIn(fromWorker, Config, Wanted)

Reaching ==
  \/ Piped \/ Holds(inbox, Dones)
  \/ Holds(fromBrowser, Config) \/ fromWorker # <<>> \/ fromPopup # <<>>
  \/ page \in Wanted

Choosing == Fate /\ Untouched /\ Writing /\ Telling /\ Heard /\ Reaching

\* The popup is open for the first time, or was, and its writes are not overtaken.
OneOpening == WritesFirst /\ user.opens <= 1

\* As long as the user chooses nothing, the same is wanted.
LEMMA SameWanted ==
  ASSUME user'.choice = user.choice, form'.modified = form.modified
  PROVE  /\ Wanted' = Wanted /\ SendsIt' = SendsIt /\ AsksIt' = AsksIt /\ ReadsIt' = ReadsIt
         /\ PutsIt' = PutsIt /\ NewsIt' = NewsIt /\ Misread' = Misread /\ Stale' = Stale
         /\ \A c : Stands(c)' <=> Stands(c)
<1>1. Wanted' = Wanted
  BY DEF Wanted
<1>2. \A c : Stands(c)' <=> Stands(c)
  BY DEF Stands
<1>3. Misread' = Misread
  BY <1>2 DEF Misread
<1> QED
  BY <1>1, <1>2, <1>3 DEF SendsIt, AsksIt, ReadsIt, PutsIt, NewsIt, Stale

\* The settings that are wanted, stored or not.
LEMMA WantedSettings ==
  ASSUME NEW c \in Stored
  PROVE  /\ c \in Wanted <=> c # Empty /\ OrDefault(c).choice = user.choice
         /\ c # Empty => c \in Config
BY Settings DEF Wanted, Stored, OrDefault

\* What changes none of the queues, the storage or what the worker and the page hold.
LEMMA NothingMoved ==
  ASSUME UNCHANGED <<storage, ops, inbox, mail, config, popupSets, pages>>,
         user'.choice = user.choice, form'.modified = form.modified
  PROVE  /\ Fate => Fate'
         /\ Writing => Writing'
         /\ Telling => Telling'
         /\ Heard => Heard'
         /\ Reaching => Reaching'
         /\ Piped' <=> Piped
<1>1. /\ Wanted' = Wanted /\ SendsIt' = SendsIt /\ AsksIt' = AsksIt /\ ReadsIt' = ReadsIt
      /\ PutsIt' = PutsIt /\ NewsIt' = NewsIt /\ Misread' = Misread
      /\ \A c : Stands(c)' <=> Stands(c)
  BY SameWanted
<1>2. /\ storage' = storage /\ ops' = ops /\ inbox' = inbox /\ mail' = mail
      /\ config' = config /\ popupSets' = popupSets /\ page' = page
      /\ fromBrowser' = fromBrowser /\ fromWorker' = fromWorker /\ fromPopup' = fromPopup
  BY DEF pages
<1> QED
  BY <1>1, <1>2 DEF Fate, Writing, Telling, Heard, Reaching, Piped, HeardAll, Putting

\* A read of the worker is carried out.
LEMMA ReadChooses ==
  ASSUME Learned, Choosing, NEW call \in Call, ops # <<>>, call = Head(ops), call.op = "get",
         ops' = Tail(ops),
         inbox' = Append(inbox, [event |-> "got", job |-> call.job, value |-> storage]),
         UNCHANGED <<storage, mail, config, popups, pages, user>>
  PROVE  Choosing'
<1> DEFINE m == [event |-> "got", job |-> call.job, value |-> storage]
<1>1. /\ m \in Event /\ m.event = "got" /\ m.job = call.job /\ m.value = storage
      /\ call.job \in Job /\ storage \in Stored
  BY CallFields DEF Event, Learned, Channels
<1> HIDE DEF m
<1>2. /\ Wanted' = Wanted /\ SendsIt' = SendsIt /\ AsksIt' = AsksIt /\ ReadsIt' = ReadsIt
      /\ PutsIt' = PutsIt /\ NewsIt' = NewsIt /\ Misread' = Misread /\ Stale' = Stale
      /\ \A c : Stands(c)' <=> Stands(c)
  BY SameWanted DEF popups
<1>3. /\ ops \in Seq(Call) /\ inbox \in Seq(Event) /\ inbox' = Append(inbox, m)
      /\ storage' = storage /\ mail' = mail /\ config' = config /\ form' = form
      /\ cache' = cache /\ popupSets' = popupSets /\ page' = page /\ user' = user
      /\ fromBrowser' = fromBrowser /\ fromWorker' = fromWorker /\ fromPopup' = fromPopup
  BY DEF Learned, Channels, popups, pages, m
<1>4. /\ Holds(ops, Asks) <=> Holds(ops', Asks) \/ call.job.for = "all"
      /\ LastIn(ops, Asks, AsksIt) => LastIn(ops', Asks, AsksIt)
      /\ LastIn(ops, Asks, AsksIt) /\ call.job.for = "all" /\ ~Holds(ops', Asks)
           => call.job.with \in Wanted
      /\ Holds(ops, Puts) <=> Holds(ops', Puts)
      /\ LastIn(ops, Puts, PutsIt) => LastIn(ops', Puts, PutsIt)
  BY <1>3, Shortened DEF Asks, AsksIt, Puts
<1>5. /\ Holds(inbox', Reads) <=> Holds(inbox, Reads) \/ call.job.for = "all"
      /\ LastIn(inbox', Reads, ReadsIt) <=>
           IF call.job.for = "all" THEN call.job.with \in Wanted ELSE LastIn(inbox, Reads, ReadsIt)
      /\ Holds(inbox', Dones) <=> Holds(inbox, Dones)
      /\ Holds(inbox', Stale) <=> Holds(inbox, Stale) \/ OrDefault(storage).choice # user.choice
  <2>1. /\ m \in Reads <=> call.job.for = "all"
        /\ m \in ReadsIt <=> call.job.with \in Wanted
        /\ m \notin Dones
        /\ m \in Stale <=> OrDefault(storage).choice # user.choice
    BY <1>1 DEF Reads, ReadsIt, Dones, Stale, News
  <2>2. Joins(inbox', inbox, m)
    BY <1>1, <1>3, AppendJoins
  <2> QED
    BY <2>1, <2>2 DEF Joins
<1>6. Fate'
  BY <1>2, <1>3, <1>4, <1>5 DEF Choosing, Fate
<1>7. Piped => Piped'
  BY <1>3, <1>4, <1>5 DEF Piped
<1>8. ~Piped => Stands(storage) /\ call.job.for # "all"
  BY <1>4 DEF Choosing, Fate, Piped
<1>9. ~Piped => ~Piped'
  BY <1>3, <1>4, <1>5, <1>8 DEF Piped
<1>10. Untouched'
  BY <1>2, <1>3, <1>5, <1>8, <1>9 DEF Choosing, Untouched, Stands
<1>11. Writing'
  <2>1. ~HeardAll'
    <3>1. Len(inbox) + 1 \in DOMAIN inbox' /\ inbox'[Len(inbox) + 1] = m
      BY <1>1, <1>3, Grown
    <3> QED
      BY <1>1, <3>1 DEF HeardAll
  <2> QED
    BY <2>1 DEF Writing
<1>12. Telling'
  <2> SUFFICES ASSUME ~Piped'
               PROVE  /\ Followed(inbox', Misread, Dones)
                      /\ Answered(inbox', Dones, News, NewsIt, config, Wanted)
    BY <1>2, <1>3 DEF Telling
  <2>1. m \notin Misread /\ m \notin Dones
    BY <1>1, <1>7, <1>8 DEF Misread, Dones
  <2>2. /\ Followed(inbox, Misread, Dones)
        /\ Answered(inbox, Dones, News, NewsIt, config, Wanted)
    BY <1>7 DEF Choosing, Telling
  <2> QED
    BY <1>1, <1>3, <2>1, <2>2, LengthenedFollowed
<1>13. Heard' /\ Reaching'
  BY <1>2, <1>3, <1>5, <1>7 DEF Choosing, Heard, Reaching
<1> QED
  BY <1>6, <1>10, <1>11, <1>12, <1>13 DEF Choosing

\* The browser tells the worker of a change, if the write changes anything.
Change(c) == [event |-> "changed", value |-> c]

LEMMA ChangeTold ==
  ASSUME inbox \in Seq(Event), NEW c \in Config
  PROVE  /\ Change(c) \in Event /\ Change(c).event = "changed" /\ Change(c).value = c
         /\ inbox \o Changed(c) \in Seq(Event)
         /\ c = storage => inbox \o Changed(c) = inbox
         /\ c # storage => inbox \o Changed(c) = Append(inbox, Change(c))
<1>1. Change(c) \in Event /\ Change(c).event = "changed" /\ Change(c).value = c
  BY DEF Event, Change
<1>2. CASE c = storage
  <2>1. inbox \o Changed(c) = inbox
    BY <1>2 DEF Changed
  <2> QED
    BY <1>1, <1>2, <2>1
<1>3. CASE c # storage
  <2>1. inbox \o Changed(c) = Append(inbox, Change(c))
    BY <1>1, <1>3 DEF Changed, Change
  <2>2. Append(inbox, Change(c)) \in Seq(Event)
    BY <1>1
  <2> QED
    BY <1>1, <1>3, <2>1, <2>2
<1> QED
  BY <1>2, <1>3

\* What a write leaves alone of what is said of the page.
LEMMA PageTold ==
  ASSUME Learned, NEW c \in Config, Write(c)
  PROVE  /\ storage' = c
         /\ LastIn(fromBrowser, Config, {storage}) => LastIn(fromBrowser', Config, {c})
         /\ Holds(fromBrowser, Config) => Holds(fromBrowser', Config)
<1>1. storage' = c
  BY DEF Write
<1>2. CASE c = storage
  BY <1>1, <1>2 DEF Write
<1>3. CASE c # storage
  <2>1. fromBrowser \in Seq(Stored) /\ c \in Stored /\ fromBrowser' = Append(fromBrowser, c)
    BY <1>3 DEF Learned, Channels, Write, Stored
  <2>2. Joins(fromBrowser', fromBrowser, c)
    BY <2>1, AppendJoins
  <2> QED
    BY <1>1, <2>2 DEF Joins
<1> QED
  BY <1>2, <1>3

\* A write of the worker is carried out.
LEMMA WriteChooses ==
  ASSUME Learned, Choosing, NEW call \in Call, ops # <<>>, call = Head(ops), call.op = "set",
         ops' = Tail(ops), Write(call.value),
         inbox' = inbox \o Changed(call.value) \o <<[event |-> "done", job |-> call.job]>>,
         UNCHANGED <<mail, config, form, cache, popupSets, page, fromWorker, fromPopup, user>>
  PROVE  Choosing'
<1> DEFINE c == call.value
           d == [event |-> "done", job |-> call.job]
           ch == Change(c)
           i == inbox \o Changed(c)
<1>0. /\ c \in Config /\ d \in Event /\ d.event = "done"
      /\ i = inbox \o Changed(c) /\ ch = Change(c)
      /\ inbox' = i \o <<d>> /\ c = call.value /\ Write(c)
  BY CallFields DEF Event
<1> HIDE DEF i, d, ch, c
<1>1. /\ Wanted' = Wanted /\ SendsIt' = SendsIt /\ AsksIt' = AsksIt /\ ReadsIt' = ReadsIt
      /\ PutsIt' = PutsIt /\ NewsIt' = NewsIt /\ Misread' = Misread /\ Stale' = Stale
      /\ \A x : Stands(x)' <=> Stands(x)
  BY SameWanted
<1>2. ops \in Seq(Call) /\ inbox \in Seq(Event) /\ config \in Config /\ storage \in Stored
  BY DEF Learned, Channels
<1>3. /\ ch \in Event /\ ch.event = "changed" /\ ch.value = c
      /\ i \in Seq(Event)
      /\ c = storage => i = inbox
      /\ c # storage => i = Append(inbox, ch)
  BY <1>0, <1>2, ChangeTold
<1>4. NewsIsStored' /\ storage' = c /\ (HeardAll' => HeardAll /\ c = storage)
  <2>1. <<d>> \in Seq(Event) /\ \A k \in DOMAIN <<d>> : <<d>>[k].event = "done"
    BY <1>0
  <2> QED
    BY <1>0, <2>1, WriteDone
<1>5. inbox' = Append(i, d)
  BY <1>0, <1>3
<1>6. /\ LastIn(fromBrowser, Config, {storage}) => LastIn(fromBrowser', Config, {c})
      /\ Holds(fromBrowser, Config) => Holds(fromBrowser', Config)
  BY <1>0, PageTold
<1>7. /\ Holds(ops', Asks) <=> Holds(ops, Asks)
      /\ LastIn(ops, Asks, AsksIt) => LastIn(ops', Asks, AsksIt)
      /\ Holds(ops, Puts)
      /\ LastIn(ops, Puts, PutsIt) => LastIn(ops', Puts, PutsIt)
      /\ LastIn(ops, Puts, PutsIt) /\ ~Holds(ops', Puts) => c \in Wanted
  BY <1>2, <1>0, Shortened DEF Asks, AsksIt, Puts, PutsIt
<1>8. /\ Putting(config) => Putting(config)' \/ c = config
      /\ Putting(config)' => Holds(ops', Puts)
  <2>1. Putting(config) => Putting(config)' \/ c = config
    <3>1. \A x \in Config : Putting(x) => Putting(x)' \/ (Head(ops).op = "set" /\ Head(ops).value = x)
      BY <1>2, CarriedOut
    <3>2. Putting(config)' <=> \E k \in DOMAIN ops' :
            /\ ops'[k].op = "set" /\ ops'[k].value = config
            /\ \A l \in DOMAIN ops' : l > k => ops'[l].op = "get"
      BY DEF Putting
    <3> QED
      BY <1>0, <1>2, <3>1, <3>2 DEF Putting
  <2>2. ops' \in Seq(Call)
    BY <1>2
  <2>3. Putting(config)' => Holds(ops', Puts)
    BY <2>2 DEF Putting, Holds, Puts
  <2> QED
    BY <2>1, <2>3
<1>9. /\ Holds(inbox', Reads) <=> Holds(inbox, Reads)
      /\ LastIn(inbox', Reads, ReadsIt) <=> LastIn(inbox, Reads, ReadsIt)
      /\ Holds(inbox', Dones)
  <2>1. /\ d \notin Reads /\ d \in Dones /\ ch \notin Reads
    BY <1>0, <1>3 DEF Reads, Dones
  <2>2. Joins(inbox', i, d) /\ (c # storage => Joins(i, inbox, ch))
    BY <1>0, <1>2, <1>3, <1>5, AppendJoins
  <2>3. /\ Holds(inbox', Reads) <=> Holds(i, Reads)
        /\ LastIn(inbox', Reads, ReadsIt) <=> LastIn(i, Reads, ReadsIt)
        /\ Holds(inbox', Dones)
    BY <2>1, <2>2 DEF Joins
  <2>4. /\ Holds(i, Reads) <=> Holds(inbox, Reads)
        /\ LastIn(i, Reads, ReadsIt) <=> LastIn(inbox, Reads, ReadsIt)
    <3>1. CASE c = storage
      BY <1>3, <3>1
    <3>2. CASE c # storage
      BY <2>1, <2>2, <3>2 DEF Joins
    <3> QED
      BY <3>1, <3>2
  <2> QED
    BY <2>3, <2>4
<1>10. Fate'
  <2>1. c \in Wanted => Stands(c)
    BY WantedSettings, Settings DEF Wanted, Stands, OrDefault
  <2> QED
    BY <1>1, <1>4, <1>7, <1>9, <2>1 DEF Choosing, Fate
<1>11. Untouched'
  BY <1>1, <1>7 DEF Choosing, Untouched, Piped
<1>12. Writing'
  <2> SUFFICES ASSUME storage' # Empty, HeardAll', Holds(ops', Puts)
               PROVE  config = c \/ Putting(config)'
    BY <1>4 DEF Writing, Putting
  <2>1. HeardAll /\ c = storage /\ c # Empty
    BY <1>0, <1>4, Settings
  <2> QED
    BY <1>7, <1>8, <2>1 DEF Choosing, Writing
<1>13. Telling'
  <2> SUFFICES ASSUME ~Piped'
               PROVE  /\ Followed(inbox', Misread, Dones)
                      /\ Answered(inbox', Dones, News, NewsIt, config, Wanted)
    BY <1>1 DEF Telling
  <2>1. c \in Wanted
    BY <1>7, <1>9 DEF Choosing, Fate, Piped
  <2>2. d \in Dones /\ d \notin Misread /\ ch \in News /\ ch \in NewsIt
    BY <1>0, <1>3, <2>1 DEF Dones, Misread, News, NewsIt
  <2>3. CASE c # storage
    <3>0. Joins(i, inbox, ch)
      BY <1>2, <1>3, <2>3, AppendJoins
    <3>1. LastIn(i, News, NewsIt) /\ Holds(i, News)
      BY <2>2, <3>0 DEF Joins
    <3> QED
      BY <1>0, <1>3, <1>5, <2>2, <3>1, LengthenedFollowed, Zenon
  <2>4. CASE c = storage
    <3>1. LastIn(inbox, News, NewsIt)
      <4> SUFFICES ASSUME NEW k \in DOMAIN inbox, inbox[k] \in News,
                          \A l \in DOMAIN inbox : l > k => inbox[l] \notin News
                   PROVE  inbox[k] \in NewsIt
        BY DEF LastIn
      <4>1. \A l \in DOMAIN inbox : inbox[l] \in Event
        BY <1>2
      <4>2. \A l \in DOMAIN inbox : l > k => inbox[l].event # "changed"
        BY <4>1 DEF News
      <4>3. inbox[k].value = storage
        BY <4>2 DEF Learned, NewsIsStored, News
      <4> QED
        BY <2>1, <2>4, <4>1, <4>3 DEF NewsIt
    <3>2. Holds(inbox, News) \/ config \in Wanted
      <4> SUFFICES ASSUME ~Holds(inbox, News) PROVE config \in Wanted
        OBVIOUS
      <4>1. HeardAll
        BY <1>2 DEF Holds, News, HeardAll
      <4>2. config = storage \/ Putting(config)
        BY <1>0, <1>7, <2>4, <4>1, Settings DEF Choosing, Writing
      <4> QED
        BY <1>8, <2>1, <2>4, <4>2 DEF Piped
    <3>3. i = inbox
      BY <1>3, <2>4
    <3> QED
      BY <1>0, <1>2, <1>5, <2>2, <3>1, <3>2, <3>3, LengthenedFollowed
  <2> QED
    BY <2>3, <2>4
<1>14. Heard' /\ Reaching'
  BY <1>1, <1>4, <1>6, <1>9 DEF Choosing, Heard, Reaching
<1> QED
  BY <1>10, <1>11, <1>12, <1>13, <1>14 DEF Choosing

\* A write of the popup is carried out.
LEMMA PopupChooses == ASSUME Learned, Choosing, PopupWrites PROVE Choosing'
<1> DEFINE c == Head(popupSets)
           ch == Change(c)
<1>0. /\ c \in Config /\ Write(c) /\ inbox' = inbox \o Changed(c)
      /\ ch = Change(c) /\ popupSets # <<>> /\ popupSets' = Tail(popupSets)
      /\ popupSets \in Seq(Config) /\ c = Head(popupSets)
  BY DEF Learned, Channels, PopupWrites
<1> HIDE DEF c, ch
<1>1. /\ ops' = ops /\ mail' = mail /\ config' = config /\ form' = form /\ cache' = cache
      /\ page' = page /\ fromWorker' = fromWorker /\ fromPopup' = fromPopup /\ user' = user
  BY DEF PopupWrites
<1>2. /\ Wanted' = Wanted /\ SendsIt' = SendsIt /\ AsksIt' = AsksIt /\ ReadsIt' = ReadsIt
      /\ PutsIt' = PutsIt /\ NewsIt' = NewsIt /\ Misread' = Misread /\ Stale' = Stale
      /\ \A x : Stands(x)' <=> Stands(x)
  BY <1>1, SameWanted
<1>3. inbox \in Seq(Event) /\ storage \in Stored
  BY DEF Learned, Channels
<1>4. /\ ch \in Event /\ ch.event = "changed" /\ ch.value = c
      /\ c = storage => inbox' = inbox
      /\ c # storage => inbox' = Append(inbox, ch)
  BY <1>0, <1>3, ChangeTold
<1>5. NewsIsStored' /\ storage' = c /\ (HeardAll' => HeardAll /\ c = storage)
  <2>1. inbox' = inbox \o Changed(c) \o <<>>
    <3>1. inbox' \in Seq(Event)
      BY <1>0, <1>3, ChangeTold
    <3> QED
      BY <1>0, <3>1
  <2>2. <<>> \in Seq(Event) /\ \A k \in DOMAIN <<>> : <<>>[k].event = "done"
    OBVIOUS
  <2> QED
    BY <1>0, <2>1, <2>2, WriteDone
<1>6. /\ LastIn(fromBrowser, Config, {storage}) => LastIn(fromBrowser', Config, {c})
      /\ Holds(fromBrowser, Config) => Holds(fromBrowser', Config)
  BY <1>0, PageTold
<1>7. /\ ch \notin Reads /\ ch \notin Dones /\ ch \notin Misread
      /\ ch \in Stale => c \notin Wanted
  <2>1. OrDefault(c) = c
    BY <1>0, Settings DEF OrDefault
  <2> QED
    BY <1>0, <1>4, <2>1 DEF Reads, Dones, Misread, Stale, Wanted
<1>8. /\ Holds(inbox', Reads) <=> Holds(inbox, Reads)
      /\ LastIn(inbox', Reads, ReadsIt) <=> LastIn(inbox, Reads, ReadsIt)
      /\ Holds(inbox', Dones) <=> Holds(inbox, Dones)
      /\ c \in Wanted => (Holds(inbox', Stale) <=> Holds(inbox, Stale))
  <2>1. CASE c = storage
    BY <1>4, <2>1
  <2>2. CASE c # storage
    <3>1. Joins(inbox', inbox, ch)
      BY <1>3, <1>4, <2>2, AppendJoins
    <3> QED
      BY <1>7, <3>1 DEF Joins
  <2> QED
    BY <2>1, <2>2
<1>9. ASSUME \A k \in DOMAIN popupSets : popupSets[k] \in Wanted
      PROVE  /\ \A k \in DOMAIN popupSets' : popupSets'[k] \in Wanted
             /\ c \in Wanted /\ Stands(c)
  <2>1. /\ DOMAIN popupSets = 1..Len(popupSets) /\ DOMAIN popupSets' = 1..Len(popupSets) - 1
        /\ Len(popupSets) \in Nat \ {0} /\ c = popupSets[1]
        /\ \A k \in 1..Len(popupSets) - 1 : popupSets'[k] = popupSets[k + 1]
    BY <1>0, Shrunk
  <2>2. c \in Wanted
    BY <1>9, <2>1
  <2>3. \A k \in 1..Len(popupSets) - 1 : popupSets'[k] \in Wanted
    BY <1>9, <2>1
  <2> QED
    BY <2>1, <2>2, <2>3, WantedSettings, Settings DEF Wanted, Stands, OrDefault
<1>10. Fate'
  BY <1>1, <1>2, <1>5, <1>8, <1>9 DEF Choosing, Fate
<1>11. Piped' <=> Piped
  BY <1>1, <1>8 DEF Piped
<1>12. Untouched'
  <2>1. ~Piped => c \in Wanted
    BY <1>9 DEF Choosing, Fate, Piped
  <2> QED
    BY <1>1, <1>2, <1>8, <1>11, <2>1 DEF Choosing, Untouched
<1>13. Writing'
  BY <1>1, <1>5 DEF Choosing, Writing, Putting
<1>14. Telling'
  <2> SUFFICES ASSUME ~Piped
               PROVE  /\ Followed(inbox', Misread, Dones)
                      /\ Answered(inbox', Dones, News, NewsIt, config, Wanted)
    BY <1>1, <1>2, <1>11 DEF Telling
  <2>1. /\ Followed(inbox, Misread, Dones)
        /\ Answered(inbox, Dones, News, NewsIt, config, Wanted)
    BY DEF Choosing, Telling
  <2>2. CASE c = storage
    BY <1>4, <2>1, <2>2
  <2>3. CASE c # storage
    BY <1>3, <1>4, <1>7, <2>1, <2>3, LengthenedFollowed
  <2> QED
    BY <2>2, <2>3
<1>15. Heard' /\ Reaching'
  BY <1>1, <1>2, <1>5, <1>6, <1>8, <1>11 DEF Choosing, Heard, Reaching
<1> QED
  BY <1>10, <1>12, <1>13, <1>14, <1>15 DEF Choosing

\* The worker takes a message: the browser has carried out the popup's writes.
LEMMA TakeChooses == ASSUME Learned, Choosing, WritesFirst, TakeMail PROVE Choosing'
<1> DEFINE j == Head(mail)
           g == Get(j)
<1>0. /\ mail \in Seq(Job) /\ mail # <<>> /\ mail' = Tail(mail) /\ j = Head(mail) /\ j \in Job
      /\ ops' = Append(ops, g) /\ ops \in Seq(Call) /\ popupSets \in Seq(Config)
      /\ g = Get(j) /\ g \in Call
  BY Settings DEF Learned, Channels, TakeMail
<1> HIDE DEF j, g
<1>1. /\ storage' = storage /\ inbox' = inbox /\ config' = config /\ form' = form
      /\ cache' = cache /\ popupSets' = popupSets /\ page' = page /\ user' = user
      /\ fromBrowser' = fromBrowser /\ fromWorker' = fromWorker /\ fromPopup' = fromPopup
  BY DEF TakeMail, popups, pages
<1>2. /\ Wanted' = Wanted /\ SendsIt' = SendsIt /\ AsksIt' = AsksIt /\ ReadsIt' = ReadsIt
      /\ PutsIt' = PutsIt /\ NewsIt' = NewsIt /\ Misread' = Misread /\ Stale' = Stale
      /\ \A x : Stands(x)' <=> Stands(x)
  BY <1>1, SameWanted
<1>3. g.op = "get" /\ g.job = j
  BY <1>0 DEF Get
<1>4. /\ g \in Asks <=> j.for = "all"
      /\ g \in AsksIt <=> j.with \in Wanted
      /\ g \notin Puts
      /\ j \in Sends <=> j.for = "all"
      /\ j \in SendsIt <=> j.with \in Wanted
  BY <1>0, <1>3 DEF Asks, AsksIt, Puts, Sends, SendsIt
<1>5. /\ Holds(mail, Sends) <=> Holds(mail', Sends) \/ j.for = "all"
      /\ LastIn(mail, Sends, SendsIt) => LastIn(mail', Sends, SendsIt)
      /\ LastIn(mail, Sends, SendsIt) /\ j.for = "all" /\ ~Holds(mail', Sends)
           => j.with \in Wanted
  BY <1>0, <1>4, Shortened
<1>6. /\ Holds(ops', Asks) <=> Holds(ops, Asks) \/ j.for = "all"
      /\ LastIn(ops', Asks, AsksIt) <=>
           IF j.for = "all" THEN j.with \in Wanted ELSE LastIn(ops, Asks, AsksIt)
      /\ Holds(ops', Puts) <=> Holds(ops, Puts)
      /\ LastIn(ops', Puts, PutsIt) <=> LastIn(ops, Puts, PutsIt)
  <2>1. Joins(ops', ops, g)
    BY <1>0, AppendJoins
  <2> QED
    BY <1>4, <2>1 DEF Joins
<1>7. ASSUME j.for = "all", ~Holds(mail', Sends) PROVE DOMAIN popupSets = {}
  <2> DEFINE A == {k \in DOMAIN mail : mail[k].for = "all"}
  <2>1. /\ DOMAIN mail = 1..Len(mail) /\ DOMAIN mail' = 1..Len(mail) - 1
        /\ Len(mail) \in Nat \ {0} /\ j = mail[1]
        /\ \A k \in 1..Len(mail) - 1 : mail'[k] = mail[k + 1]
    BY <1>0, Shrunk
  <2>2. A = {1}
    <3>1. ASSUME NEW k \in 1..Len(mail), k # 1 PROVE mail[k].for # "all"
      <4>1. k - 1 \in 1..Len(mail) - 1 /\ mail'[k - 1] = mail[k] /\ mail[k] \in Job
        BY <1>0, <2>1, <3>1
      <4> QED
        BY <1>7, <2>1, <4>1 DEF Holds, Sends
    <3> QED
      BY <1>7, <2>1, <3>1
  <2>3. Cardinality(A) = 1
    BY <2>2, FS_Singleton
  <2>4. Written
    BY <1>0, <1>7 DEF TakeMail
  <2>5. Len(popupSets) < 1
    BY <2>3, <2>4 DEF Written
  <2> QED
    BY <1>0, <2>5
<1>8. Fate'
  BY <1>1, <1>2, <1>5, <1>6, <1>7 DEF Choosing, Fate
<1>9. Piped' <=> Piped
  BY <1>1, <1>5, <1>6 DEF Piped
<1>10. Untouched'
  BY <1>1, <1>2, <1>9 DEF Choosing, Untouched
<1>11. Writing'
  <2>1. \A c \in Config : Putting(c) => Putting(c)'
    BY <1>0, ReadAsked
  <2>2. config \in Config /\ (Putting(config)' <=> \E k \in DOMAIN ops' :
          /\ ops'[k].op = "set" /\ ops'[k].value = config
          /\ \A l \in DOMAIN ops' : l > k => ops'[l].op = "get")
    BY <1>1 DEF Learned, Channels, Putting
  <2>3. Putting(config) => Putting(config)'
    BY <2>1, <2>2 DEF Putting
  <2> QED
    BY <1>1, <1>6, <2>3 DEF Choosing, Writing, HeardAll
<1>12. Telling' /\ Heard' /\ Reaching'
  BY <1>1, <1>2, <1>9 DEF Choosing, Telling, Heard, Reaching
<1> QED
  BY <1>8, <1>10, <1>11, <1>12 DEF Choosing

\* The worker restarts.
LEMMA RestartChooses == ASSUME Learned, Choosing, WorkerRestarts PROVE Choosing'
<1> DEFINE g == Get(Load)
<1>0. /\ ops = <<>> /\ ops \in Seq(Call) /\ ops' = Append(ops, g) /\ g = Get(Load) /\ g \in Call
      /\ inbox = <<>> /\ config' = Default
  BY Settings DEF Learned, Channels, WorkerRestarts
<1> HIDE DEF g
<1>1. /\ storage' = storage /\ inbox' = inbox /\ mail' = mail /\ form' = form
      /\ cache' = cache /\ popupSets' = popupSets /\ page' = page /\ user' = user
      /\ fromBrowser' = fromBrowser /\ fromWorker' = fromWorker /\ fromPopup' = fromPopup
  BY DEF WorkerRestarts, popups, pages
<1>2. /\ Wanted' = Wanted /\ SendsIt' = SendsIt /\ AsksIt' = AsksIt /\ ReadsIt' = ReadsIt
      /\ PutsIt' = PutsIt /\ NewsIt' = NewsIt /\ Misread' = Misread /\ Stale' = Stale
      /\ \A x : Stands(x)' <=> Stands(x)
  BY <1>1, SameWanted
<1>3. g \notin Asks /\ g \notin Puts
  BY <1>0 DEF Asks, Puts, Get, Load
<1>4. /\ Holds(ops', Asks) <=> Holds(ops, Asks)
      /\ LastIn(ops', Asks, AsksIt) <=> LastIn(ops, Asks, AsksIt)
      /\ ~Holds(ops', Puts) /\ ~Holds(ops, Puts)
      /\ LastIn(ops', Puts, PutsIt) <=> LastIn(ops, Puts, PutsIt)
  <2>1. Joins(ops', ops, g)
    BY <1>0, AppendJoins
  <2>2. ~Holds(ops, Puts)
    BY <1>0 DEF Holds
  <2> QED
    BY <1>3, <2>1, <2>2 DEF Joins
<1>5. Fate'
  BY <1>1, <1>2, <1>4 DEF Choosing, Fate
<1>6. Piped' <=> Piped
  BY <1>1, <1>4 DEF Piped
<1>7. Untouched'
  BY <1>0, <1>1, <1>2, <1>6 DEF Choosing, Untouched, Default
<1>8. Writing'
  BY <1>4 DEF Writing
<1>9. Telling'
  BY <1>0, <1>1 DEF Telling, Followed, Answered
<1>10. Heard' /\ Reaching'
  BY <1>1, <1>2, <1>6 DEF Choosing, Heard, Reaching
<1> QED
  BY <1>5, <1>7, <1>8, <1>9, <1>10 DEF Choosing

\* What a callback of the worker leaves alone.
LEMMA HearsKeeps ==
  ASSUME Learned, WorkerHears
  PROVE  /\ storage' = storage /\ mail' = mail /\ cache' = cache /\ popupSets' = popupSets
         /\ page' = page /\ fromBrowser' = fromBrowser /\ fromPopup' = fromPopup /\ user' = user
         /\ inbox # <<>> /\ inbox' = Tail(inbox) /\ inbox \in Seq(Event)
         /\ Head(inbox) \in Event
         /\ Got(Head(inbox)) \/ Done(Head(inbox)) \/ OnChanged(Head(inbox))
         /\ ops \in Seq(Call) /\ config \in Config /\ storage \in Stored
         /\ form \in Form /\ fromWorker \in Seq(Config)
BY DEF Learned, Channels, WorkerHears

\* The worker has read what the popup's message is to be merged with, and writes.
LEMMA AnswerChooses ==
  ASSUME Learned, Choosing, WorkerHears, NEW m \in Event, m = Head(inbox), Got(m),
         m.job.for = "all"
  PROVE  Choosing'
<1> DEFINE c == m.job.with
           x == Put(c, m.job)
<1>0. /\ m.job \in Job /\ c \in Config /\ x = Put(c, m.job) /\ x \in Call
      /\ c = m.job.with /\ m.event = "got"
  BY EventFields, JobFields, Settings DEF Got
<1>1. /\ ops' = Append(ops, x) /\ config' = c /\ fromWorker' = fromWorker /\ form' = form
  BY <1>0 DEF Got, Merged
<1> HIDE DEF c, x
<1>2. /\ storage' = storage /\ mail' = mail /\ cache' = cache /\ popupSets' = popupSets
      /\ page' = page /\ fromBrowser' = fromBrowser /\ fromPopup' = fromPopup /\ user' = user
      /\ inbox # <<>> /\ inbox' = Tail(inbox) /\ inbox \in Seq(Event) /\ ops \in Seq(Call)
  BY HearsKeeps
<1>3. /\ Wanted' = Wanted /\ SendsIt' = SendsIt /\ AsksIt' = AsksIt /\ ReadsIt' = ReadsIt
      /\ PutsIt' = PutsIt /\ NewsIt' = NewsIt /\ Misread' = Misread /\ Stale' = Stale
      /\ \A y : Stands(y)' <=> Stands(y)
  BY <1>1, <1>2, SameWanted
<1>4. /\ x \notin Asks /\ x \in Puts /\ (x \in PutsIt <=> c \in Wanted)
      /\ m \in Reads /\ (m \in ReadsIt <=> c \in Wanted)
  BY <1>0 DEF Put, Asks, Puts, PutsIt, Reads, ReadsIt
<1>5. /\ Holds(ops', Asks) <=> Holds(ops, Asks)
      /\ LastIn(ops', Asks, AsksIt) <=> LastIn(ops, Asks, AsksIt)
      /\ Holds(ops', Puts)
      /\ LastIn(ops', Puts, PutsIt) <=> c \in Wanted
  <2>1. Joins(ops', ops, x)
    BY <1>0, <1>1, <1>2, AppendJoins
  <2> QED
    BY <1>4, <2>1 DEF Joins
<1>6. /\ Holds(inbox, Reads)
      /\ LastIn(inbox, Reads, ReadsIt) => LastIn(inbox', Reads, ReadsIt)
      /\ LastIn(inbox, Reads, ReadsIt) /\ ~Holds(inbox', Reads) => c \in Wanted
  BY <1>2, <1>4, Shortened
<1>7. Piped /\ Piped'
  BY <1>5, <1>6 DEF Piped
<1>8. Fate'
  BY <1>2, <1>3, <1>5, <1>6 DEF Choosing, Fate
<1>9. Untouched'
  BY <1>1, <1>2, <1>3, <1>7 DEF Choosing, Untouched
<1>10. Writing'
  <2>1. Putting(c)'
    BY <1>0, <1>1, <1>2, WriteAsked
  <2>2. Putting(config)'
    BY <1>1, <2>1 DEF Putting
  <2> QED
    BY <2>2 DEF Writing
<1>11. Telling' /\ Heard' /\ Reaching'
  BY <1>1, <1>2, <1>3, <1>7 DEF Choosing, Telling, Heard, Reaching
<1> QED
  BY <1>8, <1>9, <1>10, <1>11 DEF Choosing

\* The worker hears that a write has ended, and tells the page what it holds.
LEMMA EndChooses ==
  ASSUME Learned, Portless, Choosing, WorkerHears, NEW m \in Event, m = Head(inbox), Done(m)
  PROVE  Choosing'
<1>1. /\ storage' = storage /\ mail' = mail /\ cache' = cache /\ popupSets' = popupSets
      /\ page' = page /\ fromBrowser' = fromBrowser /\ fromPopup' = fromPopup /\ user' = user
      /\ inbox # <<>> /\ inbox' = Tail(inbox) /\ inbox \in Seq(Event)
      /\ config \in Config /\ fromWorker \in Seq(Config)
  BY HearsKeeps
<1>2. /\ config' = config /\ ops' = ops /\ form' = form /\ m.event = "done"
      /\ m.job.for = "all" => fromWorker' = Append(fromWorker, config)
  BY DEF Done
<1>3. /\ Wanted' = Wanted /\ SendsIt' = SendsIt /\ AsksIt' = AsksIt /\ ReadsIt' = ReadsIt
      /\ PutsIt' = PutsIt /\ NewsIt' = NewsIt /\ Misread' = Misread /\ Stale' = Stale
      /\ \A y : Stands(y)' <=> Stands(y)
  BY <1>1, <1>2, SameWanted
<1>4. m \notin Reads /\ m \in Dones /\ m \notin News
  BY <1>2 DEF Reads, Dones, News
<1>5. fromWorker' = Append(fromWorker, config)
  <2>1. m \notin PortEvents
    BY <1>1, Shortened DEF Portless
  <2> QED
    BY <1>2, <2>1 DEF PortEvents
<1>6. /\ Holds(inbox', Reads) <=> Holds(inbox, Reads)
      /\ LastIn(inbox, Reads, ReadsIt) => LastIn(inbox', Reads, ReadsIt)
      /\ Holds(inbox, Dones)
  BY <1>1, <1>4, Shortened
<1>7. Piped' <=> Piped
  BY <1>1, <1>2, <1>6 DEF Piped
<1>8. Fate'
  BY <1>1, <1>2, <1>3, <1>6 DEF Choosing, Fate
<1>9. Untouched'
  BY <1>1, <1>2, <1>3, <1>6 DEF Choosing, Untouched
<1>10. Writing'
  <2>1. HeardAll' => HeardAll
    BY <1>1, <1>2, EventHeard
  <2> QED
    BY <1>1, <1>2, <2>1 DEF Choosing, Writing, Putting
<1>11. Telling'
  <2> SUFFICES ASSUME ~Piped
               PROVE  /\ Followed(inbox', Misread, Dones)
                      /\ Answered(inbox', Dones, News, NewsIt, config, Wanted)
    BY <1>2, <1>3, <1>7 DEF Telling
  <2>1. /\ Followed(inbox, Misread, Dones)
        /\ Answered(inbox, Dones, News, NewsIt, config, Wanted)
    BY DEF Choosing, Telling
  <2> QED
    BY <1>1, <1>4, <2>1, ShortenedFollowed
<1>12. Heard'
  <2>1. ASSUME ~Piped, ~Holds(inbox', Dones) PROVE LastIn(fromWorker', Config, Wanted)
    <3>1. Answered(inbox, Dones, News, NewsIt, config, Wanted)
      BY <2>1 DEF Choosing, Telling
    <3>2. config \in Wanted
      BY <1>1, <1>4, <2>1, <3>1, ShortenedFollowed
    <3>3. Joins(fromWorker', fromWorker, config)
      BY <1>1, <1>5, AppendJoins
    <3> QED
      BY <1>1, <3>2, <3>3 DEF Joins
  <2> QED
    BY <1>1, <1>3, <1>7, <2>1 DEF Choosing, Heard
<1>13. Reaching'
  <2>1. fromWorker' # <<>>
    BY <1>1, <1>5
  <2> QED
    BY <2>1 DEF Reaching
<1> QED
  BY <1>8, <1>9, <1>10, <1>11, <1>12, <1>13 DEF Choosing

\* The worker hears what is stored, and tells the page or the popup if one has asked.
LEMMA NewsChooses ==
  ASSUME Learned, Choosing, WorkerHears, NEW m \in News, m = Head(inbox),
         m \notin Reads, NEW c \in Config, c = (IF m.value = Empty THEN config ELSE m.value),
         config' = c, ops' = ops,
         fromWorker' = fromWorker
           \/ (m.event = "got" /\ fromWorker' = Append(fromWorker, c)),
         form' = form \/ (form.open /\ form' = [form EXCEPT !.got = <<"worker", c>>])
  PROVE  Choosing'
<1>1. /\ storage' = storage /\ mail' = mail /\ cache' = cache /\ popupSets' = popupSets
      /\ page' = page /\ fromBrowser' = fromBrowser /\ fromPopup' = fromPopup /\ user' = user
      /\ inbox # <<>> /\ inbox' = Tail(inbox) /\ inbox \in Seq(Event)
      /\ config \in Config /\ storage \in Stored /\ form \in Form /\ fromWorker \in Seq(Config)
  BY HearsKeeps
<1>2. /\ form'.modified = form.modified /\ form'.open = form.open /\ form'.asks = form.asks
      /\ form'.shows = form.shows
      /\ form'.got = form.got \/ (form.open /\ form'.got = <<"worker", c>>)
  BY <1>1 DEF Form
<1>3. /\ Wanted' = Wanted /\ SendsIt' = SendsIt /\ AsksIt' = AsksIt /\ ReadsIt' = ReadsIt
      /\ PutsIt' = PutsIt /\ NewsIt' = NewsIt /\ Misread' = Misread /\ Stale' = Stale
      /\ \A y : Stands(y)' <=> Stands(y)
  BY <1>1, <1>2, SameWanted
<1>4. /\ m \in Event /\ m.event \in {"got", "changed"} /\ m \notin Dones /\ m.value \in Stored
      /\ m.event = "changed" => m.value # Empty
  BY EventFields, Settings DEF News, Dones, Stored
<1>5. /\ Holds(inbox', Reads) <=> Holds(inbox, Reads)
      /\ LastIn(inbox, Reads, ReadsIt) => LastIn(inbox', Reads, ReadsIt)
      /\ Holds(inbox', Dones) <=> Holds(inbox, Dones)
      /\ Holds(inbox', Stale) \/ m \in Stale => Holds(inbox, Stale)
  BY <1>1, <1>4, Shortened
<1>6. Piped' <=> Piped
  BY <1>1, <1>5 DEF Piped
<1>7. Fate'
  BY <1>1, <1>3, <1>5 DEF Choosing, Fate
<1>8. ASSUME ~form.modified, OrDefault(m.value).choice = user.choice PROVE c.choice = user.choice
  BY <1>1, <1>8 DEF Choosing, Untouched, OrDefault, Default
<1>9. Untouched'
  <2>1. ASSUME ~form.modified PROVE c.choice = user.choice /\ OrDefault(c).choice = user.choice
    <3>1. OrDefault(m.value).choice = user.choice
      BY <1>5, <2>1 DEF Choosing, Untouched, Stale
    <3> QED
      BY <1>8, <2>1, <3>1, Settings DEF OrDefault
  <2>2. form'.got # form.got => user.opens # 0 /\ form'.got[2] = c
    BY <1>2 DEF Choosing, Untouched
  <2> QED
    BY <1>1, <1>2, <1>3, <1>5, <1>6, <2>1, <2>2 DEF Choosing, Untouched
<1>10. Writing'
  <2>1. HeardAll' => m.value = storage
    BY <1>1, <1>4, EventHeard
  <2> QED
    BY <1>1, <2>1 DEF Writing
<1>11. Telling'
  <2> SUFFICES ASSUME ~Piped
               PROVE  /\ Followed(inbox', Misread, Dones)
                      /\ Answered(inbox', Dones, News, NewsIt, c, Wanted)
    BY <1>3, <1>6 DEF Telling
  <2>1. /\ Followed(inbox, Misread, Dones)
        /\ Answered(inbox, Dones, News, NewsIt, config, Wanted)
    BY DEF Choosing, Telling
  <2>2. m \in NewsIt => c \in Wanted
    BY Settings DEF NewsIt, Wanted
  <2>3. Followed(inbox', Misread, Dones)
    BY <1>1, <2>1, ShortenedFollowed
  <2>4. Answered(inbox', Dones, News, NewsIt, c, Wanted)
    BY <1>1, <2>1, <2>2, ShortenedFollowed
  <2> QED
    BY <2>3, <2>4
<1>12. Heard'
  <2>1. ASSUME ~Piped, ~Holds(inbox', Dones), m.event = "got",
               fromWorker' = Append(fromWorker, c)
        PROVE  LastIn(fromWorker', Config, Wanted)
    <3>1. Followed(inbox, Misread, Dones)
      BY <2>1 DEF Choosing, Telling
    <3>2. m \notin Misread
      BY <1>1, <2>1, <3>1, ShortenedFollowed
    <3>3. Stands(m.value)
      BY <1>4, <2>1, <3>2 DEF Misread
    <3>4. c.choice = user.choice
      <4>1. CASE m.value = Empty
        BY <1>8, <3>3, <4>1 DEF Stands
      <4>2. CASE m.value # Empty
        BY <3>3, <4>2 DEF Stands, OrDefault
      <4> QED
        BY <4>1, <4>2
    <3>5. Joins(fromWorker', fromWorker, c)
      BY <1>1, <2>1, AppendJoins
    <3> QED
      BY <3>4, <3>5 DEF Joins, Wanted
  <2> QED
    BY <1>1, <1>3, <1>5, <1>6, <2>1 DEF Choosing, Heard
<1>13. Reaching'
  <2>1. fromWorker # <<>> => fromWorker' # <<>>
    BY <1>1
  <2> QED
    BY <1>1, <1>3, <1>5, <1>6, <2>1 DEF Choosing, Reaching
<1> QED
  BY <1>7, <1>9, <1>10, <1>11, <1>12, <1>13 DEF Choosing

LEMMA HearsChooses == ASSUME Learned, Portless, Choosing, WorkerHears PROVE Choosing'
<1> DEFINE m == Head(inbox)
<1>1. /\ m \in Event /\ inbox # <<>> /\ inbox \in Seq(Event) /\ config \in Config
      /\ Got(m) \/ Done(m) \/ OnChanged(m)
  BY HearsKeeps
<1>2. m \notin PortEvents
  BY <1>1, Shortened DEF Portless
<1>0. m = Head(inbox)
  OBVIOUS
<1> HIDE DEF m
<1>3. CASE Got(m) /\ m.job.for = "all"
  BY <1>0, <1>1, <1>3, AnswerChooses
<1>4. CASE Got(m) /\ m.job.for # "all"
  <2> DEFINE c == IF m.value = Empty THEN config ELSE m.value
  <2>1. m.event = "got" /\ m.job.for # "port" /\ m.value \in Stored
    BY <1>1, <1>2, <1>4, EventFields DEF Got, PortEvents
  <2>2. c \in Config /\ c = Merged(m.job, m.value)
    BY <1>1, <1>4, <2>1 DEF Stored, Merged
  <2>3. m \in News /\ m \notin Reads
    BY <1>1, <1>4, <2>1 DEF News, Reads
  <2>4. /\ config' = c /\ ops' = ops
        /\ fromWorker' = fromWorker \/ fromWorker' = Append(fromWorker, c)
        /\ form' = form \/ (form.open /\ form' = [form EXCEPT !.got = <<"worker", c>>])
    BY <1>4, <2>1, <2>2 DEF Got
  <2>5. c = IF m.value = Empty THEN config ELSE m.value
    OBVIOUS
  <2> HIDE DEF c
  <2> QED
    BY <1>0, <2>1, <2>2, <2>3, <2>4, <2>5, NewsChooses
<1>5. CASE Done(m)
  BY <1>0, <1>1, <1>5, EndChooses
<1>6. CASE OnChanged(m)
  <2>1. /\ m.event = "changed" /\ config' = m.value /\ m.value \in Config /\ m.value # Empty
        /\ ops' = ops /\ fromWorker' = fromWorker /\ form' = form
    BY <1>1, <1>6, EventFields, Settings DEF OnChanged
  <2>2. m \in News /\ m \notin Reads
    BY <1>1, <2>1 DEF News, Reads
  <2> QED
    BY <1>0, <2>1, <2>2, NewsChooses
<1> QED
  BY <1>1, <1>3, <1>4, <1>5, <1>6

\* The page takes settings: the last of a channel are those that are wanted.
LEMMA PageChooses == ASSUME Learned, Choosing, PageHears PROVE Choosing'
<1>1. /\ storage' = storage /\ ops' = ops /\ inbox' = inbox /\ mail' = mail
      /\ config' = config /\ form' = form /\ cache' = cache /\ popupSets' = popupSets
      /\ user' = user
  BY DEF PageHears, workers, popups
<1>2. /\ Wanted' = Wanted /\ SendsIt' = SendsIt /\ AsksIt' = AsksIt /\ ReadsIt' = ReadsIt
      /\ PutsIt' = PutsIt /\ NewsIt' = NewsIt /\ Misread' = Misread /\ Stale' = Stale
      /\ \A c : Stands(c)' <=> Stands(c)
  BY <1>1, SameWanted
<1>3. Fate' /\ Untouched' /\ Writing' /\ Telling'
  BY <1>1, <1>2 DEF Choosing, Fate, Untouched, Writing, Telling, Piped, HeardAll, Putting
<1>4. /\ fromBrowser \in Seq(Stored) /\ fromWorker \in Seq(Config) /\ fromPopup \in Seq(Config)
      /\ storage \in Stored
  BY DEF Learned, Channels
<1>5. Piped' <=> Piped
  BY <1>1 DEF Piped
<1>6. ~Piped => Stands(storage)
  BY DEF Choosing, Fate, Piped
<1>7. ASSUME fromBrowser # <<>>, fromBrowser' = Tail(fromBrowser),
             page' = IF Head(fromBrowser) = Empty THEN page ELSE Head(fromBrowser),
             UNCHANGED <<fromWorker, fromPopup>>
      PROVE  Heard' /\ Reaching'
  <2>1. /\ LastIn(fromBrowser', Config, {storage})
        /\ Holds(fromBrowser, Config) =>
             Holds(fromBrowser', Config) \/ Head(fromBrowser) \in Config
        /\ Head(fromBrowser) \in Config /\ ~Holds(fromBrowser', Config)
             => Head(fromBrowser) = storage
        /\ Head(fromBrowser) \in Stored
    BY <1>4, <1>7, Shortened DEF Choosing, Heard
  <2>2. Heard'
    BY <1>1, <1>2, <1>5, <1>7, <2>1 DEF Choosing, Heard
  <2>3. ASSUME ~Piped, ~Holds(inbox, Dones), ~Holds(fromBrowser', Config),
               fromWorker = <<>>, fromPopup = <<>>
        PROVE  page' \in Wanted
    <3>1. CASE Head(fromBrowser) = Empty
      <4>1. ~Holds(fromBrowser, Config) /\ page' = page
        BY <1>7, <2>1, <2>3, <3>1, Settings
      <4> QED
        BY <2>3, <4>1 DEF Choosing, Reaching
    <3>2. CASE Head(fromBrowser) # Empty
      <4>1. page' = storage /\ storage # Empty
        BY <1>7, <2>1, <2>3, <3>2 DEF Stored
      <4>2. OrDefault(storage).choice = user.choice
        BY <1>6, <2>3 DEF Stands
      <4> QED
        BY <1>4, <4>1, <4>2, WantedSettings
    <3> QED
      BY <3>1, <3>2
  <2> QED
    BY <1>1, <1>2, <1>5, <1>7, <2>2, <2>3 DEF Reaching
<1>8. ASSUME NEW s \in Seq(Config), s # <<>>, LastIn(s, Config, Wanted)
      PROVE  /\ LastIn(Tail(s), Config, Wanted)
             /\ Tail(s) = <<>> => Head(s) \in Wanted
  <2>1. Head(s) \in Config
    BY <1>8
  <2>2. Tail(s) = <<>> => ~Holds(Tail(s), Config)
    BY DEF Holds
  <2> QED
    BY <1>8, <2>1, <2>2, Shortened
<1>9. ASSUME fromWorker # <<>>, fromWorker' = Tail(fromWorker), page' = Head(fromWorker),
             UNCHANGED <<fromBrowser, fromPopup>>
      PROVE  Heard' /\ Reaching'
  <2>1. Piped \/ Holds(inbox, Dones)
          \/ (LastIn(fromWorker', Config, Wanted) /\ (fromWorker' = <<>> => page' \in Wanted))
    BY <1>4, <1>8, <1>9 DEF Choosing, Heard
  <2>2. Heard'
    BY <1>1, <1>2, <1>5, <1>9, <2>1 DEF Choosing, Heard
  <2>3. Reaching'
    BY <1>1, <1>2, <1>5, <2>1 DEF Reaching
  <2> QED
    BY <2>2, <2>3
<1>10. ASSUME fromPopup # <<>>, fromPopup' = Tail(fromPopup), page' = Head(fromPopup),
              UNCHANGED <<fromBrowser, fromWorker>>
       PROVE  Heard' /\ Reaching'
  <2>1. LastIn(fromPopup', Config, Wanted) /\ (fromPopup' = <<>> => page' \in Wanted)
    BY <1>4, <1>8, <1>10 DEF Choosing, Heard
  <2>2. Heard'
    BY <1>1, <1>2, <1>5, <1>10, <2>1 DEF Choosing, Heard
  <2>3. Reaching'
    BY <1>2, <2>1 DEF Reaching
  <2> QED
    BY <2>2, <2>3
<1>11. Heard' /\ Reaching'
  BY <1>7, <1>9, <1>10 DEF PageHears
<1> QED
  BY <1>3, <1>11 DEF Choosing

\* The popup opens for the first time, closes, or has the storage's answer.
LEMMA OpensChooses ==
  ASSUME Learned, Choosing, OpenForm \/ CloseForm \/ StorageAnswers, OneOpening'
  PROVE  Choosing'
<1>1. UNCHANGED <<storage, ops, inbox, mail, config, popupSets, pages>>
  BY DEF OpenForm, CloseForm, StorageAnswers, workers
<1>2. form \in Form /\ cache \in Stored /\ user \in User /\ cache' = cache
  BY DEF Learned, Channels, OpenForm, CloseForm, StorageAnswers
<1>3. ~form.modified => OrDefault(storage).choice = user.choice
  BY DEF Choosing, Fate, Untouched, Piped, Stands
<1>4. user'.choice = user.choice /\ user.opens \in Nat
  BY <1>2 DEF OpenForm, CloseForm, StorageAnswers, User
<1>5. CASE OpenForm
  <2>1. user'.opens = user.opens + 1
    BY <1>2, <1>5 DEF OpenForm, User
  <2>2. user.opens = 0 /\ user'.opens # 0
    BY <1>4, <2>1 DEF OneOpening
  <2>3. ~form.modified /\ form'.modified = form.modified
    <3>1. form.modified = FALSE
      BY <1>2, <2>2 DEF Choosing, Untouched, Form
    <3> QED
      BY <1>5, <3>1 DEF OpenForm
  <2>4. form'.shows = OrDefault(cache) /\ form'.got = <<>>
    BY <1>5 DEF OpenForm
  <2>5. OrDefault(cache) \in Config /\ OrDefault(cache).choice = user.choice
    BY <1>2, <2>3, Settings DEF Choosing, Untouched
  <2>6. form'.shows \in Wanted'
    BY <1>4, <2>4, <2>5 DEF Wanted
  <2>7. /\ Fate' /\ Writing' /\ Telling' /\ Heard' /\ Reaching'
        /\ (Piped' <=> Piped)
    BY <1>1, <1>4, <2>3, NothingMoved DEF Choosing
  <2>8. Stale' = Stale
    BY <1>4, <2>3, SameWanted
  <2>9. Untouched'
    BY <1>1, <1>2, <1>4, <2>2, <2>3, <2>4, <2>6, <2>7, <2>8 DEF Choosing, Untouched, OrDefault
  <2> QED
    BY <2>7, <2>9 DEF Choosing
<1>6. CASE CloseForm \/ StorageAnswers
  <2>1. /\ user' = user /\ form'.modified = form.modified /\ form'.shows = form.shows
        /\ user.opens # 0
    BY <1>2, <1>6 DEF CloseForm, StorageAnswers, Form, Choosing, Untouched
  <2>2. form'.got = <<>> \/ form'.got[2] = storage
    <3>1. CASE CloseForm
      BY <1>2, <3>1 DEF CloseForm, Form
    <3>2. CASE StorageAnswers
      <4>1. form'.got = <<"storage", storage>>
        BY <1>2, <3>2 DEF StorageAnswers, Form
      <4> QED
        BY <4>1
    <3> QED
      BY <1>6, <3>1, <3>2
  <2>3. /\ Fate' /\ Writing' /\ Telling' /\ Heard' /\ Reaching'
        /\ (Piped' <=> Piped)
    BY <1>1, <1>4, <2>1, NothingMoved DEF Choosing
  <2>4. Stale' = Stale /\ Wanted' = Wanted
    BY <1>4, <2>1, SameWanted
  <2>5. Untouched'
    BY <1>1, <1>2, <1>3, <2>1, <2>2, <2>3, <2>4 DEF Choosing, Untouched, OrDefault
  <2> QED
    BY <2>3, <2>5 DEF Choosing
<1> QED
  BY <1>5, <1>6

\* The popup has what the storage or the worker answered.
LEMMA LoadsChooses == ASSUME Learned, Choosing, PopupLoads PROVE Choosing'
<1> DEFINE c == form.got[2]
<1>1. /\ storage' = storage /\ ops' = ops /\ inbox' = inbox /\ config' = config
      /\ UNCHANGED pages /\ user' = user
  BY DEF PopupLoads
<1>2. /\ form \in Form /\ cache \in Stored /\ popupSets \in Seq(Config) /\ mail \in Seq(Job)
      /\ form.got # <<>> /\ user.opens \in Nat
  BY DEF Learned, Channels, PopupLoads, User
<1>3. c \in Stored
  BY <1>2 DEF Form
<1>4. form.shows \in Wanted /\ user.opens # 0
  BY <1>2 DEF Choosing, Untouched
<1>5. ~form.modified => OrDefault(c).choice = user.choice
  BY <1>2 DEF Choosing, Untouched
<1> HIDE DEF c
<1>6. /\ form'.modified = form.modified /\ form'.got = <<>> /\ form'.open = form.open
      /\ form'.shows = form.shows \/ (form'.shows = c /\ c # Empty /\ ~form.modified)
      /\ cache' = cache \/ (cache' = c /\ ~form.modified)
      /\ \/ popupSets' = popupSets
         \/ popupSets' = Append(popupSets, form.shows)
         \/ popupSets' = Append(popupSets, c) /\ c # Empty /\ ~form.modified
      /\ mail' = mail \/ mail' = Append(mail, TellPopup(user.opens))
  <2>1. CASE c = Empty
    BY <1>2, <2>1 DEF PopupLoads, Form, c
  <2>2. CASE c # Empty
    BY <1>2, <2>2 DEF PopupLoads, Form, c
  <2> QED
    BY <2>1, <2>2
<1>7. c # Empty /\ ~form.modified => c \in Wanted
  BY <1>3, <1>5, WantedSettings
<1>8. /\ Wanted' = Wanted /\ SendsIt' = SendsIt /\ AsksIt' = AsksIt /\ ReadsIt' = ReadsIt
      /\ PutsIt' = PutsIt /\ NewsIt' = NewsIt /\ Misread' = Misread /\ Stale' = Stale
      /\ \A y : Stands(y)' <=> Stands(y)
  BY <1>1, <1>6, SameWanted
<1>9. (\A k \in DOMAIN popupSets : popupSets[k] \in Wanted)
        => \A k \in DOMAIN popupSets' : popupSets'[k] \in Wanted
  <2>1. ASSUME NEW d \in Wanted, popupSets' = Append(popupSets, d),
               \A k \in DOMAIN popupSets : popupSets[k] \in Wanted
        PROVE  \A k \in DOMAIN popupSets' : popupSets'[k] \in Wanted
    <3>1. d \in Config
      BY DEF Wanted
    <3>2. /\ DOMAIN popupSets' = 1..Len(popupSets) + 1 /\ DOMAIN popupSets = 1..Len(popupSets)
          /\ Len(popupSets) \in Nat
          /\ \A k \in 1..Len(popupSets) : popupSets'[k] = popupSets[k]
          /\ popupSets'[Len(popupSets) + 1] = d
      BY <1>2, <2>1, <3>1, Grown
    <3> QED
      BY <2>1, <3>2
  <2> QED
    BY <1>4, <1>6, <1>7, <2>1
<1>10. /\ Holds(mail', Sends) <=> Holds(mail, Sends)
       /\ LastIn(mail', Sends, SendsIt) <=> LastIn(mail, Sends, SendsIt)
  <2>1. TellPopup(user.opens) \in Job /\ TellPopup(user.opens) \notin Sends
    BY <1>2, Settings DEF Sends, TellPopup
  <2>2. mail' = Append(mail, TellPopup(user.opens)) => Joins(mail', mail, TellPopup(user.opens))
    BY <1>2, <2>1, AppendJoins
  <2> QED
    BY <1>6, <2>1, <2>2 DEF Joins
<1>11. Fate'
  BY <1>1, <1>8, <1>9, <1>10 DEF Choosing, Fate
<1>12. Piped' <=> Piped
  BY <1>1, <1>10 DEF Piped
<1>13. Untouched'
  <2>1. form'.shows \in Wanted'
    BY <1>4, <1>6, <1>7, <1>8
  <2>2. ~form.modified => OrDefault(cache').choice = user.choice
    BY <1>5, <1>6 DEF Choosing, Untouched
  <2>3. ~form.modified => ~Piped' /\ ~Holds(inbox', Dones) /\ ~Holds(inbox', Stale')
    BY <1>1, <1>8, <1>12 DEF Choosing, Untouched
  <2> QED
    BY <1>1, <1>4, <1>6, <2>1, <2>2, <2>3 DEF Choosing, Untouched, OrDefault
<1>14. Writing'
  BY <1>1 DEF Choosing, Writing, HeardAll, Putting
<1>15. Telling' /\ Heard' /\ Reaching'
  BY <1>1, <1>8, <1>12 DEF Choosing, Telling, Heard, Reaching, pages
<1> QED
  BY <1>11, <1>13, <1>14, <1>15 DEF Choosing

\* The user changes a setting, or the popup a port: the popup's message has it.
LEMMA BroadcastChooses ==
  ASSUME Learned, Choosing, form.open, NEW c \in Config, BroadcastConfig(c),
         c.choice = user'.choice, user'.opens = user.opens
  PROVE  Choosing'
<1>1. /\ storage' = storage /\ ops' = ops /\ inbox' = inbox /\ config' = config
      /\ fromBrowser' = fromBrowser /\ fromPopup' = Append(fromPopup, c)
      /\ mail' = Append(mail, SetAll(c))
  BY DEF BroadcastConfig
<1>2. form \in Form /\ mail \in Seq(Job) /\ fromPopup \in Seq(Config)
  BY DEF Learned, Channels
<1>3. form'.modified /\ form'.shows = c /\ form'.open = form.open
  BY <1>2 DEF BroadcastConfig, Form
<1>4. c \in Wanted'
  BY DEF Wanted
<1>5. SetAll(c) \in Job /\ SetAll(c) \in Sends /\ SetAll(c) \in SendsIt'
  BY <1>4, Settings DEF Sends, SendsIt, SetAll
<1>6. Holds(mail', Sends) /\ LastIn(mail', Sends, SendsIt')
  <2>1. Joins(mail', mail, SetAll(c))
    BY <1>1, <1>2, <1>5, AppendJoins
  <2> QED
    BY <1>5, <2>1 DEF Joins
<1>7. Fate' /\ Piped'
  <2>1. Sends' = Sends
    BY DEF Sends
  <2> QED
    BY <1>6, <2>1 DEF Fate, Piped
<1>8. Untouched'
  BY <1>3, <1>4 DEF Choosing, Untouched
<1>9. Writing'
  BY <1>1 DEF Choosing, Writing, HeardAll, Putting
<1>10. LastIn(fromPopup', Config, Wanted')
  <2>1. Joins(fromPopup', fromPopup, c)
    BY <1>1, <1>2, AppendJoins
  <2> QED
    BY <1>4, <2>1 DEF Joins
<1>11. Telling' /\ Heard' /\ Reaching'
  BY <1>1, <1>7, <1>10 DEF Choosing, Telling, Heard, Reaching
<1> QED
  BY <1>7, <1>8, <1>9, <1>11 DEF Choosing

\* As long as the worker finds no port, it is asked to write only what the popup sends.
NoPortFound == \A p \in Port : ~WorkerFindsPort(p)

LEMMA PortlessMail ==
  ASSUME Learned, Portless, NEW j \in Job, j.for # "port", mail' = Append(mail, j),
         UNCHANGED <<ops, inbox>>
  PROVE  Portless'
<1>1. mail \in Seq(Job) /\ j \notin PortJobs
  BY DEF Learned, Channels, PortJobs
<1>2. Joins(mail', mail, j)
  BY <1>1, AppendJoins
<1> QED
  BY <1>1, <1>2 DEF Portless, Joins

LEMMA PortlessCall ==
  ASSUME Learned, Portless, NEW x \in Call, x \notin PortCalls, ops' = Append(ops, x)
  PROVE  ~Holds(ops', PortCalls)
<1>1. Joins(ops', ops, x)
  BY AppendJoins DEF Learned, Channels
<1> QED
  BY <1>1 DEF Portless, Joins

LEMMA PortlessNews ==
  ASSUME NEW i \in Seq(Event), ~Holds(i, PortEvents), NEW m \in Event, m \notin PortEvents
  PROVE  Append(i, m) \in Seq(Event) /\ ~Holds(Append(i, m), PortEvents)
<1>1. Joins(Append(i, m), i, m)
  BY AppendJoins
<1> QED
  BY <1>1 DEF Joins

\* A change the browser tells of is no answer about a port.
LEMMA PortlessChange ==
  ASSUME Learned, Portless, NEW c \in Config
  PROVE  inbox \o Changed(c) \in Seq(Event) /\ ~Holds(inbox \o Changed(c), PortEvents)
<1>1. inbox \in Seq(Event) /\ ~Holds(inbox, PortEvents)
  BY DEF Learned, Channels, Portless
<1>2. Change(c) \in Event /\ Change(c) \notin PortEvents
  BY <1>1, ChangeTold DEF PortEvents
<1> QED
  BY <1>1, <1>2, ChangeTold, PortlessNews

LEMMA PortlessStep ==
  ASSUME Learned, Portless, [SettingsNext]_settingsVars, [NoPortFound]_settingsVars
  PROVE  Portless'
<1>1. /\ ops \in Seq(Call) /\ inbox \in Seq(Event) /\ mail \in Seq(Job)
      /\ popupSets \in Seq(Config) /\ storage \in Stored
      /\ ~Holds(mail, PortJobs) /\ ~Holds(ops, PortCalls) /\ ~Holds(inbox, PortEvents)
  BY DEF Learned, Channels, Portless
<1>2. ASSUME UNCHANGED <<mail, ops, inbox>> PROVE Portless'
  BY <1>2 DEF Portless
<1>3. CASE WorkerCall
  <2> DEFINE call == Head(ops)
             j == call.job
  <2>1. /\ call \in Call /\ call \notin PortCalls /\ ~Holds(ops', PortCalls) /\ mail' = mail
        /\ ops # <<>>
    BY <1>1, <1>3, Shortened DEF WorkerCall
  <2>2. /\ call.op \in {"get", "set"} /\ j \in Job /\ j.for # "port"
        /\ call.op = "set" => call.value \in Config /\ j.for = "all"
    BY <2>1, CallFields DEF PortCalls
  <2>3. CASE call.op = "get"
    <3> DEFINE m == [event |-> "got", job |-> j, value |-> storage]
    <3>1. m \in Event /\ m \notin PortEvents
      BY <1>1, <2>2 DEF Event, PortEvents
    <3>2. inbox' = Append(inbox, m)
      BY <1>3, <2>3 DEF WorkerCall
    <3> HIDE DEF m
    <3> QED
      BY <1>1, <2>1, <3>1, <3>2, PortlessNews DEF Portless
  <2>4. CASE call.op = "set"
    <3> DEFINE m == [event |-> "done", job |-> j]
               i == inbox \o Changed(call.value)
    <3>1. m \in Event /\ m \notin PortEvents
      BY <2>2, <2>4 DEF Event, PortEvents
    <3>2. i \in Seq(Event) /\ ~Holds(i, PortEvents)
      BY <2>2, <2>4, PortlessChange
    <3>3. inbox' = i \o <<m>>
      BY <1>3, <2>4 DEF WorkerCall
    <3> HIDE DEF m, i
    <3>4. inbox' = Append(i, m)
      BY <3>1, <3>2, <3>3
    <3> QED
      BY <2>1, <3>1, <3>2, <3>4, PortlessNews DEF Portless
  <2> QED
    BY <2>2, <2>3, <2>4
<1>4. CASE PopupWrites
  <2>1. /\ Head(popupSets) \in Config /\ inbox' = inbox \o Changed(Head(popupSets))
        /\ UNCHANGED <<mail, ops>>
    BY <1>1, <1>4 DEF PopupWrites
  <2> QED
    BY <1>1, <2>1, PortlessChange DEF Portless
<1>5. CASE TakeMail
  <2> DEFINE j == Head(mail)
  <2>1. j \in Job /\ j \notin PortJobs /\ ~Holds(mail', PortJobs) /\ inbox' = inbox
    BY <1>1, <1>5, Shortened DEF TakeMail
  <2>2. Get(j) \in Call /\ Get(j) \notin PortCalls /\ ops' = Append(ops, Get(j))
    BY <1>5, <2>1, Settings DEF TakeMail, Get, PortCalls, PortJobs
  <2> QED
    BY <1>1, <2>1, <2>2, PortlessCall DEF Portless
<1>6. CASE WorkerHears
  <2> DEFINE m == Head(inbox)
             x == Put(Merged(m.job, m.value), m.job)
  <2>1. /\ m \in Event /\ m \notin PortEvents /\ ~Holds(inbox', PortEvents) /\ mail' = mail
        /\ Got(m) \/ Done(m) \/ OnChanged(m)
    BY <1>1, <1>6, Shortened DEF WorkerHears
  <2>2. CASE ops' = ops
    BY <1>1, <2>1, <2>2 DEF Portless
  <2>3. CASE ops' # ops
    <3>1. m.event = "got" /\ m.job.for \in {"all", "port"} /\ ops' = Append(ops, x)
      BY <2>1, <2>3 DEF Got, Done, OnChanged
    <3>2. m.job \in Job /\ m.value \in Stored /\ m.job.for = "all"
      BY <2>1, <3>1, EventFields DEF PortEvents
    <3>3. Merged(m.job, m.value) \in Config
      BY <3>2, MergedType DEF Learned, Channels
    <3>4. x \in Call /\ x \notin PortCalls
      BY <3>2, <3>3, Settings DEF Put, PortCalls
    <3> HIDE DEF x
    <3> QED
      BY <1>1, <2>1, <3>1, <3>4, PortlessCall DEF Portless
  <2> QED
    BY <2>2, <2>3
<1>7. CASE WorkerRestarts
  <2>1. UNCHANGED <<mail, inbox>> /\ ops' = Append(ops, Get(Load))
    BY <1>7 DEF WorkerRestarts
  <2>2. Get(Load) \in Call /\ Get(Load) \notin PortCalls
    BY Settings DEF Get, Load, PortCalls
  <2> QED
    BY <1>1, <2>1, <2>2, PortlessCall DEF Portless
<1>8. CASE PopupLoads
  <2>1. TellPopup(user.opens) \in Job /\ TellPopup(user.opens).for # "port"
    BY Settings DEF Learned, Channels, User, TellPopup
  <2>2. /\ UNCHANGED <<ops, inbox>>
        /\ mail' = mail \/ mail' = Append(mail, TellPopup(user.opens))
    BY <1>8 DEF PopupLoads
  <2> QED
    BY <1>2, <2>1, <2>2, PortlessMail
<1>9. ASSUME NEW c \in Config, BroadcastConfig(c) PROVE Portless'
  <2>1. SetAll(c) \in Job /\ SetAll(c).for # "port"
    BY Settings DEF SetAll
  <2> QED
    BY <1>9, <2>1, PortlessMail DEF BroadcastConfig
<1>10. form.shows \in Config
  BY DEF Learned, Channels, Form
<1>11. ASSUME NEW q \in Port, PopupFindsPort(q) PROVE Portless'
  BY <1>9, <1>10, <1>11, Settings DEF PopupFindsPort
<1>12. ASSUME NEW c \in Choice, ChangeSetting(c) PROVE Portless'
  BY <1>9, <1>10, <1>12, Settings DEF ChangeSetting
<1>13. CASE OpenForm \/ CloseForm \/ StorageAnswers \/ PageHears
  BY <1>2, <1>13 DEF OpenForm, CloseForm, StorageAnswers, PageHears, workers
<1>14. CASE UNCHANGED settingsVars
  BY <1>2, <1>14 DEF settingsVars
<1> QED
  BY <1>3, <1>4, <1>5, <1>6, <1>7, <1>8, <1>11, <1>12, <1>13, <1>14
     DEF SettingsNext, NoPortFound

\* Every step of one opening keeps the user's choice the last of what is under way.
LEMMA ChoosingStep ==
  ASSUME Learned, Portless, Choosing, OneOpening', [SettingsNext]_settingsVars,
         [NoPortFound]_settingsVars
  PROVE  Choosing'
<1>1. form \in Form /\ form.shows \in Config /\ user \in User /\ ops \in Seq(Call)
  BY DEF Learned, Channels, Form
<1>2. CASE WorkerCall
  <2>1. Head(ops) \in Call /\ ops # <<>>
    BY <1>1, <1>2, Shortened DEF WorkerCall
  <2>2. CASE Head(ops).op = "get"
    <3>1. /\ ops' = Tail(ops)
          /\ inbox' = Append(inbox, [event |-> "got", job |-> Head(ops).job, value |-> storage])
          /\ UNCHANGED <<storage, mail, config, popups, pages, user>>
      BY <1>2, <2>2 DEF WorkerCall, pages
    <3> QED
      BY <2>1, <2>2, <3>1, ReadChooses
  <2>3. CASE Head(ops).op = "set"
    <3>1. /\ ops' = Tail(ops) /\ Write(Head(ops).value)
          /\ inbox' = inbox \o Changed(Head(ops).value)
                        \o <<[event |-> "done", job |-> Head(ops).job]>>
          /\ UNCHANGED <<mail, config, form, cache, popupSets, page, fromWorker, fromPopup,
                         user>>
      BY <1>2, <2>3 DEF WorkerCall, popups
    <3> QED
      BY <2>1, <2>3, <3>1, WriteChooses
  <2> QED
    BY <2>1, <2>2, <2>3, CallFields
<1>3. CASE PopupWrites
  BY <1>3, PopupChooses
<1>4. CASE TakeMail
  BY <1>4, TakeChooses DEF OneOpening
<1>5. CASE WorkerHears
  BY <1>5, HearsChooses
<1>6. CASE WorkerRestarts
  BY <1>6, RestartChooses
<1>7. CASE OpenForm \/ CloseForm \/ StorageAnswers
  BY <1>7, OpensChooses
<1>8. CASE PopupLoads
  BY <1>8, LoadsChooses
<1>9. CASE PageHears
  BY <1>9, PageChooses
<1>10. ASSUME NEW q \in Port, PopupFindsPort(q) PROVE Choosing'
  <2> DEFINE c == [form.shows EXCEPT !.port = q]
  <2>1. /\ form.open /\ BroadcastConfig(c)
        /\ user'.opens = user.opens /\ user'.choice = user.choice
    BY <1>1, <1>10 DEF PopupFindsPort, User
  <2>2. form.shows \in Wanted
    <3>1. form.open /\ user.opens # 0
      BY <2>1 DEF Choosing, Untouched
    <3> QED
      BY <3>1 DEF Choosing, Untouched
  <2>3. c \in Config /\ c.choice = user'.choice
    BY <1>1, <2>1, <2>2, Settings DEF Wanted, Config
  <2> HIDE DEF c
  <2> QED
    BY <2>1, <2>3, BroadcastChooses
<1>11. ASSUME NEW d \in Choice, ChangeSetting(d) PROVE Choosing'
  <2> DEFINE c == [form.shows EXCEPT !.choice = d]
  <2>1. /\ form.open /\ BroadcastConfig(c)
        /\ user'.opens = user.opens /\ user'.choice = d
    BY <1>1, <1>11 DEF ChangeSetting, User
  <2>2. c \in Config /\ c.choice = user'.choice
    BY <1>1, <2>1, Settings DEF Config
  <2> HIDE DEF c
  <2> QED
    BY <2>1, <2>2, BroadcastChooses
<1>12. CASE UNCHANGED settingsVars
  <2>1. /\ UNCHANGED <<storage, ops, inbox, mail, config, popupSets, pages>>
        /\ user' = user /\ form' = form /\ cache' = cache /\ inbox' = inbox /\ config' = config
    BY <1>12 DEF settingsVars, pages
  <2>2. /\ Fate' /\ Writing' /\ Telling' /\ Heard' /\ Reaching'
        /\ (Piped' <=> Piped)
    BY <2>1, NothingMoved DEF Choosing
  <2>3. Wanted' = Wanted /\ Stale' = Stale
    BY <2>1, SameWanted
  <2>4. Untouched'
    BY <2>1, <2>2, <2>3 DEF Choosing, Untouched, OrDefault
  <2> QED
    BY <2>2, <2>4 DEF Choosing
<1> QED
  BY <1>2, <1>3, <1>4, <1>5, <1>6, <1>7, <1>8, <1>9, <1>10, <1>11, <1>12
     DEF SettingsNext, NoPortFound

\* The popup is never opened less often.
LEMMA OpeningsGrow ==
  ASSUME Learned, [SettingsNext]_settingsVars, OneOpening'
  PROVE  OneOpening
<1>1. user \in User /\ user.opens \in Nat
  BY DEF Learned, Channels, User
<1>2. user'.opens = user.opens \/ user'.opens = user.opens + 1
  <2>1. CASE user' = user
    BY <2>1
  <2>2. CASE user' # user
    BY <1>1, <2>2 DEF SettingsNext, settingsVars, WorkerCall, PopupWrites, TakeMail,
         WorkerHears, WorkerRestarts, OpenForm, CloseForm, StorageAnswers, PopupLoads,
         PageHears, WorkerFindsPort, PopupFindsPort, ChangeSetting, User
  <2> QED
    BY <2>1, <2>2
<1> QED
  BY <1>1, <1>2 DEF OneOpening

\* When the program starts, the page, the worker and the popup have the user's choice or
\* are about to hear of it.
LEMMA ChoosingInit == ASSUME SettingsInit, Channels PROVE Portless /\ Choosing
<1>1. /\ mail = <<Tell("page")>> /\ ops = <<Get(Load)>> /\ inbox = <<>> /\ popupSets = <<>>
      /\ fromBrowser = <<storage>> /\ fromWorker = <<>> /\ fromPopup = <<>>
      /\ config = Default /\ page = Default
      /\ ~form.modified /\ ~form.open /\ form.asks = "no" /\ form.got = <<>>
      /\ user.opens = 0 /\ user.choice = OrDefault(storage).choice
      /\ storage \in Stored
  BY DEF SettingsInit, Channels
<1>2. \A T : ~Holds(<<>>, T)
  BY DEF Holds
<1>3. /\ Tell("page") \notin Sends /\ Tell("page") \notin PortJobs
      /\ Get(Load) \notin Asks /\ Get(Load) \notin Puts /\ Get(Load) \notin PortCalls
  BY DEF Tell, Get, Load, Sends, PortJobs, Asks, Puts, PortCalls
<1>4. ~Holds(mail, Sends) /\ ~Holds(mail, PortJobs)
  BY <1>1, <1>3 DEF Holds
<1>5. ~Holds(ops, Asks) /\ ~Holds(ops, Puts) /\ ~Holds(ops, PortCalls)
  BY <1>1, <1>3 DEF Holds
<1>6. Portless /\ ~Piped
  BY <1>1, <1>2, <1>4, <1>5 DEF Portless, Piped
<1>7. \A s, T, G : ~Holds(s, T) => LastIn(s, T, G)
  BY DEF Holds, LastIn
<1>8. Fate
  <2>1. Stands(storage)
    BY <1>1 DEF Stands
  <2> QED
    BY <1>1, <1>2, <1>4, <1>5, <1>7, <2>1 DEF Fate
<1>9. Untouched
  <2>1. OrDefault(cache).choice = user.choice
    BY <1>1 DEF SettingsInit, OrDefault, Default
  <2>2. config.choice = DefaultChoice
    BY <1>1 DEF Default
  <2> QED
    BY <1>1, <1>2, <1>6, <2>1, <2>2 DEF Untouched
<1>10. Writing
  BY <1>5 DEF Writing
<1>11. Telling
  BY <1>1 DEF Telling, Followed, Answered
<1>12. Heard
  <2>1. LastIn(fromBrowser, Config, {storage})
    BY <1>1 DEF LastIn
  <2> QED
    BY <1>1, <1>2, <1>7, <2>1 DEF Heard
<1>13. Reaching
  <2>1. CASE storage = Empty
    BY <1>1, <2>1, Settings DEF Reaching, Wanted, OrDefault
  <2>2. CASE storage # Empty
    <3>1. Holds(fromBrowser, Config)
      BY <1>1, <2>2 DEF Holds, Stored
    <3> QED
      BY <3>1 DEF Reaching
  <2> QED
    BY <2>1, <2>2
<1> QED
  BY <1>6, <1>8, <1>9, <1>10, <1>11, <1>12, <1>13 DEF Choosing

\* When every message has been handled, the storage, the worker and the page hold what
\* the user chose last: in one opening of the popup, for any choices, any number of
\* changes and any order of the channels, as long as a popup's write is carried out
\* before its message is handed on and the worker finds no port.
THEOREM ChoiceIsKept ==
  SettingsSpec /\ [][NoPortFound]_settingsVars => [](OneOpening => ChoiceSettles)
<1> DEFINE Inv == Learned /\ Portless /\ (OneOpening => Choosing)
<1>1. SettingsInit /\ Learned => Inv
  BY ChoosingInit DEF Learned
<1>2. Inv /\ Learned' /\ [SettingsNext]_settingsVars /\ [NoPortFound]_settingsVars => Inv'
  <2> SUFFICES ASSUME Inv, Learned', [SettingsNext]_settingsVars, [NoPortFound]_settingsVars
               PROVE  Inv'
    OBVIOUS
  <2>1. Portless'
    BY PortlessStep
  <2>2. ASSUME OneOpening' PROVE Choosing'
    <3>1. OneOpening
      BY <2>2, OpeningsGrow
    <3> QED
      BY <2>2, <3>1, ChoosingStep
  <2> QED
    BY <2>1, <2>2
<1>3. Inv /\ WorkerKnowsStored => (OneOpening => ChoiceSettles)
  <2> SUFFICES ASSUME Learned, Choosing, WorkerKnowsStored, Quiet
               PROVE  /\ OrDefault(storage).choice = user.choice
                      /\ config.choice = user.choice
                      /\ page.choice = user.choice
    BY DEF ChoiceSettles
  <2>1. \A T : ~Holds(<<>>, T)
    BY DEF Holds
  <2>2. ~Piped /\ ~Holds(inbox, Dones)
    BY <2>1 DEF Quiet, Piped
  <2>3. OrDefault(storage).choice = user.choice
    BY <2>2 DEF Choosing, Fate, Piped, Stands
  <2>4. config = OrDefault(storage)
    BY DEF WorkerKnowsStored
  <2>5. page \in Wanted
    BY <2>1, <2>2 DEF Quiet, Choosing, Reaching
  <2> QED
    BY <2>3, <2>4, <2>5 DEF Wanted
<1> HIDE DEF Inv
<1> QED
  BY LearnedAlways, WorkerLearns, <1>1, <1>2, <1>3, PTL DEF SettingsSpec
=============================================================================
