------------------------------ MODULE Extension ------------------------------
\* The browser extension's way of taking a download over from the browser
\* (src/extension/src/background.js, the clicks of content.js and the transfer list of
\* popup.js). A link to a file is caught when it is clicked, and a download
\* the browser starts is caught by the service worker, cancelled in the browser and
\* sent to the application; a running download is moved by hand from the popup, and
\* leaves the browser only when the application has answered. The worker is put to
\* sleep when it is idle and forgets its sets; the application may be down,
\* disabled, or answer after the sender has given up waiting.
EXTENDS Integers, FiniteSets

CONSTANTS
  Item,         \* browser downloads
  UrlOf,        \* UrlOf[i]: the address of download i
  FromPage,     \* the downloads pages start; the others are the extension's own
  NoItem,
  Routes,       \* ports and hosts a send tries in turn
  MaxClicks,    \* transfers the user asks for
  MaxLate,      \* answers about one download that come after the abort timer
  MaxSleeps,    \* times the service worker is stopped
  MaxTurns      \* times the application starts, stops or changes its setting

ASSUME ConstantsAssumption ==
  /\ NoItem \notin Item
  /\ DOMAIN UrlOf = Item
  /\ FromPage \subseteq Item
  /\ {Routes, MaxClicks, MaxLate, MaxSleeps, MaxTurns} \subseteq Nat
  /\ Routes > 0

VARIABLES
  browser,      \* state of each download in the browser
  created,      \* downloads whose onCreated event is not handled yet
  byExtension,  \* downloads the extension itself asked the browser for
  worker,       \* the service worker's memory
  send,         \* send[i][s]: routes left to the send of i by s, 0 when none runs
  removing,     \* browser API calls in flight that take a download away
  popup,        \* the popup's memory
  app,          \* the application: "up", "down" or "disabled"
  received,     \* received[i]: how often the application was given i
  alert,        \* the download the in-page alert offers to the browser
  told,         \* downloads the user was told of by an alert
  late,         \* late[i]: answers about i that came too late
  history       \* what was caught, what was asked for, and the counters

vars == <<browser, created, byExtension, worker, send, removing,
          popup, app, received, alert, told, late, history>>

Catch == 0
Sender == 0..MaxClicks
Removal == [item: Item, step: {"look", "cancel", "erase"},
            by: {"worker", "popup", "closed"}]
Answer == {"none", "ok", "failed", "disabled"}

Fresh == [up |-> TRUE, grace |-> TRUE, bypassed |-> {}, intercepted |-> {},
          cancelled |-> {}, urls |-> {}]
Closed == [open |-> FALSE, shown |-> {}, moving |-> [i \in Item |-> 0],
           answer |-> [i \in Item |-> "none"], direct |-> [i \in Item |-> 0]]

Init ==
  /\ browser = [i \in Item |-> "none"]
  /\ created = {} /\ byExtension = {}
  /\ worker = Fresh
  /\ send = [i \in Item |-> [s \in Sender |-> 0]]
  /\ removing = {}
  /\ popup = Closed
  /\ app \in {"up", "down", "disabled"}
  /\ received = [i \in Item |-> 0]
  /\ alert = NoItem
  /\ told = {}
  /\ late = [i \in Item |-> 0]
  /\ history = [caught |-> {}, clicks |-> [i \in Item |-> 0], asked |-> 0, sleeps |-> 0, turns |-> 0]

Known == worker.bypassed \cup worker.intercepted \cup worker.cancelled

-----------------------------------------------------------------------------
\* The browser, the application and the settings.

PageDownload(i) ==
  /\ i \in FromPage /\ browser[i] = "none"
  /\ browser' = [browser EXCEPT ![i] = "active"]
  /\ created' = created \cup {i}
  /\ UNCHANGED <<byExtension, worker, send, removing, popup, app,
                 received, alert, told, late, history>>

Ends(i) ==
  /\ browser[i] = "active"
  /\ \E s \in {"complete", "interrupted"} : browser' = [browser EXCEPT ![i] = s]
  /\ UNCHANGED <<created, byExtension, worker, send, removing, popup, app,
                 received, alert, told, late, history>>

AppTurns ==
  /\ history.turns < MaxTurns
  /\ \E a \in {"up", "down", "disabled"} \ {app} : app' = a
  /\ history' = [history EXCEPT !.turns = @ + 1]
  /\ UNCHANGED <<browser, created, byExtension, worker, send, removing,
                 popup, received, alert, told, late>>

-----------------------------------------------------------------------------
\* The service worker. It is stopped only when idle, and an event starts it again
\* with empty sets: it marks every download there is as one to leave alone, and
\* leaves alone what starts within the grace period.

Idle == /\ \A i \in Item, s \in Sender : send[i][s] = 0
        /\ removing = {} /\ created = {} /\ ~popup.open

Sleep ==
  /\ worker.up /\ Idle
  /\ history.sleeps < MaxSleeps
  /\ worker' = [Fresh EXCEPT !.up = FALSE]
  /\ history' = [history EXCEPT !.sleeps = @ + 1]
  /\ UNCHANGED <<browser, created, byExtension, send, removing, popup, app,
                 received, alert, told, late>>

Wake ==
  /\ ~worker.up
  /\ worker' = [Fresh EXCEPT !.bypassed =
                  {i \in Item : browser[i] \notin {"none", "prevented", "erased"}}]
  /\ UNCHANGED <<browser, created, byExtension, send, removing, popup, app,
                 received, alert, told, late, history>>

GraceOver ==
  /\ worker.up /\ worker.grace
  /\ worker' = [worker EXCEPT !.grace = FALSE]
  /\ UNCHANGED <<browser, created, byExtension, send, removing, popup, app,
                 received, alert, told, late, history>>

UrlExpires ==
  /\ worker.urls # {}
  /\ worker' = [worker EXCEPT !.urls = {}]
  /\ UNCHANGED <<browser, created, byExtension, send, removing, popup, app,
                 received, alert, told, late, history>>

\* config.interceptDownloads (on) can be switched at any time.
ShouldIntercept(i, on) ==
  /\ on
  /\ i \notin Known \cup byExtension
  /\ ~worker.grace
  /\ UrlOf[i] \notin worker.urls

OnCreated(i) ==
  /\ worker.up /\ i \in created
  /\ created' = created \ {i}
  /\ \E on \in BOOLEAN :
       IF ShouldIntercept(i, on)
         THEN /\ worker' = [worker EXCEPT !.intercepted = @ \cup {i},
                                          !.cancelled = @ \cup {i}]
              /\ removing' = removing \cup
                   {[item |-> i, step |-> "cancel", by |-> "worker"]}
              /\ send' = [send EXCEPT ![i][Catch] = Routes]
              /\ history' = [history EXCEPT !.caught = @ \cup {i}]
         ELSE /\ worker' = [worker EXCEPT !.bypassed =
                              IF on /\ i \notin Known THEN @ \cup {i} ELSE @]
              /\ UNCHANGED <<removing, send, history>>
  /\ UNCHANGED <<browser, byExtension, popup, app, received, alert, told, late>>

\* downloads.search, downloads.cancel and downloads.erase answer one at a time: a
\* download that is no longer running is only erased.
Removed(r) ==
  LET i == r.item IN
  /\ r \in removing
  /\ CASE r.step = "look" ->
            /\ removing' = (removing \ {r}) \cup
                 {[r EXCEPT !.step = IF browser[i] \in {"active", "none", "erased"}
                                       THEN "cancel" ELSE "erase"]}
            /\ UNCHANGED browser
       [] r.step = "cancel" ->
            /\ browser' = [browser EXCEPT ![i] = IF @ = "active" THEN "cancelled" ELSE @]
            /\ removing' = (removing \ {r}) \cup
                 (IF r.by = "closed" THEN {} ELSE {[r EXCEPT !.step = "erase"]})
       [] r.step = "erase" ->
            /\ browser' = [browser EXCEPT ![i] = "erased"]
            /\ removing' = removing \ {r}
  /\ UNCHANGED <<created, byExtension, worker, send, popup, app, received,
                 alert, told, late, history>>

-----------------------------------------------------------------------------
\* sendToThunderDM: the routes are tried in turn, each given up after its timer.
\* The application takes the download even when its answer comes too late.

Given(i) == received' = [received EXCEPT ![i] = @ + 1]

Late(i) ==
  /\ \A j \in Item : late[j] < MaxLate
  /\ late' = [late EXCEPT ![i] = @ + 1]

ShowAlert(i) ==
  /\ alert' = i
  /\ told' = told \cup {i}

AnswerPopup(i, s, a) ==
  popup' = IF popup.moving[i] = s /\ s # Catch
             THEN [popup EXCEPT !.answer[i] = a] ELSE popup

\* What was asked for from the popup leaves the browser now.
Accept(i, s) ==
  /\ send' = [send EXCEPT ![i][s] = 0]
  /\ IF s = Catch
       THEN UNCHANGED <<worker, removing>>
       ELSE /\ worker' = [worker EXCEPT !.intercepted = @ \cup {i},
                                        !.cancelled = @ \cup {i}]
            /\ removing' = removing \cup
                 {[item |-> i, step |-> "look", by |-> "worker"]}
  /\ AnswerPopup(i, s, "ok")
  /\ UNCHANGED <<alert, told>>

RouteFailsSilently(i, s) ==
  /\ send' = [send EXCEPT ![i][s] = @ - 1]
  /\ IF send[i][s] > 1 THEN UNCHANGED popup ELSE AnswerPopup(i, s, "failed")
  /\ UNCHANGED <<worker, removing, alert, told>>

\* A route that fails: the next one, or the alert after the last.
RouteFails(i, s) ==
  /\ send' = [send EXCEPT ![i][s] = @ - 1]
  /\ IF send[i][s] > 1
       THEN UNCHANGED <<popup, alert, told>>
       ELSE ShowAlert(i) /\ AnswerPopup(i, s, "failed")
  /\ UNCHANGED <<worker, removing>>

DisabledUntold(i, s) ==
  /\ send' = [send EXCEPT ![i][s] = 0]
  /\ AnswerPopup(i, s, "disabled")
  /\ UNCHANGED <<worker, removing, alert, told>>

Disabled(i, s) ==
  /\ send' = [send EXCEPT ![i][s] = 0]
  /\ ShowAlert(i) /\ AnswerPopup(i, s, "disabled")
  /\ UNCHANGED <<worker, removing>>

SendToThunderDM(i, s) ==
  /\ send[i][s] > 0
  /\ \/ app = "up" /\ Given(i) /\ Accept(i, s) /\ UNCHANGED late
     \/ app = "up" /\ Given(i) /\ Late(i) /\ RouteFails(i, s)
     \/ app = "down" /\ RouteFails(i, s) /\ UNCHANGED <<received, late>>
     \/ app = "disabled" /\ Disabled(i, s) /\ UNCHANGED <<received, late>>
  /\ UNCHANGED <<browser, created, byExtension, app, history>>

\* The handler of SEND_DOWNLOAD: there is nothing to cancel in the browser.
SendDownload(i) == send' = [send EXCEPT ![i][Catch] = Routes]

\* A click on a link to a file, caught in the page before the browser downloads it: the
\* message wakes the worker. config.interceptDownloads may be on or off.
LinkClick(i) ==
  /\ worker.up /\ i \in FromPage /\ browser[i] = "none"
  /\ browser' = [browser EXCEPT ![i] = "prevented"]
  /\ history' = [history EXCEPT !.caught = @ \cup {i}]
  /\ SendDownload(i)
  /\ UNCHANGED <<created, byExtension, worker, removing, popup, app, received, alert, told,
                 late>>

-----------------------------------------------------------------------------
\* The alert in the page: close it, or have the browser download the address.

CloseAlert ==
  /\ alert # NoItem
  /\ alert' = NoItem
  /\ UNCHANGED <<browser, created, byExtension, worker, send, removing,
                 popup, app, received, told, late, history>>

TriggerBrowserDownload(j) ==
  /\ worker.up /\ alert # NoItem
  /\ browser[j] = "none" /\ UrlOf[j] = UrlOf[alert]
  /\ alert' = NoItem
  /\ browser' = [browser EXCEPT ![j] = "active"]
  /\ created' = created \cup {j}
  /\ byExtension' = byExtension \cup {j}
  /\ worker' = [worker EXCEPT !.urls = @ \cup {UrlOf[j]}]
  /\ UNCHANGED <<send, removing, popup, app, received, told, late, history>>

-----------------------------------------------------------------------------
\* The popup's list of running downloads.

OpenPopup ==
  /\ ~popup.open
  /\ popup' = [Closed EXCEPT !.open = TRUE]
  /\ UNCHANGED <<browser, created, byExtension, worker, send, removing, app,
                 received, alert, told, late, history>>

PopupCloses ==
  /\ popup.open
  /\ popup' = Closed
  /\ removing' = {IF r.by = "popup" THEN [r EXCEPT !.by = "closed"] ELSE r : r \in removing}
  /\ UNCHANGED <<browser, created, byExtension, worker, send, app, received,
                 alert, told, late, history>>

LoadBrowserDownloads ==
  /\ popup.open /\ worker.up
  /\ popup' = [popup EXCEPT !.shown =
                 {i \in Item : /\ browser[i] \in {"active", "interrupted"}
                               /\ i \notin worker.intercepted \cup worker.cancelled}]
  /\ UNCHANGED <<browser, created, byExtension, worker, send, removing, app,
                 received, alert, told, late, history>>

\* The button of a row is disabled while its download is being moved.
Pressable(i) == popup.open /\ i \in popup.shown /\ popup.moving[i] = 0

TransferCancels(i) ==
  LET click == history.asked + 1 IN
  /\ Pressable(i) /\ worker.up
  /\ click <= MaxClicks
  /\ history' = [history EXCEPT !.clicks[i] = @ + 1, !.asked = click]
  /\ popup' = [popup EXCEPT !.moving[i] = click, !.answer[i] = "none"]
  /\ send' = [send EXCEPT ![i][click] = Routes]
  /\ removing' = removing \cup {[item |-> i, step |-> "look", by |-> "worker"]}
  /\ UNCHANGED <<browser, created, byExtension, worker, app, received, alert, told, late>>

Transfer(i) ==
  LET click == history.asked + 1 IN
  /\ Pressable(i) /\ worker.up
  /\ click <= MaxClicks
  /\ history' = [history EXCEPT !.clicks[i] = @ + 1, !.asked = click]
  /\ popup' = [popup EXCEPT !.moving[i] = click, !.answer[i] = "none"]
  /\ send' = [send EXCEPT ![i][click] = Routes]
  /\ UNCHANGED <<browser, created, byExtension, worker, removing, app,
                 received, alert, told, late>>

OnAnswerAlwaysDirect(i) ==
  /\ popup.open /\ popup.moving[i] # 0 /\ popup.answer[i] # "none"
  /\ popup' = [popup EXCEPT !.answer[i] = "none", !.direct[i] = Routes]
  /\ UNCHANGED <<browser, created, byExtension, worker, send, removing, app,
                 received, alert, told, late, history>>

\* The worker's answer. When no route worked the popup tries them itself.
OnAnswer(i) ==
  /\ popup.open /\ popup.moving[i] # 0 /\ popup.answer[i] # "none"
  /\ popup' =
       CASE popup.answer[i] = "ok" ->
              [popup EXCEPT !.moving[i] = 0, !.answer[i] = "none", !.shown = @ \ {i}]
         [] popup.answer[i] = "disabled" ->
              [popup EXCEPT !.moving[i] = 0, !.answer[i] = "none"]
         [] popup.answer[i] = "failed" ->
              [popup EXCEPT !.answer[i] = "none", !.direct[i] = Routes]
  /\ UNCHANGED <<browser, created, byExtension, worker, send, removing, app,
                 received, alert, told, late, history>>

DirectDone(i) == [popup EXCEPT !.direct[i] = 0, !.moving[i] = 0]

DirectNextStuck(i) == [popup EXCEPT !.direct[i] = @ - 1]

DirectNext(i) ==
  IF popup.direct[i] > 1 THEN [popup EXCEPT !.direct[i] = @ - 1] ELSE DirectDone(i)

SendDownloadDirect(i) ==
  /\ popup.open /\ popup.direct[i] > 0
  /\ \/ /\ app = "up"
        /\ Given(i)
        /\ popup' = [DirectDone(i) EXCEPT !.shown = @ \ {i}]
        /\ removing' = removing \cup {[item |-> i, step |-> "cancel", by |-> "popup"]}
        /\ UNCHANGED late
     \/ /\ app = "up" /\ Given(i) /\ Late(i)
        /\ popup' = DirectNext(i)
        /\ UNCHANGED removing
     \/ /\ app # "up"
        /\ popup' = IF app = "down" THEN DirectNext(i) ELSE DirectDone(i)
        /\ UNCHANGED <<received, removing, late>>
  /\ UNCHANGED <<browser, created, byExtension, worker, send, app, alert, told,
                 history>>

-----------------------------------------------------------------------------
Next ==
  \/ AppTurns
  \/ Sleep \/ Wake \/ GraceOver \/ UrlExpires
  \/ CloseAlert \/ OpenPopup \/ PopupCloses \/ LoadBrowserDownloads
  \/ \E i \in Item :
       \/ PageDownload(i) \/ LinkClick(i) \/ Ends(i) \/ OnCreated(i) \/ TriggerBrowserDownload(i)
       \/ Transfer(i) \/ OnAnswer(i) \/ SendDownloadDirect(i)
       \/ \E s \in Sender : SendToThunderDM(i, s)
  \/ \E r \in removing : Removed(r)

\* The worker is started for an event that waits, its requests and the browser's
\* calls end, and the popup's code runs: the fetches have timers, the rest are
\* callbacks of the browser.
Fairness ==
  /\ WF_vars(Wake)
  /\ \A i \in Item :
       /\ WF_vars(OnCreated(i)) /\ WF_vars(OnAnswer(i)) /\ WF_vars(SendDownloadDirect(i))
       /\ \A s \in Sender : WF_vars(SendToThunderDM(i, s))
  /\ WF_vars(\E r \in removing : Removed(r))

Spec == Init /\ [][Next]_vars /\ Fairness

-----------------------------------------------------------------------------
\* Types: the worker's and the popup's memory, and every call in flight, keep their
\* shape.
TypeOK ==
  /\ browser \in [Item -> {"none", "prevented", "active", "complete", "interrupted",
                           "cancelled", "erased"}]
  /\ created \subseteq Item /\ byExtension \subseteq Item
  /\ worker \in [up: BOOLEAN, grace: BOOLEAN, bypassed: SUBSET Item,
                 intercepted: SUBSET Item, cancelled: SUBSET Item,
                 urls: SUBSET {UrlOf[i] : i \in Item}]
  /\ send \in [Item -> [Sender -> 0..Routes]]
  /\ removing \subseteq Removal
  /\ popup \in [open: BOOLEAN, shown: SUBSET Item, moving: [Item -> Sender],
                answer: [Item -> Answer], direct: [Item -> 0..Routes]]
  /\ app \in {"up", "down", "disabled"}
  /\ received \in [Item -> Nat]
  /\ alert \in Item \cup {NoItem}
  /\ told \subseteq Item
  /\ late \in [Item -> 0..MaxLate]
  /\ history \in [caught: SUBSET Item, clicks: [Item -> 0..MaxClicks],
                  asked: 0..MaxClicks, sleeps: 0..MaxSleeps, turns: 0..MaxTurns]

Gone(i) == browser[i] \in {"prevented", "cancelled", "erased"}
Sending(i) == send[i][Catch] > 0

\* A download the extension took from the browser is not dropped: the application
\* has it, or a send of it still runs, or the user was told, with the offer to
\* download it in the browser.
NothingLost ==
  /\ TypeOK
  /\ \A i \in Item : Gone(i) => received[i] > 0 \/ Sending(i) \/ i \in told

\* A download the user moves by hand leaves the browser only after the application
\* has it (README of the extension, "Active Browser Downloads"): a failing or
\* disabled application leaves the browser's download alone.
MovedOnlyWhenTaken ==
  \A i \in Item \ history.caught : Gone(i) => received[i] > 0

\* The application gets a download once for the catch and once for each time the
\* user asked, and again only for a request whose answer came too late.
NotSentAgain ==
  \A i \in Item :
    received[i] <= (IF i \in history.caught THEN 1 ELSE 0)
                   + history.clicks[i] + late[i]

\* What was caught is settled: the application has it or the user was told.
CaughtIsSettled ==
  \A i \in Item :
    i \in history.caught ~> (received[i] > 0 \/ i \in told)

\* A transfer asked for in the popup never leaves its button disabled for good.
TransferEnds ==
  \A i \in Item : popup.moving[i] # 0 ~> popup.moving[i] = 0
=============================================================================
