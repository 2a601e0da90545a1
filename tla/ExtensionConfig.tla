--------------------------- MODULE ExtensionConfig ---------------------------
\* The settings of the browser extension and their four copies: the browser's storage,
\* the service worker's config (src/extension/src/background.js), the popup with its
\* own cache (popup.js) and a page's content script (content.js). The popup writes the
\* storage itself and sends the same settings to the worker, which reads, merges and
\* writes them once more; the worker also writes a port it has found. A page hears of
\* a change from the storage, from the popup and from the worker. Each of these
\* channels keeps its order, and nothing orders one channel against another.
EXTENDS Integers, Sequences, FiniteSets

CONSTANTS
  Choice,       \* what the user sets: interception, cookies, badge mode, delay
  Port,         \* ports of the local server
  DefaultChoice, DefaultPort,
  Empty,        \* no stored settings
  WritesFirst,  \* the browser carries out a popup's write before it hands on the
                \* message the popup sent after it, as one channel to one process does
  MaxOpens,     \* times the popup is opened
  MaxWrites     \* settings the user changes, and ports the worker or the popup finds

ASSUME SettingsAssumption ==
  /\ WritesFirst \in BOOLEAN
  /\ DefaultChoice \in Choice /\ DefaultPort \in Port
  /\ Empty \notin [choice: Choice, port: Port]
  /\ {MaxOpens, MaxWrites} \subseteq Nat

VARIABLES
  storage,      \* storage.local's config, or Empty
  ops,          \* the worker's storage calls the browser has not carried out
  inbox,        \* what the browser has for the worker: results and change events
  mail,         \* messages of the popup and the page to the worker
  config,       \* the worker's config
  form,         \* the popup: settings shown, and whether the user changed any
  cache,        \* the popup's localStorage
  popupSets,    \* the popup's storage writes not carried out
  page,         \* the content script's config
  fromBrowser, fromWorker, fromPopup,   \* settings on their way to the page
  user          \* the user's last choice and the counters

workers == <<ops, inbox, mail, config>>
popups == <<form, cache, popupSets>>
pages == <<page, fromBrowser, fromWorker, fromPopup>>
settingsVars == <<storage, ops, inbox, mail, config, form, cache, popupSets, page,
                  fromBrowser, fromWorker, fromPopup, user>>

Config == [choice: Choice, port: Port]
Stored == Config \cup {Empty}
Default == [choice |-> DefaultChoice, port |-> DefaultPort]
OrDefault(c) == IF c = Empty THEN Default ELSE c

\* Why the worker reads the storage: to know the settings, to answer the page or the
\* popup that asked (nobody, once that popup is closed), to write all settings, or to
\* write a port.
Load == [for |-> "load"]
Tell(who) == [for |-> who]
TellPopup(n) == [for |-> "popup", opening |-> n]
SetAll(c) == [for |-> "all", with |-> c]
SetPort(p) == [for |-> "port", with |-> p]
Job == {Load, Tell("page")} \cup [for: {"popup"}, opening: Nat]
         \cup {SetAll(c) : c \in Config} \cup {SetPort(p) : p \in Port}
Get(j) == [op |-> "get", job |-> j]
Put(c, j) == [op |-> "set", job |-> j, value |-> c]

\* The popup's cache has the user's choice whenever it is not the default: it is
\* written with every choice and every load.
SettingsInit ==
  /\ storage \in {Empty, Default} \cup {[Default EXCEPT !.choice = c] : c \in Choice}
  /\ \/ cache = storage
     \/ cache = Empty /\ OrDefault(storage).choice = DefaultChoice
  /\ ops = <<Get(Load)>> /\ inbox = <<>>
  /\ mail = <<Tell("page")>>
  /\ config = Default
  /\ form = [open |-> FALSE, shows |-> Default, cached |-> FALSE, modified |-> FALSE,
             asks |-> "no", got |-> <<>>]
  /\ popupSets = <<>>
  /\ page = Default
  /\ fromBrowser = <<storage>> /\ fromWorker = <<>> /\ fromPopup = <<>>
  /\ user = [choice |-> OrDefault(storage).choice, opens |-> 0,
           writes |-> 0]

-----------------------------------------------------------------------------
\* The browser carries out a write, and tells the worker and the page of a change.

Write(c) ==
  /\ storage' = c
  /\ fromBrowser' = IF c = storage THEN fromBrowser ELSE Append(fromBrowser, c)

Changed(c) == IF c = storage THEN <<>> ELSE <<[event |-> "changed", value |-> c]>>

WorkerCall ==
  LET call == Head(ops) IN
  /\ ops # <<>>
  /\ ops' = Tail(ops)
  /\ \/ /\ call.op = "get"
        /\ inbox' = Append(inbox, [event |-> "got", job |-> call.job, value |-> storage])
        /\ UNCHANGED <<storage, fromBrowser>>
     \/ /\ call.op = "set"
        /\ Write(call.value)
        /\ inbox' = inbox \o Changed(call.value)
                      \o <<[event |-> "done", job |-> call.job]>>
  /\ UNCHANGED <<mail, config, popups, page, fromWorker, fromPopup, user>>

PopupWrites ==
  /\ popupSets # <<>>
  /\ popupSets' = Tail(popupSets)
  /\ Write(Head(popupSets))
  /\ inbox' = inbox \o Changed(Head(popupSets))
  /\ UNCHANGED <<ops, mail, config, form, cache, page, fromWorker, fromPopup, user>>

-----------------------------------------------------------------------------
\* The service worker.

Written == Len(popupSets) < Cardinality({k \in DOMAIN mail : mail[k].for = "all"})

TakeMail ==
  /\ mail # <<>>
  /\ WritesFirst /\ Head(mail).for = "all" => Written
  /\ mail' = Tail(mail)
  /\ ops' = Append(ops, Get(Head(mail)))
  /\ UNCHANGED <<storage, inbox, config, popups, pages, user>>

\* A send or a connection test found the application at another port.
WorkerFindsPort(p) ==
  /\ user.writes < MaxWrites /\ p # config.port
  /\ user' = [user EXCEPT !.writes = @ + 1]
  /\ ops' = Append(ops, Get(SetPort(p)))
  /\ UNCHANGED <<storage, inbox, mail, config, popups, pages>>

MergedFromMemory(job, read) ==
  CASE job.for = "all" -> job.with
    [] job.for = "port" -> [config EXCEPT !.port = job.with]
    [] OTHER -> config

Merged(job, read) ==
  LET known == IF read = Empty THEN config ELSE read IN
  CASE job.for = "all" -> job.with
    [] job.for = "port" -> [known EXCEPT !.port = job.with]
    [] OTHER -> known

GotUnkept(m) ==
  LET c == Merged(m.job, m.value) IN
  /\ m.event = "got"
  /\ ops' = IF m.job.for \in {"all", "port"} THEN Append(ops, Put(c, m.job)) ELSE ops
  /\ fromWorker' = IF m.job.for = "page" THEN Append(fromWorker, c) ELSE fromWorker
  /\ form' = IF m.job.for = "popup" /\ form.open /\ m.job.opening = user.opens
               THEN [form EXCEPT !.got = <<"worker", c>>] ELSE form
  /\ UNCHANGED config

\* The callback of a read, and what awaits it: writeStoredConfig goes on to write.
Got(m) ==
  LET c == Merged(m.job, m.value) IN
  /\ m.event = "got"
  /\ config' = c
  /\ ops' = IF m.job.for \in {"all", "port"} THEN Append(ops, Put(c, m.job)) ELSE ops
  /\ fromWorker' = IF m.job.for = "page" THEN Append(fromWorker, c) ELSE fromWorker
  /\ form' = IF m.job.for = "popup" /\ form.open /\ m.job.opening = user.opens
               THEN [form EXCEPT !.got = <<"worker", c>>] ELSE form

\* The callback of a write answers with the config of this moment; SET_CONFIG sends
\* it to the pages.
Done(m) ==
  /\ m.event = "done"
  /\ fromWorker' = IF m.job.for = "all" THEN Append(fromWorker, config) ELSE fromWorker
  /\ UNCHANGED <<config, ops, form>>

OnChanged(m) ==
  /\ m.event = "changed"
  /\ config' = m.value
  /\ UNCHANGED <<ops, fromWorker, form>>

WorkerHears ==
  /\ inbox # <<>>
  /\ inbox' = Tail(inbox)
  /\ Got(Head(inbox)) \/ Done(Head(inbox)) \/ OnChanged(Head(inbox))
  /\ UNCHANGED <<storage, mail, cache, popupSets, page, fromBrowser, fromPopup, user>>

WorkerRestarts ==
  /\ ops = <<>> /\ inbox = <<>>
  /\ config' = Default
  /\ ops' = <<Get(Load)>>
  /\ UNCHANGED <<storage, inbox, mail, popups, pages, user>>

-----------------------------------------------------------------------------
\* The popup shows its cache at once, then what the storage answers, unless the user
\* has changed something by then.

OpenForm ==
  /\ ~form.open /\ user.opens < MaxOpens
  /\ user' = [user EXCEPT !.opens = @ + 1]
  /\ form' = [open |-> TRUE, shows |-> OrDefault(cache), cached |-> cache # Empty,
              modified |-> FALSE, asks |-> "storage", got |-> <<>>]
  /\ UNCHANGED <<storage, workers, cache, popupSets, pages>>

CloseForm ==
  /\ form.open
  /\ form' = [form EXCEPT !.open = FALSE, !.asks = "no", !.got = <<>>]
  /\ UNCHANGED <<storage, workers, cache, popupSets, pages, user>>

StorageAnswers ==
  /\ form.asks = "storage"
  /\ form' = [form EXCEPT !.asks = "no", !.got = <<"storage", storage>>]
  /\ UNCHANGED <<storage, workers, cache, popupSets, pages, user>>

PopupLoads ==
  LET from == form.got[1]
      c == form.got[2] IN
  /\ form.got # <<>>
  /\ IF c = Empty
       THEN \* nothing stored: what was cached when it opened is
            \* restored, or the worker is asked
            /\ form' = [form EXCEPT !.got = <<>>]
            /\ popupSets' = IF form.cached THEN Append(popupSets, form.shows)
                                            ELSE popupSets
            /\ mail' = IF form.cached THEN mail ELSE Append(mail, TellPopup(user.opens))
            /\ UNCHANGED cache
       ELSE /\ form' = [form EXCEPT !.got = <<>>,
                                     !.shows = IF form.modified THEN @ ELSE c]
            /\ cache' = IF form.modified THEN cache ELSE c
            /\ popupSets' = IF from = "worker" /\ ~form.modified
                              THEN Append(popupSets, c) ELSE popupSets
            /\ UNCHANGED mail
  /\ UNCHANGED <<storage, ops, inbox, config, pages, user>>

BroadcastConfig(c) ==
  /\ form' = [form EXCEPT !.modified = TRUE, !.shows = c]
  /\ cache' = c
  /\ popupSets' = Append(popupSets, c)
  /\ mail' = Append(mail, SetAll(c))
  /\ fromPopup' = Append(fromPopup, c)
  /\ UNCHANGED <<storage, ops, inbox, config, page, fromBrowser, fromWorker>>

ChangeSetting(c) ==
  /\ form.open /\ user.writes < MaxWrites
  /\ user' = [user EXCEPT !.choice = c, !.writes = @ + 1]
  /\ BroadcastConfig([form.shows EXCEPT !.choice = c])

\* The port field, a connection test, or the probe after the popup has loaded.
PopupFindsPort(p) ==
  /\ form.open /\ user.writes < MaxWrites
  /\ user' = [user EXCEPT !.writes = @ + 1]
  /\ BroadcastConfig([form.shows EXCEPT !.port = p])

-----------------------------------------------------------------------------
\* The content script takes settings as they come.

PageHears ==
  /\ \/ /\ fromBrowser # <<>>
        /\ fromBrowser' = Tail(fromBrowser)
        /\ page' = IF Head(fromBrowser) = Empty THEN page ELSE Head(fromBrowser)
        /\ UNCHANGED <<fromWorker, fromPopup>>
     \/ /\ fromWorker # <<>>
        /\ fromWorker' = Tail(fromWorker) /\ page' = Head(fromWorker)
        /\ UNCHANGED <<fromBrowser, fromPopup>>
     \/ /\ fromPopup # <<>>
        /\ fromPopup' = Tail(fromPopup) /\ page' = Head(fromPopup)
        /\ UNCHANGED <<fromBrowser, fromWorker>>
  /\ UNCHANGED <<storage, workers, popups, user>>

SettingsNext ==
  \/ WorkerCall \/ PopupWrites \/ TakeMail \/ WorkerHears \/ WorkerRestarts
  \/ OpenForm \/ CloseForm \/ StorageAnswers \/ PopupLoads \/ PageHears
  \/ \E p \in Port : WorkerFindsPort(p) \/ PopupFindsPort(p)
  \/ \E c \in Choice : ChangeSetting(c)

SettingsSpec == SettingsInit /\ [][SettingsNext]_settingsVars

-----------------------------------------------------------------------------
\* Types, and the queues hold what their readers understand.
SettingsTypeOK ==
  /\ storage \in Stored /\ cache \in Stored
  /\ config \in Config /\ page \in Config
  /\ form.shows \in Config
  /\ \A k \in DOMAIN ops : ops[k].job \in Job
  /\ \A k \in DOMAIN popupSets : popupSets[k] \in Config
  /\ user.choice \in Choice

Quiet ==
  /\ ops = <<>> /\ inbox = <<>> /\ mail = <<>> /\ popupSets = <<>>
  /\ fromBrowser = <<>> /\ fromWorker = <<>> /\ fromPopup = <<>>
  /\ form.got = <<>> /\ form.asks = "no"

\* When every message has been handled, the storage, the worker and the page hold
\* what the user chose last, whatever port writes were under way in between.
\* It is so for two writes in one opening of the popup, and for any number of the popup's
\* alone. Otherwise a third may be lost: the worker stores the port it found with settings
\* it read between two writes, and puts the choice of the first back over that of the
\* second (no write waits for another's read). A popup that is opened again while a write
\* is under way may read what was stored before it and send that with its next change.
ChoiceSettles ==
  Quiet => /\ OrDefault(storage).choice = user.choice
           /\ config.choice = user.choice
           /\ page.choice = user.choice

\* Then too the worker works with the settings that are stored.
WorkerKnowsStored ==
  /\ SettingsTypeOK
  /\ Quiet => config = OrDefault(storage)
=============================================================================
