------------------------------ MODULE Updater ------------------------------
\* The two dialogs of the main window's header (useAppUpdater.ts, UpdateBannerModal.tsx
\* and the Escape key of Header.tsx): one looks for, downloads and applies an update of
\* the program, the other checks and installs the media tools, yt-dlp and FFmpeg. The
\* silent checks of the startup, those of the menu and the events of a download run side
\* by side, and each answer sets the dialog it is about, whatever it shows by then.
EXTENDS Integers, Bags, BagsExt, FiniteSets

CONSTANTS
  MaxMenu,      \* what the user chooses from the menu
  MaxFetches,   \* the downloads of an update
  MaxProgress   \* the progress events of the downloads, their last ones not counted

ASSUME UpdaterAssumption ==
  MaxMenu \in Nat /\ MaxFetches \in Nat /\ MaxProgress \in Nat

VARIABLES
  update,       \* updateModal: its stage, or "none"
  tools,        \* ytdlpModal
  top,          \* the dialog opened last, which is the one the pointer reaches
  startup,      \* the check of the program's startup: startupAppUpdatePromise
  silent,       \* the silent check of the tools: startupToolsPromise
  checks,       \* how many checks of the menu the backend has not answered
  calls,        \* the calls about the tools that are under way, a bag
  fetching,     \* how many InstallAppUpdate run
  air,          \* the events and answers of downloads on their way, a bag
  staged,       \* lastFallbackDownloadedFile is set
  installed,    \* the tools on the disk
  running,      \* the program has not restarted
  clicks, fetches, events

dialogs == <<update, tools, top>>
budget == <<clicks, fetches, events>>
updaterVars == <<dialogs, startup, silent, checks, calls, fetching, air, staged, installed, running, budget>>

Stage == {"checking", "uptodate", "available", "downloading", "ready", "error"}
Tool == {"ytdlp", "ffmpeg"}
Missing(have) == have # Tool

\* What the tools' dialog shows: "loading", "success", "missing" (which offers to
\* install), "failed"; and whether it is the mandatory setup.
View(shows, mandatory) == [shows |-> shows, mandatory |-> mandatory]
Closed == View("none", FALSE)
Setup == View("missing", TRUE)

\* A call: the handler that waits for it, wasMandatory, and the answer once there is one.
Call(op, mandatory, answer) == [op |-> op, mandatory |-> mandatory, answer |-> answer]

One(x) == SetToBag({x})
Plus(bag, x) == bag (+) One(x)
Swap(bag, x, y) == (bag (-) One(x)) (+) One(y)

UpdaterInit ==
  /\ update = "none" /\ tools = Closed /\ top = "update"
  /\ startup = "version" /\ silent = "unasked"
  /\ checks = 0 /\ calls = EmptyBag /\ fetching = 0 /\ air = EmptyBag
  /\ staged = FALSE /\ running = TRUE
  /\ installed \in SUBSET Tool
  /\ clicks = 0 /\ fetches = 0 /\ events = 0

ShowUpdate(stage) ==
  /\ update' = stage
  /\ top' = IF update = "none" /\ stage # "none" THEN "update" ELSE top
ShowTools(view) ==
  /\ tools' = view
  /\ top' = IF tools = Closed /\ view # Closed THEN "tools" ELSE top
\* prev => prev ? {...prev, stage} : null
Restage(stage) ==
  /\ update' = IF update = "none" THEN "none" ELSE stage
  /\ UNCHANGED <<tools, top>>

\* What the pointer and Escape can close.
Closable == update \notin {"none", "checking", "downloading"}
ToolsClosable ==
  /\ tools.shows \notin {"none", "loading"}
  /\ ~tools.mandatory \/ tools.shows = "success"
UpdateReached == update # "none" /\ (tools = Closed \/ top = "update")
ToolsReached == tools # Closed /\ (update = "none" \/ top = "tools")

----------------------------------------------------------------------------
\* get_app_version has answered, or failed; check_app_update is asked.
StartupAsks ==
  /\ startup = "version" /\ startup' = "asked"
  /\ UNCHANGED <<dialogs, silent, checks, calls, fetching, air, staged, installed, running, budget>>

\* runStartupToolsCheckSilently: the first call asks, those that come after the answer
\* show what was answered then. The tools' dialog becomes view if it need not show more.
CheckSilently(view) ==
  /\ silent' = IF silent = "unasked" THEN "asked" ELSE silent
  /\ tools' = IF silent = "needsSetup" THEN Setup ELSE view

\* The answer of the startup's check: an update is offered and the tools are left for
\* later; otherwise, or when the check has failed, they are checked at once.
StartupOffers ==
  /\ startup = "asked" /\ startup' = "done"
  /\ ShowUpdate("available")
  /\ UNCHANGED <<tools, silent, checks, calls, fetching, air, staged, installed, running, budget>>
StartupFindsNone ==
  /\ startup = "asked" /\ startup' = "done"
  /\ CheckSilently(tools)
  /\ top' = IF tools = Closed /\ tools' # Closed THEN "tools" ELSE top
  /\ UNCHANGED <<update, checks, calls, fetching, air, staged, installed, running, budget>>

\* check_ytdlp looks at the disk for the silent check.
SilentLooks ==
  /\ silent = "asked"
  /\ silent' = IF Missing(installed) THEN "missing" ELSE "present"
  /\ UNCHANGED <<dialogs, startup, checks, calls, fetching, air, staged, installed, running, budget>>
\* Its answer: the setup is shown; with all tools there, or when a call has failed, nothing.
SilentNeedsSetup ==
  /\ silent = "missing" /\ silent' = "needsSetup"
  /\ ShowTools(Setup)
  /\ UNCHANGED <<update, startup, checks, calls, fetching, air, staged, installed, running, budget>>
SilentIsReady ==
  /\ silent \in {"asked", "missing", "present"} /\ silent' = "ready"
  /\ UNCHANGED <<dialogs, startup, checks, calls, fetching, air, staged, installed, running, budget>>

----------------------------------------------------------------------------
\* The menu, which no dialog may cover.
Menu == running /\ update = "none" /\ tools = Closed /\ clicks < MaxMenu /\ clicks' = clicks + 1

\* handleCheckAppUpdate.
HandleCheckAppUpdate ==
  /\ Menu
  /\ checks' = checks + 1
  /\ ShowUpdate("checking")
  /\ UNCHANGED <<tools, startup, silent, calls, fetching, air, staged, installed, running, fetches, events>>
CheckAnswered ==
  /\ checks > 0 /\ checks' = checks - 1
  /\ \E stage \in {"available", "uptodate", "error"} : ShowUpdate(stage)
  /\ UNCHANGED <<tools, startup, silent, calls, fetching, air, staged, installed, running, budget>>

\* handleCheckMediaToolsPresence, handleCheckMediaToolsUpdate and, from the menu,
\* handleInstallYTDLP.
HandleMediaTools ==
  /\ Menu
  /\ \E op \in {"presence", "update", "install"} :
       calls' = Plus(calls, Call(op, FALSE, "none"))
  /\ ShowTools(View("loading", FALSE))
  /\ UNCHANGED <<update, startup, silent, checks, fetching, air, staged, installed, running, fetches, events>>
\* handleInstallYTDLP from the dialog: it is mandatory as long as the dialog was.
HandleInstallYTDLP ==
  /\ running /\ ToolsReached /\ tools.shows = "missing"
  /\ calls' = Plus(calls, Call("install", tools.mandatory, "none"))
  /\ ShowTools(View("loading", tools.mandatory))
  /\ UNCHANGED <<update, startup, silent, checks, fetching, air, staged, installed, running, budget>>

\* The backend does what a call asks: CheckYTDLP looks, CheckYTDLPUpdate installs a missing
\* FFmpeg, InstallYTDLP both, as far as the network allows. Without yt-dlp an install fails.
Does(op) == [presence |-> {}, update |-> {"ffmpeg"}, install |-> Tool][op]
AnswerOf(op, have) ==
  IF op = "install" THEN IF "ytdlp" \in have THEN "success" ELSE "failed"
  ELSE IF Missing(have) THEN "missing" ELSE "success"
BackendServes ==
  \E call \in BagToSet(calls) :
    /\ call.answer = "none"
    /\ \E got \in SUBSET Does(call.op) :
         /\ installed' = installed \cup got
         /\ calls' = Swap(calls, call, [call EXCEPT !.answer = AnswerOf(call.op, installed')])
    /\ UNCHANGED <<dialogs, startup, silent, checks, fetching, air, staged, running, budget>>

\* Mutant: a failed install forgets that the setup was mandatory.
OutcomeForgets(call) ==
  View(IF call.answer # "failed" THEN call.answer ELSE IF call.op = "install" THEN "missing" ELSE "failed",
       FALSE)

\* Mutant: the failure of an install is not caught, the dialog waits on.
OutcomeUncaught(call) ==
  IF call.answer = "failed" THEN View("loading", call.mandatory) ELSE View(call.answer, FALSE)

\* The handler goes on: only a failed install offers to install again, still mandatory if
\* it was; a failed check may just be closed.
Outcome(call) ==
  IF call.answer = "failed"
    THEN IF call.op = "install" THEN View("missing", call.mandatory) ELSE View("failed", FALSE)
    ELSE View(call.answer, FALSE)

ToolsAnswered ==
  \E call \in BagToSet(calls) :
    /\ \/ call.answer # "none" /\ ShowTools(Outcome(call))
       \/ ShowTools(Outcome([call EXCEPT !.answer = "failed"]))          \* invoke throws
    /\ calls' = calls (-) One(call)
    /\ UNCHANGED <<update, startup, silent, checks, fetching, air, staged, installed, running, budget>>

----------------------------------------------------------------------------
\* handleStartAppUpdate.
HandleStartAppUpdate ==
  /\ running /\ UpdateReached /\ update = "available" /\ fetches < MaxFetches
  /\ fetches' = fetches + 1 /\ fetching' = fetching + 1
  /\ Restage("downloading")
  /\ UNCHANGED <<startup, silent, checks, calls, air, staged, installed, running, clicks, events>>

\* InstallAppUpdate: events while the file grows; at the end the last progress event, the
\* ready event and the answer; a failure is only answered.
FetchProgresses ==
  /\ fetching > 0 /\ events < MaxProgress /\ events' = events + 1
  /\ air' = Plus(air, "progress")
  /\ UNCHANGED <<dialogs, startup, silent, checks, calls, fetching, staged, installed, running, clicks, fetches>>
FetchEnds ==
  /\ fetching > 0 /\ fetching' = fetching - 1
  /\ staged' = TRUE
  /\ air' = air (+) SetToBag({"progress", "ready", "fetched"})
  /\ UNCHANGED <<dialogs, startup, silent, checks, calls, installed, running, budget>>
FetchFails ==
  /\ fetching > 0 /\ fetching' = fetching - 1
  /\ air' = Plus(air, "failed")
  /\ UNCHANGED <<dialogs, startup, silent, checks, calls, staged, installed, running, budget>>

\* Mutant: the answer of install_app_update is a success unless it throws.
StageOfUnread(message) == IF message = "progress" THEN "downloading" ELSE "ready"

\* The listeners of progress and ready, and the end of handleStartAppUpdate.
StageOf(message) ==
  CASE message = "progress" -> "downloading"
    [] message \in {"ready", "fetched"} -> "ready"
    [] message = "failed" -> "error"

Hear ==
  \E message \in BagToSet(air) :
    /\ Restage(StageOf(message))
    /\ air' = air (-) One(message)
    /\ UNCHANGED <<startup, silent, checks, calls, fetching, staged, installed, running, budget>>

----------------------------------------------------------------------------
\* Later, OK or a click beside the dialog: the tools' check left for later is made.
DismissUpdate ==
  /\ running /\ UpdateReached /\ Closable
  /\ update' = "none"
  /\ CheckSilently(tools)
  /\ top' = IF tools = Closed /\ tools' # Closed THEN "tools" ELSE top
  /\ UNCHANGED <<startup, checks, calls, fetching, air, staged, installed, running, budget>>
DismissTools ==
  /\ running /\ ToolsReached /\ ToolsClosable
  /\ tools' = Closed
  /\ UNCHANGED <<update, top, startup, silent, checks, calls, fetching, air, staged, installed, running, budget>>

\* Escape reaches both.
Escape ==
  /\ running /\ (Closable \/ ToolsClosable)
  /\ LET left == IF ToolsClosable THEN Closed ELSE tools
     IN IF Closable THEN update' = "none" /\ CheckSilently(left)
                    ELSE update' = update /\ tools' = left /\ silent' = silent
  /\ top' = IF tools' # Closed /\ (tools = Closed \/ ToolsClosable) THEN "tools" ELSE top
  /\ UNCHANGED <<startup, checks, calls, fetching, air, staged, installed, running, budget>>

\* handleRestartAppForUpdate: nothing happens, or the program ends.
HandleRestartAppForUpdate ==
  /\ running /\ UpdateReached /\ update = "ready"
  /\ running' = FALSE
  /\ UNCHANGED <<dialogs, startup, silent, checks, calls, fetching, air, staged, installed, budget>>

Startup == StartupAsks \/ StartupOffers \/ StartupFindsNone
Silent == SilentLooks \/ SilentNeedsSetup \/ SilentIsReady
Backend == BackendServes \/ FetchProgresses \/ FetchEnds \/ FetchFails
Answers == CheckAnswered \/ ToolsAnswered \/ Hear
UpdaterUser ==
  \/ HandleCheckAppUpdate \/ HandleMediaTools \/ HandleInstallYTDLP \/ HandleStartAppUpdate
  \/ HandleRestartAppForUpdate \/ DismissUpdate \/ DismissTools \/ Escape

UpdaterNext == (running /\ (Startup \/ Silent \/ Backend \/ Answers)) \/ UpdaterUser

UpdaterSpec == UpdaterInit /\ [][UpdaterNext]_updaterVars
\* The backend serves every call, and its answers arrive.
FairSpec ==
  /\ UpdaterSpec
  /\ WF_updaterVars(running /\ CheckAnswered)
  /\ WF_updaterVars(running /\ BackendServes)
  /\ WF_updaterVars(running /\ ToolsAnswered)

----------------------------------------------------------------------------
UpdaterTypeOK ==
  /\ update \in Stage \cup {"none"}
  /\ tools \in [shows : {"none", "loading", "success", "missing", "failed"}, mandatory : BOOLEAN]
  /\ top \in {"update", "tools"}
  /\ startup \in {"version", "asked", "done"}
  /\ silent \in {"unasked", "asked", "missing", "present", "needsSetup", "ready"}
  /\ checks \in 0..MaxMenu
  /\ BagToSet(calls) \subseteq [op : {"presence", "update", "install"}, mandatory : BOOLEAN,
                                 answer : {"none", "missing", "success", "failed"}]
  /\ BagToSet(air) \subseteq {"progress", "ready", "fetched", "failed"}
  /\ fetching \in 0..MaxFetches
  /\ staged \in BOOLEAN /\ running \in BOOLEAN
  /\ installed \in SUBSET Tool
  /\ clicks \in 0..MaxMenu /\ fetches \in 0..MaxFetches /\ events \in 0..MaxProgress

\* "Restart & Apply Update" is offered only once a download has been stored whole: not
\* after one that failed (install_app_update answers a failure, it does not throw), and
\* whatever order the events, the answers and the checks of two downloads come in
\* (handleStartAppUpdate, the listeners).
ReadyIsStaged == UpdaterTypeOK /\ (update = "ready" => staged)

\* The mandatory setup stays until yt-dlp is there, through failed installs and Escape,
\* or until the answer of a call made before it was shown takes its place
\* (handleInstallYTDLP, UpdateBannerModal's guards, Header's Escape).
MandatoryHolds == [][
  (tools.mandatory /\ ~tools'.mandatory) =>
     \/ "ytdlp" \in installed
     \/ \E call \in BagToSet(calls) : ~call.mandatory /\ calls' = calls (-) One(call)]_updaterVars

\* A dialog that waits, and cannot be closed while it does, gets its answer: a check of
\* the menu ends, and so does the work on the tools, although the startup's checks and
\* the events of a download replace what is shown.
Settles == []<>(~running \/ update # "checking") /\ []<>(~running \/ tools.shows # "loading")

=============================================================================
