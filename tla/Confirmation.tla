---------------------------- MODULE Confirmation ----------------------------
\* The window that asks before a download starts (DownloadStartConfirmation.tsx and
\* confirmation/utils.ts). It asks the engine about the URL in its box (a probe) at
\* once when the cookies, the protocol or the payload change, and a moment after the
\* box or the cookies have changed. React callbacks see the state of the render
\* that made them: a probe and a timer carry the values they were started with.
EXTENDS Integers, Bags, BagsExt, FiniteSets

CONSTANTS
  Url, NoUrl,
  Site,         \* Site[u]: its host name
  Kind,         \* Kind[u]: the protocol its text tells, "Auto" when it tells none
  Served,       \* Served[u]: the protocols a probe of u may find
  HasName,      \* the URLs that name a file
  Typed,        \* the URLs the user may put in the box
  Choices,      \* the protocols the user may choose
  Bypass,       \* the <<rules, site, protocol class>> for which cookies are bypassed
  Payloads,     \* what the window may be opened with: [url, protocol, cookie]
  Copies,       \* how often the window gets its payload: read once, sent as two events
  MaxEdits, MaxProbes

Protocol == {"Auto", "HTTP", "HLS", "Yt-DLP", "Torrent"}

ASSUME ConstantsAssumption ==
  /\ NoUrl \notin Url
  /\ Kind \in [Url -> Protocol]
  /\ Served \in [Url -> SUBSET Protocol]
  /\ HasName \subseteq Url
  /\ Payloads \subseteq [url : Url, protocol : Protocol \cup {"none"}, cookie : BOOLEAN]
  /\ Typed \subseteq Url \cup {NoUrl}
  /\ Choices \subseteq Protocol
  /\ \A i \in {Copies, MaxEdits, MaxProbes} : i \in Nat

VARIABLES
  w,            \* the window's React state, refs and timers, a record
  probes,       \* the calls of fetch_file_info_command under way, a bag
  naming,       \* the URLs whose file name is being made unique
  payload,      \* what the window was opened with, one of Payloads
  unread,       \* the copies of it the window may still receive
  loaded,       \* loadInitialEngineAndQueues has answered
  sending,      \* the tasks of the submissions under way, a bag
  open,
  edits,        \* what the user has done so far
  calm          \* the box [url] and the folder [path] last changed with nothing under way,
                \* and no protocol was chosen by hand since

vars == <<w, probes, naming, payload, unread, loaded, sending, open, edits, calm>>

Rules == {"default", "loaded"}
NoKey == <<>>
Key == Url \X Protocol \X BOOLEAN
Off == [on |-> FALSE]

\* What the protocol of a URL is for the cookie rules (normalizeProtocolCategory).
Class(u, p) ==
  CASE p = "Yt-DLP" \/ (p = "Auto" /\ Kind[u] = "Yt-DLP") -> "ytdlp"
    [] p = "HLS" \/ (p \in {"Auto", "HTTP", "Torrent"} /\ Kind[u] = "HLS") -> "hls"
    [] OTHER -> "http"

Bypassed(u, p, rules) == <<rules, Site[u], Class(u, p)>> \in Bypass

Blank ==
  [url |-> NoUrl, protocol |-> "Auto", rules |-> "default",
   cookie |-> TRUE, manual |-> FALSE, evaluated |-> {}, site |-> "none",
   path |-> "folder", custom |-> FALSE,
   size |-> NoUrl, name |-> NoUrl, fetched |-> FALSE, fetching |-> FALSE,
   inFlight |-> FALSE, lastKey |-> NoKey, cache |-> {},
   urlTimer |-> Off, credTimer |-> Off]

Init ==
  /\ w = Blank /\ probes = EmptyBag /\ naming = {}
  /\ payload \in Payloads /\ unread = Copies
  /\ loaded = FALSE
  /\ sending = EmptyBag /\ open = TRUE
  /\ edits = 0
  /\ calm = [url |-> TRUE, path |-> TRUE]

-----------------------------------------------------------------------------
\* handleRefreshInfo and the effects, on a state s = [w, probes, naming].

KeyOf(c) == <<c.url, c.protocol, c.cookie>>

Start(s, c) ==
  [s EXCEPT !.w = [@ EXCEPT !.lastKey = KeyOf(c), !.inFlight = TRUE, !.fetching = TRUE],
            !.probes = BagAdd(@, c)]

\* A probe that is not forced is answered from the cache when it asks what was asked
\* last or while another is under way, and gives way to the one under way.
Probe(s, c, force) ==
  LET skip == ~force /\ (KeyOf(c) = s.w.lastKey \/ s.w.inFlight)
  IN CASE skip /\ KeyOf(c) \in s.w.cache ->
            [s EXCEPT !.w = [@ EXCEPT !.size = c.url, !.fetched = TRUE]]
       [] skip /\ KeyOf(c) \notin s.w.cache /\ s.w.inFlight -> s
       [] OTHER -> Start(s, c)

ClosureOfMount(v) == [url |-> v.url, protocol |-> v.protocol, was |-> v.protocol,
                      cookie |-> v.cookie, custom |-> FALSE]

\* What a callback of this render captures.
Closure(v) == [url |-> v.url, protocol |-> v.protocol, was |-> v.protocol,
               cookie |-> v.cookie, custom |-> v.custom]

NewSiteUnevaluated(v) ==
  IF v.site = Site[v.url] THEN v ELSE [v EXCEPT !.site = Site[v.url], !.manual = FALSE]

NewSite(v) == IF v.site = Site[v.url] THEN v
              ELSE [v EXCEPT !.site = Site[v.url], !.manual = FALSE, !.evaluated = {}]

CookieEffect(s) ==
  IF s.w.url = NoUrl THEN s
  ELSE LET v == NewSite(s.w)
           ruled == ~Bypassed(v.url, v.protocol, v.rules)
           t == [s EXCEPT !.w = [v EXCEPT !.evaluated = {ruled}, !.cookie = ruled]]
       IN IF v.manual \/ v.evaluated = {ruled} THEN [s EXCEPT !.w = v]
          ELSE Probe(t, [Closure(v) EXCEPT !.cookie = ruled], TRUE)

\* The protocol analyzeUrlProtocolAndFilename gives: the state's one sticks.
NextProtocol(u, p) ==
  CASE "Torrent" \in {p, Kind[u]} -> "Torrent"
    [] "Yt-DLP" \in {p, Kind[u]} -> "Yt-DLP"
    [] "HLS" \in {p, Kind[u]} -> "HLS"
    [] OTHER -> p

Named(u, p) == u \in HasName \/ NextProtocol(u, p) \in {"Torrent", "Yt-DLP"}

\* A torrent takes the name the window shows before that of its own link.
CleanName(v) == IF NextProtocol(v.url, v.protocol) = "Torrent" /\ v.name # NoUrl
                  THEN v.name ELSE v.url

UrlEffect(s) ==
  LET v == s.w
  IN CASE v.url = NoUrl ->
            [s EXCEPT !.w = [v EXCEPT !.name = NoUrl,
                                      !.path = IF v.custom THEN @ ELSE "folder",
                                      !.urlTimer = Off]]
       [] v.url # NoUrl /\ Named(v.url, v.protocol) ->
            [s EXCEPT !.w = [v EXCEPT !.protocol = NextProtocol(v.url, v.protocol),
                                      !.path = IF v.custom THEN @ ELSE "folder",
                                      !.urlTimer = [on |-> TRUE, custom |-> v.custom]],
                      !.naming = @ \cup {CleanName(v)}]
       [] OTHER ->
            [s EXCEPT !.w = [v EXCEPT !.name = NoUrl, !.path = "folder",
                                      !.fetched = FALSE, !.urlTimer = Off]]

CredEffect(s) ==
  LET v == s.w
  IN [s EXCEPT !.w = [v EXCEPT !.credTimer =
        IF v.url = NoUrl THEN Off
        ELSE [on |-> TRUE, url |-> v.url, protocol |-> v.protocol, custom |-> v.custom]]]

S == [w |-> w, probes |-> probes, naming |-> naming]

\* The handler leaves the state s, and the effects its changes set off run; `fresh`:
\* values React compares by identity (rules, paths) were set anew. Only the change of
\* protocol UrlEffect makes can call for a second round.
Becomes(state, fresh) ==
  \E s \in {state} :
  LET moved == \/ fresh
               \/ <<w.url, w.protocol, w.cookie>> # <<s.w.url, s.w.protocol, s.w.cookie>>
  IN \E a \in {IF moved THEN CookieEffect(s) ELSE s} :
     \E b \in {IF moved THEN UrlEffect(a) ELSE a} :
     \E c \in {IF b.w.protocol # a.w.protocol THEN CookieEffect(b) ELSE b} :
     \E d \in {IF b.w.protocol # a.w.protocol THEN UrlEffect(c) ELSE c} :
     \E e \in {IF w.cookie # d.w.cookie THEN CredEffect(d) ELSE d} :
       /\ BagCardinality(e.probes) <= MaxProbes
       /\ w' = e.w
       /\ probes' = e.probes
       /\ naming' = e.naming

-----------------------------------------------------------------------------
\* Nothing the window waits for concerns what it shows: no probe, timer or name.
Idle == probes = EmptyBag /\ naming = {} /\ ~w.urlTimer.on /\ ~w.credTimer.on
Quiet == Idle /\ unread = 0 /\ loaded

\* The engine's settings, or the defaults when there are none stored.
LoadInitialEngineAndQueues(v) == [v EXCEPT !.rules = "loaded", !.path = "folder"]

EngineLoaded ==
  /\ open /\ ~loaded
  /\ loaded' = TRUE
  /\ Becomes([S EXCEPT !.w = LoadInitialEngineAndQueues(w)], TRUE)
  /\ UNCHANGED <<payload, unread, sending, open, edits, calm>>

PayloadProtocol(current) == IF payload.protocol = "none" THEN current ELSE payload.protocol

\* The payload of the window: read once, then sent as two events. Its callback is of
\* the first render, and so are the values its probe captures.
ApplyPayload ==
  LET u == payload.url
      cookie == payload.cookie
      v == [w EXCEPT !.rules = "loaded", !.path = "folder", !.manual = FALSE,
                     !.evaluated = {cookie}, !.cookie = cookie, !.url = u,
                     !.protocol = PayloadProtocol(@)]
      c == [url |-> u, protocol |-> PayloadProtocol("Auto"), was |-> "Auto",
            cookie |-> cookie, custom |-> FALSE]
  IN /\ open /\ unread > 0
     /\ unread' = unread - 1
     /\ Becomes(Probe([S EXCEPT !.w = v], c, TRUE), TRUE)
     /\ calm' = [calm EXCEPT !.url = /\ (@ /\ w.url = u) \/ Idle
                                     /\ v.protocol \in Served[u] \cup {"Auto"}]
     /\ UNCHANGED <<payload, loaded, sending, open, edits>>

\* An event sent before the window listens, and a window opened without a URL.
MissPayload ==
  /\ open /\ unread > 0
  /\ unread' = unread - 1
  /\ UNCHANGED <<w, probes, naming, payload, loaded, sending, open, edits, calm>>

\* The timer of the URL effect is made anew with every change of what it reads but
\* the folder.
UrlTimer ==
  /\ open /\ w.urlTimer.on
  /\ LET c == [Closure(w) EXCEPT !.custom = w.urlTimer.custom,
                 !.cookie = IF w.manual THEN @ ELSE ~Bypassed(w.url, w.protocol, w.rules)]
     IN Becomes(Probe([S EXCEPT !.w = [w EXCEPT !.urlTimer = Off]], c, FALSE), FALSE)
  /\ UNCHANGED <<payload, unread, loaded, sending, open, edits, calm>>

\* That of the credentials effect keeps the URL it was set with.
CredTimer ==
  /\ open /\ w.credTimer.on
  /\ LET t == w.credTimer
         c == [Closure(w) EXCEPT !.url = t.url, !.protocol = t.protocol,
                                 !.was = t.protocol, !.custom = t.custom]
     IN Becomes(Probe([S EXCEPT !.w = [w EXCEPT !.credTimer = Off]], c, FALSE), FALSE)
  /\ UNCHANGED <<payload, unread, loaded, sending, open, edits, calm>>

Over(s, c) ==
  [s EXCEPT !.probes = BagRemove(@, c),
            !.w = [@ EXCEPT !.inFlight = FALSE, !.fetching = FALSE]]

Found(was, served) ==
  CASE "Torrent" \in {was, served} -> {"Torrent"}
    [] "Yt-DLP" \in {was, served} -> {"Yt-DLP"}
    [] "HLS" \in {was, served} -> {"HLS"}
    [] OTHER -> {}

Answered(c, served) ==
  LET s == Over(S, c)
      v == s.w
      p == Found(c.was, served)
  IN [s EXCEPT !.w = [v EXCEPT !.cache = @ \cup {KeyOf(c)}, !.size = c.url, !.fetched = TRUE,
                               !.protocol = IF p = {} THEN @ ELSE CHOOSE q \in p : TRUE,
                               !.path = IF c.custom THEN @ ELSE "folder"],
               !.naming = @ \cup {c.url}]

RefusedHeld(c) ==
  [S EXCEPT !.probes = BagRemove(@, c), !.w.fetching = FALSE,
            !.w.size = NoUrl, !.w.fetched = FALSE]

RefusedShown(c) == [Over(S, c) EXCEPT !.w.size = NoUrl]

Refused(c) == [Over(S, c) EXCEPT !.w = [@ EXCEPT !.size = NoUrl, !.fetched = FALSE]]

ProbeOver ==
  /\ open
  /\ \E c \in BagToSet(probes) :
       \/ \E served \in Served[c.url] : Becomes(Answered(c, served), FALSE)
       \/ Becomes(Refused(c), FALSE)
  /\ UNCHANGED <<payload, unread, loaded, sending, open, edits, calm>>

\* resolve_unique_filename_command answers.
NameResolved ==
  /\ open
  /\ \E u \in naming : naming' = naming \ {u} /\ w' = [w EXCEPT !.name = u]
  /\ UNCHANGED <<probes, payload, unread, loaded, sending, open, edits, calm>>

-----------------------------------------------------------------------------
\* The user.

Edit(s) ==
  /\ open /\ edits < MaxEdits
  /\ edits' = edits + 1
  /\ Becomes(s, FALSE)
  /\ UNCHANGED <<payload, unread, loaded, sending, open>>

EditUrl(u) ==
  /\ u # w.url
  /\ Edit([S EXCEPT !.w = [w EXCEPT !.url = u]])
  /\ calm' = [url |-> Quiet, path |-> calm.path /\ u \in HasName \cup {NoUrl}]

\* handleToggleUseCookie
ToggleUseCookie ==
  LET v == [w EXCEPT !.manual = TRUE, !.cookie = ~@]
      s == [S EXCEPT !.w = v]
  IN /\ Edit(IF w.url = NoUrl THEN s
             ELSE Probe(s, [Closure(w) EXCEPT !.cookie = v.cookie], TRUE))
     /\ UNCHANGED calm

\* handleProtocolChange: with an empty box the forced probe returns at once.
ProtocolChange(p) ==
  LET s == [S EXCEPT !.w = [w EXCEPT !.protocol = p]]
  IN /\ p # w.protocol
     /\ Edit(IF w.url = NoUrl THEN s
             ELSE Probe(s, [Closure(w) EXCEPT !.protocol = p], TRUE))
     /\ calm' = [calm EXCEPT !.url = FALSE]

\* The refresh button, disabled while a probe is under way.
RefreshInfo ==
  /\ w.url # NoUrl /\ ~w.fetching
  /\ Edit(Probe(S, Closure(w), FALSE))
  /\ UNCHANGED calm

\* handlePickSavePath, and typing a path.
PickSavePath ==
  /\ Edit([S EXCEPT !.w = [w EXCEPT !.path = "picked", !.custom = TRUE]])
  /\ calm' = [calm EXCEPT !.path = Quiet /\ w.url \in HasName]

\* handleCategoryChange and handleUseCategoryToggle
CategoryChange ==
  /\ Edit([S EXCEPT !.w = [w EXCEPT !.path = "folder", !.custom = FALSE]])
  /\ UNCHANGED calm

\* resolveFinalDownloadTarget: a folder not picked by hand is that of the category (with
\* categories off, the base folder).
FinalTarget(v) ==
  [url |-> v.url, cookie |-> v.cookie, path |-> IF v.custom THEN v.path ELSE "folder"]

\* handleDownloadNow and handleAddOnly: nothing but a probe disables their buttons.
Submit ==
  /\ open /\ w.url # NoUrl /\ ~w.fetching
  /\ edits < MaxEdits
  /\ edits' = edits + 1
  /\ sending' = BagAdd(sending, FinalTarget(w))
  /\ UNCHANGED <<w, probes, naming, payload, unread, loaded, open, calm>>

\* Closing ends all the window had under way.
Gone ==
  /\ open' = FALSE
  /\ w' = Blank /\ probes' = EmptyBag /\ naming' = {} /\ sending' = EmptyBag
  /\ unread' = 0 /\ loaded' = FALSE
  /\ calm' = [url |-> TRUE, path |-> TRUE]

\* executeDownloadNowTask or executeAddOnlyTask has stored and started the task; the
\* window closes, though maybe not before a second click's task.
Created ==
  /\ open /\ sending # EmptyBag
  /\ \/ Gone
     \/ /\ \E task \in BagToSet(sending) : sending' = BagRemove(sending, task)
        /\ UNCHANGED <<w, probes, naming, unread, loaded, open, calm>>
  /\ UNCHANGED <<payload, edits>>

Close ==
  /\ open
  /\ Gone
  /\ UNCHANGED <<payload, edits>>

User ==
  \/ \E u \in Typed : EditUrl(u)
  \/ ToggleUseCookie
  \/ \E p \in Choices : ProtocolChange(p)
  \/ RefreshInfo
  \/ PickSavePath
  \/ CategoryChange
  \/ Submit
  \/ Close

Next ==
  \/ EngineLoaded
  \/ ApplyPayload
  \/ MissPayload
  \/ UrlTimer
  \/ CredTimer
  \/ ProbeOver
  \/ NameResolved
  \/ Created
  \/ User

\* Timers fire, and the engine answers every call, in whatever order.
Fairness == WF_vars(UrlTimer \/ CredTimer \/ ProbeOver)

Spec == Init /\ [][Next]_vars /\ Fairness

-----------------------------------------------------------------------------
Snapshot == [url : Url, protocol : Protocol, was : Protocol, cookie : BOOLEAN,
             custom : BOOLEAN]

Window ==
  [url : Url \cup {NoUrl}, protocol : Protocol, rules : Rules, cookie : BOOLEAN,
   manual : BOOLEAN, evaluated : {{}, {TRUE}, {FALSE}}, site : {Site[u] : u \in Url} \cup {"none"},
   path : {"folder", "picked"}, custom : BOOLEAN,
   size : Url \cup {NoUrl}, name : Url \cup {NoUrl}, fetched : BOOLEAN, fetching : BOOLEAN,
   inFlight : BOOLEAN, lastKey : Key \cup {NoKey}, cache : SUBSET Key,
   urlTimer : {Off} \cup [on : {TRUE}, custom : BOOLEAN],
   credTimer : {Off} \cup [on : {TRUE}, url : Url, protocol : Protocol, custom : BOOLEAN]]

\* The kinds of value the variables hold.
TypeOK ==
  /\ w \in Window
  /\ BagToSet(probes) \subseteq Snapshot
  /\ naming \subseteq Url
  /\ payload \in Payloads /\ unread \in 0..Copies
  /\ loaded \in BOOLEAN /\ open \in BOOLEAN
  /\ BagToSet(sending) \subseteq [url : Url, cookie : BOOLEAN, path : {"folder", "picked"}]
  /\ edits \in 0..MaxEdits
  /\ calm \in [url : BOOLEAN, path : BOOLEAN]

\* Unless the user has switched them, the cookies go with the URL exactly when the
\* rules in force do not bypass its site for the protocol shown, whatever order the
\* box, the protocol a probe found, the rules and the payload change in.
CookiesAsRuled ==
  w.url \in Url /\ ~w.manual => w.cookie = ~Bypassed(w.url, w.protocol, w.rules)

\* A folder picked while nothing was under way stays the one the task is saved to:
\* no probe started, timer set or URL detected later puts the category's back.
PickedFolderKept ==
  w.custom /\ calm.path => FinalTarget(w).path = "picked"

\* The window says "Checking..." and locks its buttons only while a probe is under way;
\* and when the box last changed with nothing under way and all has settled since, the
\* size and the name shown as fetched are those of the URL in the box (the name but
\* for a torrent, which may keep that of the link before it, even when a second copy of
\* the payload sets another protocol again). For a URL that names no
\* file it need not be: a late engine list clears the name it was given, and a cached
\* answer then calls that state fetched again.
ShownIsChecked ==
  /\ TypeOK
  /\ w.fetching => probes # EmptyBag
  /\ calm.url /\ Quiet /\ w.url \in HasName /\ w.fetched =>
       /\ w.size = w.url
       /\ w.protocol # "Torrent" => w.name = w.url

\* A URL put in the box with nothing under way gets its own answer: the probe skipped
\* in favour of another one is not lost, and probes do not set off one another for ever
\* (as two can once a protocol was chosen by hand, each answer putting back its own).
UrlTold == ~w.fetching /\ w.lastKey # NoKey /\ w.lastKey[1] = w.url
Checked == []<>(open /\ calm.url /\ w.url \in HasName => UrlTold)
=============================================================================
