----------------------------- MODULE VideoBadge -----------------------------
\* The download badge the content script of the browser extension draws on videos
\* (src/extension/src/content.js). In "hover" mode one badge follows the pointer and
\* goes a delay after the pointer has left; in "always" mode every video in view has
\* one, redrawn by an animation frame after a change of the page and by a settle
\* timer after a scroll. The mode may change while any of these is pending.
EXTENDS Integers, FiniteSets

CONSTANTS
  Video,        \* the video elements a page may hold
  NoVideo,
  Place,        \* spots in the window where a badge fits
  OutOfView     \* the place of a video whose badge would not fit the window

ASSUME BadgeAssumption ==
  /\ NoVideo \notin Video
  /\ OutOfView \notin Place

VARIABLES
  feed,         \* the page is one of reels: one badge at most
  mode,         \* getEffectiveBadgeMode() of the content script's config
  place,        \* place[v]: where video v is, "gone" when the page has no such video
  pointer,      \* what the last pointer event was over: a video, the badge, the page
  over,         \* isMouseOverBadge
  timer,        \* unhoverTimer is set
  hover,        \* the hover badge: [shown, of], of = currentActiveVideo
  badges,       \* alwaysActiveBadges: "none", "hidden" or "shown" for each video
  dismissed,    \* dismissedVideos
  frame,        \* rafAlwaysScheduled
  settle,       \* scrollSettleTimer is pending
  quiet         \* since the last update nothing changed that no event announces

scene == <<feed, mode, place, pointer, quiet>>
hovers == <<over, timer, hover>>
always == <<badges, dismissed, frame, settle>>
badgeVars == <<feed, mode, place, pointer, over, timer, hover, badges, dismissed, frame, settle,
          quiet>>

Absent == "gone"
Here == {v \in Video : place[v] # Absent}
InView == {v \in Video : place[v] \in Place}
Pointer == Video \cup {"badge", "page", "unseen"}

BadgeInit ==
  /\ feed \in BOOLEAN
  /\ mode = "never"
  /\ place \in [Video -> Place \cup {OutOfView, Absent}]
  /\ pointer = "unseen"
  /\ over = FALSE /\ timer = FALSE
  /\ hover = [shown |-> FALSE, of |-> NoVideo]
  /\ badges = [v \in Video |-> "none"]
  /\ dismissed = {}
  /\ frame = FALSE /\ settle = FALSE
  /\ quiet = TRUE

-----------------------------------------------------------------------------
\* The hover badge.

HideBadgeImmediately ==
  /\ timer' = FALSE
  /\ hover' = [hover EXCEPT !.shown = FALSE]

ShowHoverBadgeForVideo(v) ==
  IF v \in InView
    THEN hover' = [shown |-> TRUE, of |-> v] /\ timer' = FALSE
    ELSE HideBadgeImmediately

\* mouseenter and mouseleave of the badge come before the document's mousemove:
\* leaving it arms the timer, entering it clears the timer.
Leaves == over /\ pointer = "badge"

MouseMoveUnarmed(p) ==
  CASE mode = "hover" /\ ~over' /\ p \in Video -> ShowHoverBadgeForVideo(p)
    [] OTHER -> UNCHANGED hover /\ timer' = (timer \/ Leaves)

MouseMove(p) ==
  CASE mode # "hover" \/ over' -> UNCHANGED hover /\ timer' = (timer \/ Leaves)
    [] mode = "hover" /\ ~over' /\ p \in Video -> ShowHoverBadgeForVideo(p)
    [] OTHER -> UNCHANGED hover /\ timer' = (timer \/ Leaves \/ hover.shown)

MovePointer(p) ==
  /\ p \in Here \cup {"page"} \cup (IF hover.shown THEN {"badge"} ELSE {})
  /\ pointer' = p
  /\ IF p = "badge"
       THEN over' = TRUE /\ timer' = FALSE /\ UNCHANGED hover
       ELSE over' = (over /\ ~Leaves) /\ MouseMove(p)
  /\ UNCHANGED <<feed, mode, place, quiet, always>>

\* The pointer leaves the window: the badge hears of it, the document does not.
LeaveWindow ==
  /\ pointer' = "unseen"
  /\ over' = (over /\ ~Leaves)
  /\ timer' = (timer \/ Leaves)
  /\ UNCHANGED <<feed, mode, place, quiet, hover, always>>

\* The timer of scheduleHide. When the pointer is back over the badge it does
\* nothing, and leaves its number in unhoverTimer.
HideTimer ==
  /\ timer
  /\ IF over THEN UNCHANGED <<timer, hover>> ELSE HideBadgeImmediately
  /\ UNCHANGED <<scene, over, always>>

CloseHoverBadge ==
  /\ hover.shown /\ pointer = "badge"
  /\ HideBadgeImmediately
  /\ UNCHANGED <<scene, over, always>>

\* The page throws the badge element away, under the pointer or not: no mouseleave
\* comes from an element that is gone.
BadgeRemoved ==
  /\ hover.shown
  /\ hover' = [hover EXCEPT !.shown = FALSE]
  /\ pointer' = IF pointer = "badge" THEN "unseen" ELSE pointer
  /\ UNCHANGED <<feed, mode, place, quiet, over, timer, always>>

-----------------------------------------------------------------------------
\* The badges of the "always" mode.

HideAll == [v \in Video |-> IF badges[v] = "none" THEN "none" ELSE "hidden"]

\* updateAlwaysBadges takes candidates in an order of its own: of two at one spot it
\* keeps one, and of a feed it keeps one in all.
Accepted(c) ==
  {s \in SUBSET c :
     /\ \A v, w \in s : v # w => place[v] # place[w] /\ ~feed
     /\ \A v \in c \ s : \E w \in s : place[v] = place[w] \/ feed}

Candidates == InView \ dismissed

UpdateInAnyMode ==
  /\ \E s \in Accepted(Candidates) :
       badges' = [v \in Video |-> IF v \in s THEN "shown" ELSE HideAll[v]]
  /\ quiet' = TRUE

UpdateAlwaysBadges ==
  IF mode # "always"
    THEN badges' = HideAll /\ UNCHANGED quiet
    ELSE /\ \E s \in Accepted(Candidates) :
              badges' = [v \in Video |->
                CASE v \in s -> "shown"
                  [] v \in Here \ s /\ badges[v] # "none" -> "hidden"
                  [] OTHER -> "none"]
         /\ quiet' = TRUE

\* A badge element made or removed changes the page: the observer asks for a frame.
PageChanged ==
  \E v \in Video : (badges[v] = "none") # (badges'[v] = "none")

AnimationFrame ==
  /\ frame
  /\ UpdateAlwaysBadges
  /\ frame' = PageChanged
  /\ UNCHANGED <<feed, mode, place, pointer, hovers, dismissed, settle>>

Settled ==
  /\ settle
  /\ settle' = FALSE
  /\ UpdateAlwaysBadges
  /\ frame' = (frame \/ PageChanged)
  /\ UNCHANGED <<feed, mode, place, pointer, hovers, dismissed>>

CloseAlwaysBadge(v) ==
  /\ badges[v] = "shown"
  /\ dismissed' = dismissed \cup {v}
  /\ badges' = [badges EXCEPT ![v] = "hidden"]
  /\ quiet' = FALSE
  /\ UNCHANGED <<feed, mode, place, pointer, hovers, frame, settle>>

-----------------------------------------------------------------------------
\* The configuration and the page.

OnConfigUnscheduled(m) ==
  /\ mode' = m
  /\ HideBadgeImmediately
  /\ badges' = IF m = "always" THEN badges ELSE HideAll
  /\ UNCHANGED <<feed, place, pointer, quiet, over, dismissed, frame, settle>>

OnConfigUpdated(m) ==
  /\ mode' = m
  /\ HideBadgeImmediately
  /\ IF m = "always"
       THEN frame' = TRUE /\ UNCHANGED badges
       ELSE badges' = HideAll /\ UNCHANGED frame
  /\ UNCHANGED <<feed, place, pointer, quiet, over, dismissed, settle>>

\* A video that has gone, or moved, is no longer what the pointer is over.
Under(moved) == IF pointer \in moved THEN "unseen" ELSE pointer
Moved(to) == {v \in Video : to[v] # place[v]}

\* Scrolling and resizing the window.
Scroll ==
  \E to \in [Video -> Place \cup {OutOfView, Absent}] :
    /\ \A v \in Video : (to[v] = Absent) <=> (place[v] = Absent)
    /\ place' = to
    /\ pointer' = Under(Moved(to))
    /\ IF mode = "always"
         THEN badges' = HideAll /\ settle' = TRUE
         ELSE UNCHANGED <<badges, settle>>
    /\ IF mode = "hover" /\ hover.shown /\ to[hover.of] \notin Place
         THEN HideBadgeImmediately
         ELSE UNCHANGED <<timer, hover>>
    /\ UNCHANGED <<feed, mode, quiet, over, dismissed, frame>>

\* The page adds or removes a video, which the MutationObserver sees.
Mutation(v) ==
  \E p \in IF place[v] = Absent THEN Place \cup {OutOfView} ELSE {Absent} :
    /\ place' = [place EXCEPT ![v] = p]
    /\ pointer' = Under({v})
    /\ frame' = (frame \/ mode = "always")
    /\ UNCHANGED <<feed, mode, quiet, hovers, badges, dismissed, settle>>

\* A change of style moves or hides a video without any event.
Restyle(v) ==
  \E p \in Place \cup {OutOfView} :
    /\ place[v] # Absent
    /\ place' = [place EXCEPT ![v] = p]
    /\ pointer' = Under({v})
    /\ quiet' = FALSE
    /\ UNCHANGED <<feed, mode, hovers, always>>

BadgeNext ==
  \/ \E p \in Pointer : MovePointer(p)
  \/ LeaveWindow \/ HideTimer \/ CloseHoverBadge \/ BadgeRemoved
  \/ AnimationFrame \/ Settled \/ Scroll
  \/ \E v \in Video : CloseAlwaysBadge(v) \/ Mutation(v) \/ Restyle(v)
  \/ \E m \in {"never", "hover", "always"} : OnConfigUpdated(m)

\* The browser runs timers and animation frames.
BadgeFairness == WF_badgeVars(HideTimer) /\ WF_badgeVars(AnimationFrame) /\ WF_badgeVars(Settled)

BadgeSpec == BadgeInit /\ [][BadgeNext]_badgeVars /\ BadgeFairness

-----------------------------------------------------------------------------
\* Types of the content script's variables.
BadgeTypeOK ==
  /\ mode \in {"never", "hover", "always"}
  /\ place \in [Video -> Place \cup {OutOfView, Absent}]
  /\ pointer \in Pointer
  /\ {feed, over, timer, frame, settle, quiet} \subseteq BOOLEAN
  /\ hover \in [shown: BOOLEAN, of: Video \cup {NoVideo}]
  /\ hover.shown => hover.of \in Video
  /\ badges \in [Video -> {"none", "hidden", "shown"}]
  /\ dismissed \subseteq Video

Shown == {v \in Video : badges[v] = "shown"}

\* A badge is drawn only in the mode it belongs to, whatever frame, timer or pointer
\* event was pending when the user changed the mode.
OnlyInItsMode ==
  /\ BadgeTypeOK
  /\ hover.shown => mode = "hover"
  /\ Shown # {} => mode = "always"

\* When no frame and no settle timer is pending, and nothing changed unannounced,
\* the badges drawn are those of the videos in view that the user has not closed:
\* no update was lost to the rafAlwaysScheduled flag, a scroll or a mode change.
BadgesMatchVideos ==
  mode = "always" /\ ~frame /\ ~settle /\ quiet => Shown \in Accepted(Candidates)

\* The hide timer never runs under a pointer that is over the badge: it would hide
\* nothing and leave its number behind, and mousemove arms no timer while it is set.
NoTimerUnderPointer == over => ~timer

\* The badge goes when the pointer rests on the page beside video and badge.
BadgeGoes == pointer = "page" ~> (~hover.shown \/ pointer # "page")
=============================================================================
