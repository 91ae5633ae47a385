----------------------------- MODULE ViewerSite -----------------------------
(***************************************************************************)
(* The pages of the viewer frontend other than sign-in, as one tab shows   *)
(* them to a visitor with a pointer: the routes and the links between      *)
(* them, what the header, each page and the watch page keep, and what each *)
(* asks before it draws a control.                                         *)
(*                                                                         *)
(* The session is the one of ViewerSession: an answer may come after /auth *)
(* was left.  The data of the pages is built in; of a list it is kept      *)
(* whether it is empty.  A page is the disjunction of what its controls    *)
(* call; a control that is not drawn or is disabled is a guard.  Switches  *)
(* that only change how they look themselves are left out.                 *)
(***************************************************************************)
EXTENDS Player, ViewerSession, FiniteSets

CONSTANTS
    MaxDrift,       \* bounds how far a like count runs away
    MaxTimers       \* bounds the timers of one label under way

ASSUME MaxDriftIsNat == MaxDrift \in Nat
ASSUME MaxTimersIsNat == MaxTimers \in Nat

VARIABLES
    route,      \* the page
    open,       \* Header: which of its menus are open
    local,      \* the state of the page
    below,      \* watch page: the state of what is below the player
    mini,       \* watch page: the mini player is shown
    isChatOpen, \* the store of lib/store.ts, which outlives a page
    switched    \* history: how often a dislike was turned into a like

watch == <<player, below, mini, switched>>
vars == <<player, route, session, open, local, below, mini, isChatOpen, switched>>

Library == {"/history", "/liked", "/watch-later"}
MainPages == {"/", "/search", "/browse", "/creator", "/settings", "/studio"} \cup Library
Routes == MainPages \cup {"/watch", "/auth", "/404"}
Menus == {"search", "bell", "menu"}

isAuthenticated == session.signedIn

\* What a page has just mounted with.  A list is "some" or "none".
Local ==
    [feedMode |-> "following", list |-> "some", kind |-> "plain",
     modal |-> FALSE, creatorMode |-> FALSE, saved |-> FALSE, timers |-> 0]
Below == [likeState |-> "none", likeDelta |-> 0, shareOpen |-> FALSE]

Init ==
    /\ player = NewPlayer
    /\ route = "/" /\ SessionInit
    /\ open = {} /\ local = Local
    /\ below = Below /\ mini = FALSE /\ switched = 0
    /\ isChatOpen = FALSE

(***************************************************************************)
(* Navigation.  Pressing the pointer outside an open menu closes it, if it *)
(* is drawn; a menu that a late sign-out took away stays open unseen.  The *)
(* header lives as long as the pages around it: the watch page has its     *)
(* own, /auth has none.                                                    *)
(***************************************************************************)
Undrawn == IF isAuthenticated THEN {} ELSE {"bell", "menu"}
HandleClickOutside(inside) == open \cap (inside \cup Undrawn)
Clicked == open' = HandleClickOutside({})

SameHeader(r) == {r, route} \subseteq MainPages \/ r = route

Mount(r, l) ==
    /\ route' = r
    /\ local' = l
    /\ player' = NewPlayer /\ below' = Below /\ mini' = FALSE /\ switched' = 0

Visit(r, l) ==
    /\ Mount(r, l)
    /\ open' = IF SameHeader(r) THEN HandleClickOutside({}) ELSE {}
    /\ UNCHANGED <<session, isChatOpen>>
Go(r) == Visit(r, Local)

\* A plain link loads a new document: its stores start anew from what was persisted.
GoHard(r, l) ==
    /\ Mount(r, l)
    /\ open' = {} /\ isChatOpen' = FALSE
    /\ NewDocument

On(r) == route = r

\* A modal covers everything else.
Covered == local.modal \/ below.shareOpen
Stays == UNCHANGED <<route, session, isChatOpen, watch>>
Set(field, v) == local' = [local EXCEPT ![field] = v] /\ Clicked /\ Stays

Browse(kind) == Visit("/browse", [Local EXCEPT !.kind = kind])

(***************************************************************************)
(* The shared components: cards lead to the player, rows of cards are      *)
(* there when they have cards, and the search shows what it finds.         *)
(***************************************************************************)
ContentCard == Go("/watch")
FeedSection(videos) == videos # "none" /\ ContentCard
WiitooPicks(videos) == videos # "none" /\ ContentCard

CategoriesBar == Go("/") \/ Browse("plain") \/ Browse("super")

Search == \E found \in {"some", "none"} : Visit("/search", [Local EXCEPT !.list = found])

(***************************************************************************)
(* The header.                                                             *)
(***************************************************************************)
Press == UNCHANGED local /\ Stays

FocusSearch == open' = HandleClickOutside({"search"}) \cup {"search"} /\ Press

\* handleSearchSubmit does nothing on an empty query.
HandleSearchSubmit == "search" \in open /\ Search
HandleSuggestionClick == "search" \in open /\ Search

ToggleBell ==
    /\ isAuthenticated
    /\ open' = IF "bell" \in open THEN {} ELSE {"bell"}
    /\ Press
ToggleMenu ==
    /\ isAuthenticated
    /\ open' = IF "menu" \in open THEN {} ELSE {"menu"}
    /\ Press

DropdownItem(r) == "menu" \in open /\ isAuthenticated /\ Go(r)

\* It does not wait for the sign-out it starts.
HandleSignOut ==
    /\ "menu" \in open /\ isAuthenticated
    /\ Mount("/", Local)
    /\ open' = {} /\ AskOut
    /\ UNCHANGED isChatOpen

UserMenu ==
    \/ ToggleMenu \/ HandleSignOut
    \/ \E r \in {"/settings", "/history", "/studio"} : DropdownItem(r)

Header ==
    /\ route \notin {"/auth", "/404"} /\ ~Covered
    /\ \/ Go("/")
       \/ FocusSearch \/ HandleSearchSubmit \/ HandleSuggestionClick
       \/ ToggleBell \/ UserMenu
       \/ ~isAuthenticated /\ Go("/auth")
       \/ route \in {"/", "/browse", "/creator", "/search"} /\ CategoriesBar

\* The rail stands beside the pages that share the header, and over it, when it is
\* pointed at, the same links with their labels.  /?tab= is the home page.
RailRoutes == {"/", "/settings", "/studio"} \cup Library
RailIcon(r) == Go(r)
RailLabel(r) == Go(r)
IconRail == (\E r \in RailRoutes : RailIcon(r)) \/ Browse("plain") \/ Browse("super")

SideRail ==
    /\ route \in MainPages /\ ~Covered
    /\ IconRail \/ \E r \in RailRoutes : RailLabel(r)

(***************************************************************************)
(* The pages.  The lists of the library are filled by chance on every      *)
(* draw, and a search in the history may match none of them.               *)
(***************************************************************************)
HomePage ==
    /\ On("/")
    /\ \/ \E mode \in {"following", "for-you"} : Set("feedMode", mode)
       \/ ~isAuthenticated /\ Go("/auth")
       \/ WiitooPicks(local.list) \/ FeedSection(local.list)

SearchPage == On("/search") /\ FeedSection(local.list)

HistoryPage ==
    /\ On("/history")
    /\ \/ ~isAuthenticated /\ Go("/auth")
       \/ isAuthenticated /\ \E matching \in {"some", "none"} : Set("list", matching)
       \/ isAuthenticated /\ FeedSection(local.list)

LikedPage ==
    /\ On("/liked")
    /\ \/ ~isAuthenticated /\ Go("/auth")
       \/ isAuthenticated /\ ContentCard

WatchLaterPage ==
    /\ On("/watch-later")
    /\ \/ ~isAuthenticated /\ Go("/auth")
       \/ isAuthenticated /\ ContentCard

\* Only a super-leader category introduces a creator, an unknown one has no videos.
CategoryPage ==
    /\ On("/browse")
    /\ \/ Go("/")
       \/ local.kind = "super" /\ Go("/creator")
       \/ local.kind # "unknown" /\ ContentCard

\* Both links are plain ones.  There is no page /browse, and the slug made of a
\* category's name is not always the slug of the category.
FolderView ==
    \/ GoHard("/404", Local)
    \/ \E kind \in {"plain", "super", "unknown"} : GoHard("/browse", [Local EXCEPT !.kind = kind])
    \/ ContentCard
CreatorPage == On("/creator") /\ FolderView

\* Always the call to set up a profile, which is the settings' own modal.
StudioPage == On("/studio") /\ Go("/settings")

\* Nothing is sent: the label is all there is.  A second save does not restart its timer.
HandleSave ==
    /\ local.timers < MaxTimers
    /\ local' = [local EXCEPT !.saved = TRUE, !.timers = @ + 1]
    /\ Clicked /\ Stays
SavedTimer ==
    /\ local.timers > 0
    /\ local' = [local EXCEPT !.saved = FALSE, !.timers = @ - 1]
    /\ UNCHANGED open /\ Stays

\* The modal outlives the session and forgets nothing when it is closed.
CreatorModal ==
    /\ local.modal
    /\ \/ Set("creatorMode", TRUE)
       \/ Set("modal", FALSE)
       \/ local.creatorMode /\ Go("/studio")

SettingsPage ==
    /\ On("/settings")
    /\ \/ ~Covered /\ HandleSave
       \/ ~Covered /\ isAuthenticated /\ Set("modal", TRUE)
       \/ CreatorModal

(***************************************************************************)
(* The watch page.                                                         *)
(***************************************************************************)
Elsewhere == UNCHANGED <<route, session, local, below, mini, switched>>

\* The chat's drawer and its copy over the player close the same flag.
ToggleChat == isChatOpen' = ~isChatOpen /\ Clicked /\ UNCHANGED player /\ Elsewhere
CloseChat == isChatOpen' = FALSE /\ Clicked /\ UNCHANGED player /\ Elsewhere
ChatDrawer == isChatOpen /\ ToggleChat
ChatDrawerInline == isChatOpen /\ CloseChat

\* The controls of the player, live: no seeking.  The mini player is a second one of its
\* own, of which it is kept that its chat button is the same.
WiitooPlayer ==
    \/ CenterPlayActive /\ TogglePlay /\ Bounded /\ Clicked /\ UNCHANGED isChatOpen /\ Elsewhere
    \/ ControlsBarActive /\ ToggleChat

\* Keys reach the main player even while it is out of view.
Shortcuts ==
    /\ ToggleByKey \/ Seek
    /\ Bounded
    /\ UNCHANGED <<open, isChatOpen>> /\ Elsewhere

HandleScroll ==
    /\ \E away \in BOOLEAN : mini' = away
    /\ UNCHANGED <<player, route, session, open, local, below, isChatOpen, switched>>
MiniPlayer == mini /\ (ToggleChat \/ HandleScroll)

RelatedSidebar == ~isChatOpen /\ Go("/watch")

Likes(state, delta, n) ==
    /\ below.likeDelta + delta <= MaxDrift
    /\ below' = [below EXCEPT !.likeState = state, !.likeDelta = @ + delta]
    /\ switched' = switched + n
    /\ Clicked
    /\ UNCHANGED <<player, route, session, local, mini, isChatOpen>>

\* Mutant: taking a like back takes two.
UnlikeTwice ==
    \/ below.likeState = "like"    /\ Likes("none", -2, 0)
    \/ below.likeState = "dislike" /\ Likes("like", 2, 1)
    \/ below.likeState = "none"    /\ Likes("like", 1, 0)

\* From a dislike to a like the count goes up by two, though the dislike took nothing.
HandleLike ==
    \/ below.likeState = "like"    /\ Likes("none", -1, 0)
    \/ below.likeState = "dislike" /\ Likes("like", 2, 1)
    \/ below.likeState = "none"    /\ Likes("like", 1, 0)

\* Mutant: a like that turns into a dislike keeps its count.
DislikeKeepsCount ==
    \/ below.likeState = "dislike" /\ Likes("none", 0, 0)
    \/ below.likeState # "dislike" /\ Likes("dislike", 0, 0)

HandleDislike ==
    \/ below.likeState = "dislike" /\ Likes("none", 0, 0)
    \/ below.likeState = "like"    /\ Likes("dislike", -1, 0)
    \/ below.likeState = "none"    /\ Likes("dislike", 0, 0)

ShareOpens(shown) ==
    /\ below' = [below EXCEPT !.shareOpen = shown]
    /\ Clicked
    /\ UNCHANGED <<player, route, session, local, mini, isChatOpen, switched>>
ShareModal == below.shareOpen /\ ShareOpens(FALSE)

InfoRow == HandleLike \/ HandleDislike \/ ShareOpens(TRUE)

\* A comment's time mark seeks.
CommentsSection ==
    Seek /\ Bounded /\ Clicked /\ UNCHANGED isChatOpen /\ Elsewhere

WatchPage ==
    /\ On("/watch")
    /\ \/ ~Covered /\ (WiitooPlayer \/ ChatDrawerInline \/ ChatDrawer \/ MiniPlayer \/ RelatedSidebar)
       \/ ~Covered /\ ~mini /\ (InfoRow \/ CommentsSection)
       \/ HandleScroll \/ Shortcuts \/ ShareModal

\* What happens on it unasked.
WatchRuns ==
    /\ On("/watch")
    /\ Unclicked /\ Bounded
    /\ UNCHANGED <<open, isChatOpen>> /\ Elsewhere

(***************************************************************************)
(* The session, and the browser's own navigation.                          *)
(***************************************************************************)
SignIn ==
    /\ On("/auth") /\ AskIn
    /\ UNCHANGED <<route, open, local, watch, isChatOpen>>

\* Wherever the visitor is by then: home, a gated page with a new document, or, when it
\* was a code that was answered, no further.
SignInAnswered ==
    \/ /\ LetIn \/ Declined
       /\ UNCHANGED <<route, open, local, watch, isChatOpen>>
    \/ /\ Mount("/", Local) /\ LetIn
       /\ open' = IF SameHeader("/") THEN open ELSE {}
       /\ UNCHANGED isChatOpen
    \/ /\ \E r \in Library : Mount(r, Local)
       /\ LetInAnew /\ open' = {} /\ isChatOpen' = FALSE

LeaveAuth == On("/auth") /\ isAuthenticated /\ Go("/")

SignOutAnswered ==
    /\ LetOut
    /\ UNCHANGED <<route, open, local, watch, isChatOpen>>

Back(r) ==
    /\ r # route
    /\ Mount(r, Local)
    /\ open' = IF SameHeader(r) THEN open ELSE {}
    /\ UNCHANGED <<session, isChatOpen>>

-----------------------------------------------------------------------------
MainPage ==
    \/ HomePage \/ SearchPage \/ HistoryPage \/ LikedPage \/ WatchLaterPage
    \/ CategoryPage \/ CreatorPage \/ StudioPage \/ SettingsPage

Next ==
    \/ Header \/ SideRail \/ MainPage \/ WatchPage \/ WatchRuns
    \/ SavedTimer \/ SignIn \/ SignInAnswered \/ LeaveAuth \/ SignOutAnswered
    \/ \E r \in MainPages \cup {"/watch"} : Back(r)

Spec == Init /\ [][Next]_vars

-----------------------------------------------------------------------------
LocalTypes ==
    [feedMode : {"following", "for-you"}, list : {"some", "none"},
     kind : {"plain", "super", "unknown"}, modal : BOOLEAN,
     creatorMode : BOOLEAN, saved : BOOLEAN, timers : 0..MaxTimers]
BelowTypes ==
    [likeState : {"none", "like", "dislike"}, likeDelta : 0..MaxDrift, shareOpen : BOOLEAN]

TypeOK ==
    /\ PlayerTypeOK
    /\ route \in Routes
    /\ session \in SessionTypes
    /\ open \subseteq Menus
    /\ local \in LocalTypes
    /\ below \in BelowTypes
    /\ mini \in BOOLEAN /\ isChatOpen \in BOOLEAN /\ switched \in Nat

\* The count of likes is what was fetched and the visitor's own like, and one too many
\* for every dislike the visitor turned into a like.
LikesCounted == below.likeDelta = switched + (IF below.likeState = "like" THEN 1 ELSE 0)

\* A label that says something was saved has a timer that takes it away.
LabelEnds == local.saved => local.timers > 0

\* Only the links of a creator's page lead to no page, or to a category that is none.
DeadEndsKnown ==
    [][route' = "/404" \/ (local'.kind = "unknown" /\ local.kind # "unknown")
        => route = "/creator"]_vars
=============================================================================
