--------------------------- MODULE ViewerSiteProof ---------------------------
(***************************************************************************)
(* Theorems about ViewerSite, for all bounds.                              *)
(*                                                                         *)
(* However many controls the pages have, a step does one of four things:   *)
(* it arrives at a page that has just mounted, it changes the state of a   *)
(* page, it works the player, or it changes what is below the player.  One *)
(* lemma per page says which, and one per kind what the invariant makes of *)
(* it.                                                                     *)
(***************************************************************************)
EXTENDS ViewerSite, PlayerProof

Quiet(s) == ~s.arriving /\ ~s.leaving
Fresh == {l \in LocalTypes : ~l.saved /\ l.timers = 0}

\* TypeOK needs LikesCounted: a like that is taken back was counted.  A dead end is
\* reached with nothing under way, so nothing happens there.
SiteInv ==
    /\ TypeOK
    /\ PlayerInv(player)
    /\ LikesCounted
    /\ LabelEnds
    /\ route = "/404" => Quiet(session) /\ local.timers = 0

(***************************************************************************)
(* The four kinds of steps.                                                *)
(***************************************************************************)
Arrives ==
    \E r \in Routes, l \in Fresh :
        /\ Mount(r, l)
        /\ open' \subseteq Menus /\ session' \in SessionTypes /\ isChatOpen' \in BOOLEAN
        /\ r = "/404" => route = "/creator" /\ Quiet(session')
        /\ l.kind = "unknown" => route = "/creator"

Changes ==
    /\ local' \in LocalTypes /\ (local'.saved => local'.timers > 0)
    /\ local'.kind = local.kind
    /\ open' \subseteq Menus /\ session' \in SessionTypes
    /\ route # "/404"
    /\ UNCHANGED <<route, isChatOpen, watch>>

Plays ==
    /\ PlayerInv(player')
    /\ open' \subseteq Menus /\ isChatOpen' \in BOOLEAN /\ mini' \in BOOLEAN
    /\ route = "/watch"
    /\ UNCHANGED <<route, session, local, below, switched>>

Shifts ==
    /\ below' \in BelowTypes /\ switched' \in Nat /\ LikesCounted'
    /\ open' \subseteq Menus
    /\ route = "/watch"
    /\ UNCHANGED <<player, route, session, local, mini, isChatOpen>>

\* The session keeps its type, whatever it does.
LEMMA SessionKeeps ==
    ASSUME session \in SessionTypes, SessionNext
    PROVE  session' \in SessionTypes
<1>1. CASE AskIn \/ Declined \/ AskOut
  BY <1>1 DEF SessionTypes, AskIn, Declined, AskOut
<1>2. CASE LetIn
  <2>1. session.leaving \in BOOLEAN
    BY DEF SessionTypes
  <2> QED BY <1>2, <2>1 DEF SessionTypes, LetIn
<1>3. CASE LetOut
  <2>1. session.arriving \in BOOLEAN
    BY DEF SessionTypes
  <2> QED BY <1>3, <2>1 DEF SessionTypes, LetOut
<1>4. CASE NewDocument
  BY <1>4 DEF SessionTypes, NewDocument
<1>5. CASE LetInAnew
  BY <1>5 DEF SessionTypes, LetInAnew
<1> QED BY <1>1, <1>2, <1>3, <1>4, <1>5 DEF SessionNext

LEMMA LocalIsFresh == Local \in Fresh /\ Local.kind # "unknown"
BY MaxTimersIsNat DEF Local, Fresh, LocalTypes

LEMMA InitInv == Init => SiteInv
<1> SUFFICES ASSUME Init PROVE SiteInv
  OBVIOUS
<1>1. PlayerInv(player) /\ PlayerTypeOK
  BY NewKeeps DEF Init, PlayerInv, Core, PlayerTypeOK
<1>2. Below \in BelowTypes
  BY MaxDriftIsNat DEF Below, BelowTypes
<1>3. TypeOK
  BY <1>1, <1>2, LocalIsFresh DEF Init, SessionInit, TypeOK, Fresh, Routes, MainPages, Menus
<1> QED BY <1>1, <1>3 DEF Init, SiteInv, LikesCounted, LabelEnds, Below, Local

LEMMA ArrivesKeeps ==
    ASSUME SiteInv, Arrives
    PROVE  SiteInv'
<1>1. PICK r \in Routes, l \in Fresh :
        /\ Mount(r, l)
        /\ open' \subseteq Menus /\ session' \in SessionTypes /\ isChatOpen' \in BOOLEAN
        /\ r = "/404" => Quiet(session')
  BY DEF Arrives
<1>2. /\ route' = r /\ local' = l /\ player' = NewPlayer /\ below' = Below
      /\ mini' = FALSE /\ switched' = 0
  BY <1>1 DEF Mount
<1>3. PlayerInv(player') /\ PlayerTypeOK'
  BY <1>2, NewKeeps DEF PlayerInv, Core, PlayerTypeOK
<1>4. Below \in BelowTypes
  BY MaxDriftIsNat DEF Below, BelowTypes
<1>5. TypeOK'
  BY <1>1, <1>2, <1>3, <1>4 DEF TypeOK, Fresh
<1>6. LikesCounted'
  BY <1>2 DEF LikesCounted, Below
<1>7. LabelEnds'
  BY <1>2 DEF LabelEnds, Fresh
<1> QED BY <1>1, <1>2, <1>3, <1>5, <1>6, <1>7 DEF SiteInv, Fresh

LEMMA ChangesKeeps ==
    ASSUME SiteInv, Changes
    PROVE  SiteInv'
<1>1. UNCHANGED player
  BY DEF Changes, watch
<1>2. PlayerInv(player') /\ PlayerTypeOK'
  BY <1>1 DEF SiteInv, TypeOK, PlayerTypeOK
<1>3. TypeOK'
  BY <1>2 DEF Changes, SiteInv, TypeOK, watch
<1> QED BY <1>2, <1>3 DEF Changes, SiteInv, LikesCounted, LabelEnds, watch

LEMMA PlaysKeeps ==
    ASSUME SiteInv, Plays
    PROVE  SiteInv'
<1>1. PlayerTypeOK'
  BY DEF Plays, PlayerInv, Core, PlayerTypeOK
<1>2. TypeOK'
  BY <1>1 DEF Plays, SiteInv, TypeOK
<1> QED BY <1>2 DEF Plays, SiteInv, LikesCounted, LabelEnds

LEMMA ShiftsKeeps ==
    ASSUME SiteInv, Shifts
    PROVE  SiteInv'
<1>1. PlayerInv(player') /\ PlayerTypeOK'
  BY DEF Shifts, SiteInv, TypeOK, PlayerTypeOK
<1>2. TypeOK'
  BY <1>1 DEF Shifts, SiteInv, TypeOK
<1> QED BY <1>1, <1>2 DEF Shifts, SiteInv, LabelEnds

(***************************************************************************)
(* Links.                                                                  *)
(***************************************************************************)
LEMMA MenusLeft ==
    ASSUME SiteInv, NEW inside \in SUBSET Menus
    PROVE  HandleClickOutside(inside) \subseteq Menus
BY DEF SiteInv, TypeOK, HandleClickOutside

LEMMA VisitArrives ==
    ASSUME SiteInv, NEW r \in Routes \ {"/404"}, NEW l \in Fresh, l.kind # "unknown",
           Visit(r, l)
    PROVE  Arrives
<1>1. open' \subseteq Menus
  BY MenusLeft DEF Visit
<1>2. session' \in SessionTypes /\ isChatOpen' \in BOOLEAN
  BY DEF Visit, SiteInv, TypeOK
<1>3. Mount(r, l)
  BY DEF Visit
<1> QED BY <1>1, <1>2, <1>3 DEF Arrives

LEMMA GoArrives ==
    ASSUME SiteInv, NEW r \in Routes \ {"/404"}, Go(r)
    PROVE  Arrives
BY LocalIsFresh, VisitArrives DEF Go

LEMMA BrowseArrives ==
    ASSUME SiteInv, NEW kind \in {"plain", "super"}, Browse(kind)
    PROVE  Arrives
<1> DEFINE l == [Local EXCEPT !.kind = kind]
<1>1. l \in Fresh /\ l.kind = kind
  BY LocalIsFresh DEF Fresh, LocalTypes
<1>2. "/browse" \in Routes \ {"/404"}
  BY DEF Routes, MainPages
<1> QED BY <1>1, <1>2, VisitArrives DEF Browse

LEMMA SearchArrives ==
    ASSUME SiteInv, Search
    PROVE  Arrives
<1>1. PICK found \in {"some", "none"} : Visit("/search", [Local EXCEPT !.list = found])
  BY DEF Search
<1> DEFINE l == [Local EXCEPT !.list = found]
<1>2. l \in Fresh /\ l.kind = Local.kind
  BY LocalIsFresh DEF Fresh, LocalTypes
<1>3. "/search" \in Routes \ {"/404"}
  BY DEF Routes, MainPages
<1> QED BY <1>1, <1>2, <1>3, LocalIsFresh, VisitArrives

LEMMA PageNames ==
    /\ MainPages \cup {"/watch", "/auth"} = Routes \ {"/404"}
    /\ Library \subseteq MainPages
    /\ RailRoutes \subseteq MainPages
    /\ {"/", "/search", "/browse", "/creator", "/settings", "/studio", "/history"} \subseteq MainPages
BY DEF Routes, MainPages, Library, RailRoutes

LEMMA CardArrives ==
    ASSUME SiteInv, ContentCard
    PROVE  Arrives
BY GoArrives, PageNames DEF ContentCard

LEMMA CategoriesArrive ==
    ASSUME SiteInv, CategoriesBar
    PROVE  Arrives
BY GoArrives, BrowseArrives, PageNames DEF CategoriesBar

(***************************************************************************)
(* The header and the rail.                                                *)
(***************************************************************************)
LEMMA PressChanges ==
    ASSUME SiteInv, route # "/404", Press, open' \subseteq Menus
    PROVE  Changes
BY DEF Press, Stays, Changes, SiteInv, TypeOK, LabelEnds

LEMMA SignOutArrives ==
    ASSUME SiteInv, HandleSignOut
    PROVE  Arrives
<1>1. /\ Mount("/", Local) /\ open' = {} /\ session' \in SessionTypes
      /\ UNCHANGED isChatOpen
  BY SessionKeeps DEF SessionNext, HandleSignOut, SiteInv, TypeOK
<1>2. "/" \in Routes /\ isChatOpen' \in BOOLEAN
  BY <1>1, PageNames DEF SiteInv, TypeOK
<1> QED BY <1>1, <1>2, LocalIsFresh DEF Arrives

LEMMA HeaderKind ==
    ASSUME SiteInv, Header
    PROVE  Arrives \/ Changes
<1>1. route # "/404"
  BY DEF Header
<1>2. CASE FocusSearch
  BY <1>1, <1>2, MenusLeft, PressChanges DEF FocusSearch, Menus
<1>3. CASE HandleSearchSubmit \/ HandleSuggestionClick
  BY <1>3, SearchArrives DEF HandleSearchSubmit, HandleSuggestionClick
<1>4. CASE ToggleBell
  BY <1>1, <1>4, PressChanges DEF ToggleBell, Menus
<1>5. CASE UserMenu
  <2>1. CASE ToggleMenu
    BY <1>1, <2>1, PressChanges DEF ToggleMenu, Menus
  <2>2. CASE HandleSignOut
    BY <2>2, SignOutArrives
  <2>3. CASE \E r \in {"/settings", "/history", "/studio"} : DropdownItem(r)
    BY <2>3, GoArrives, PageNames DEF DropdownItem
  <2> QED BY <1>5, <2>1, <2>2, <2>3 DEF UserMenu
<1>6. CASE Go("/") \/ Go("/auth")
  BY <1>6, GoArrives, PageNames
<1>7. CASE CategoriesBar
  BY <1>7, CategoriesArrive
<1> QED BY <1>2, <1>3, <1>4, <1>5, <1>6, <1>7 DEF Header

LEMMA SideRailKind ==
    ASSUME SiteInv, SideRail
    PROVE  Arrives
<1>1. CASE \E r \in RailRoutes : Go(r)
  BY <1>1, GoArrives, PageNames
<1>2. CASE Browse("plain") \/ Browse("super")
  BY <1>2, BrowseArrives
<1> QED BY <1>1, <1>2 DEF SideRail, IconRail, RailIcon, RailLabel

(***************************************************************************)
(* The pages.                                                              *)
(***************************************************************************)
LEMMA EditChanges ==
    ASSUME SiteInv, NEW l \in LocalTypes, l.saved => l.timers > 0, l.kind = local.kind,
           local' = l, Clicked \/ UNCHANGED open, Stays, route # "/404"
    PROVE  Changes
<1>1. open' \subseteq Menus
  BY MenusLeft DEF Clicked, SiteInv, TypeOK
<1> QED BY <1>1 DEF Stays, Changes, SiteInv, TypeOK

LEMMA ListPagesKind ==
    ASSUME SiteInv,
           HomePage \/ SearchPage \/ HistoryPage \/ LikedPage \/ WatchLaterPage
    PROVE  Arrives \/ Changes
<1>1. route # "/404"
  BY DEF HomePage, SearchPage, HistoryPage, LikedPage, WatchLaterPage, On
<1>2. CASE \E mode \in {"following", "for-you"} : Set("feedMode", mode)
  <2>1. PICK mode \in {"following", "for-you"} : Set("feedMode", mode)
    BY <1>2
  <2> DEFINE l == [local EXCEPT !.feedMode = mode]
  <2>2. l \in LocalTypes /\ l.saved = local.saved /\ l.timers = local.timers /\ l.kind = local.kind
    BY DEF SiteInv, TypeOK, LocalTypes
  <2> QED BY <1>1, <2>1, <2>2, EditChanges DEF Set, SiteInv, LabelEnds
<1>3. CASE \E matching \in {"some", "none"} : Set("list", matching)
  <2>1. PICK matching \in {"some", "none"} : Set("list", matching)
    BY <1>3
  <2> DEFINE l == [local EXCEPT !.list = matching]
  <2>2. l \in LocalTypes /\ l.saved = local.saved /\ l.timers = local.timers /\ l.kind = local.kind
    BY DEF SiteInv, TypeOK, LocalTypes
  <2> QED BY <1>1, <2>1, <2>2, EditChanges DEF Set, SiteInv, LabelEnds
<1>4. CASE Go("/auth") \/ ContentCard
  BY <1>4, GoArrives, CardArrives, PageNames
<1> QED BY <1>2, <1>3, <1>4
        DEF HomePage, SearchPage, HistoryPage, LikedPage, WatchLaterPage, WiitooPicks, FeedSection

LEMMA CreatorPageKind ==
    ASSUME SiteInv, CreatorPage
    PROVE  Arrives
<1>1. route = "/creator"
  BY DEF CreatorPage, On
<1>2. ASSUME NEW r \in Routes, NEW l \in Fresh, GoHard(r, l) PROVE Arrives
  <2>1. Mount(r, l) /\ open' = {} /\ isChatOpen' = FALSE
    BY <1>2 DEF GoHard
  <2>2. session' \in SessionTypes /\ Quiet(session')
    BY <1>2, SessionKeeps DEF SessionNext, GoHard, SiteInv, TypeOK, NewDocument, SessionTypes, Quiet
  <2> QED BY <1>1, <2>1, <2>2 DEF Arrives
<1>3. CASE GoHard("/404", Local)
  BY <1>2, <1>3, LocalIsFresh DEF Routes
<1>4. CASE \E kind \in {"plain", "super", "unknown"} :
             GoHard("/browse", [Local EXCEPT !.kind = kind])
  <2>1. PICK kind \in {"plain", "super", "unknown"} :
             GoHard("/browse", [Local EXCEPT !.kind = kind])
    BY <1>4
  <2>2. [Local EXCEPT !.kind = kind] \in Fresh
    BY LocalIsFresh DEF Fresh, LocalTypes
  <2> QED BY <1>2, <2>1, <2>2, PageNames
<1> QED BY <1>3, <1>4, CardArrives DEF CreatorPage, FolderView

LEMMA SettingsKind ==
    ASSUME SiteInv, SettingsPage
    PROVE  Arrives \/ Changes
<1>1. route # "/404" /\ local \in LocalTypes /\ (local.saved => local.timers > 0)
  BY DEF SettingsPage, On, SiteInv, TypeOK, LabelEnds
<1>2. CASE HandleSave
  <2> DEFINE l == [local EXCEPT !.saved = TRUE, !.timers = @ + 1]
  <2>1. local.timers + 1 \in 0..MaxTimers /\ local.timers + 1 > 0
    BY <1>1, <1>2, MaxTimersIsNat DEF HandleSave, LocalTypes
  <2>2. l \in LocalTypes /\ l.timers > 0 /\ l.kind = local.kind
    BY <1>1, <2>1 DEF LocalTypes
  <2> QED BY <1>1, <1>2, <2>2, EditChanges DEF HandleSave
<1>3. CASE \E b \in BOOLEAN : Set("modal", b)
  <2>1. PICK b \in BOOLEAN : Set("modal", b)
    BY <1>3
  <2> DEFINE l == [local EXCEPT !.modal = b]
  <2>2. l \in LocalTypes /\ l.saved = local.saved /\ l.timers = local.timers /\ l.kind = local.kind
    BY <1>1 DEF LocalTypes
  <2> QED BY <1>1, <2>1, <2>2, EditChanges DEF Set
<1>4. CASE Set("creatorMode", TRUE)
  <2> DEFINE l == [local EXCEPT !.creatorMode = TRUE]
  <2>1. l \in LocalTypes /\ l.saved = local.saved /\ l.timers = local.timers /\ l.kind = local.kind
    BY <1>1 DEF LocalTypes
  <2> QED BY <1>1, <1>4, <2>1, EditChanges DEF Set
<1>5. CASE Go("/studio")
  BY <1>5, GoArrives, PageNames
<1> QED BY <1>2, <1>3, <1>4, <1>5 DEF SettingsPage, CreatorModal

LEMMA MainPageKind ==
    ASSUME SiteInv, MainPage
    PROVE  Arrives \/ Changes
<1>1. CASE CategoryPage
  BY <1>1, GoArrives, CardArrives, PageNames DEF CategoryPage
<1>2. CASE StudioPage
  BY <1>2, GoArrives, PageNames DEF StudioPage
<1> QED BY <1>1, <1>2, ListPagesKind, CreatorPageKind, SettingsKind DEF MainPage

LEMMA SavedTimerKind ==
    ASSUME SiteInv, SavedTimer
    PROVE  Changes
<1> DEFINE l == [local EXCEPT !.saved = FALSE, !.timers = @ - 1]
<1>1. local \in LocalTypes /\ route # "/404"
  BY DEF SavedTimer, SiteInv, TypeOK
<1>2. local.timers - 1 \in 0..MaxTimers
  BY <1>1, MaxTimersIsNat DEF SavedTimer, LocalTypes
<1>3. l \in LocalTypes /\ ~l.saved /\ l.kind = local.kind
  BY <1>1, <1>2 DEF LocalTypes
<1> QED BY <1>1, <1>3, EditChanges DEF SavedTimer

(***************************************************************************)
(* The watch page.                                                         *)
(***************************************************************************)
LEMMA LikesShifts ==
    ASSUME SiteInv, route = "/watch", NEW state \in {"none", "like", "dislike"},
           NEW delta \in {-1, 0, 1, 2}, NEW n \in {0, 1}, Likes(state, delta, n),
           delta = n + (IF state = "like" THEN 1 ELSE 0)
                     - (IF below.likeState = "like" THEN 1 ELSE 0)
    PROVE  Shifts
<1>1. below \in BelowTypes /\ switched \in Nat
  BY DEF SiteInv, TypeOK
<1>2. /\ below'.likeState = state /\ below'.likeDelta = below.likeDelta + delta
      /\ below'.shareOpen = below.shareOpen
      /\ below' = [below EXCEPT !.likeState = state, !.likeDelta = @ + delta]
      /\ switched' = switched + n /\ below.likeDelta + delta <= MaxDrift
  BY <1>1 DEF Likes, BelowTypes
<1>3. switched' \in Nat /\ LikesCounted'
  BY <1>1, <1>2 DEF SiteInv, LikesCounted, BelowTypes
<1>4. below'.likeDelta \in 0..MaxDrift
  BY <1>1, <1>2, <1>3, MaxDriftIsNat DEF LikesCounted, BelowTypes
<1>5. below' \in BelowTypes
  BY <1>1, <1>2, <1>4 DEF BelowTypes
<1>6. open' \subseteq Menus
  BY MenusLeft DEF Likes, Clicked
<1> QED BY <1>3, <1>5, <1>6 DEF Shifts, Likes

LEMMA InfoRowKind ==
    ASSUME SiteInv, route = "/watch", InfoRow
    PROVE  Shifts
<1>1. CASE HandleLike
  BY <1>1, LikesShifts DEF HandleLike
<1>2. CASE HandleDislike
  BY <1>2, LikesShifts DEF HandleDislike, SiteInv, TypeOK, BelowTypes
<1>3. CASE ShareOpens(TRUE)
  <2>1. open' \subseteq Menus
    BY <1>3, MenusLeft DEF ShareOpens, Clicked
  <2>2. below' \in BelowTypes /\ LikesCounted' /\ switched' \in Nat
    BY <1>3 DEF ShareOpens, SiteInv, TypeOK, BelowTypes, LikesCounted
  <2> QED BY <1>3, <2>1, <2>2 DEF ShareOpens, Shifts
<1> QED BY <1>1, <1>2, <1>3 DEF InfoRow

LEMMA ShareModalKind ==
    ASSUME SiteInv, route = "/watch", ShareModal
    PROVE  Shifts
<1>1. open' \subseteq Menus
  BY MenusLeft DEF ShareModal, ShareOpens, Clicked
<1>2. below' \in BelowTypes /\ LikesCounted' /\ switched' \in Nat
  BY DEF ShareModal, ShareOpens, SiteInv, TypeOK, BelowTypes, LikesCounted
<1> QED BY <1>1, <1>2 DEF ShareModal, ShareOpens, Shifts

LEMMA PlayerKind ==
    ASSUME SiteInv, route = "/watch",
           TogglePlay \/ ToggleByKey \/ Seek \/ Unclicked \/ UNCHANGED player,
           Clicked \/ UNCHANGED open, isChatOpen' \in BOOLEAN,
           Elsewhere
    PROVE  Plays
<1>1. PlayerInv(player)
  BY DEF SiteInv
<1>2. PlayerInv(player')
  BY <1>1, TogglePlayKeeps, ToggleByKeyKeeps, SeekKeeps, UnclickedKeeps
<1>3. open' \subseteq Menus
  BY MenusLeft DEF Clicked, SiteInv, TypeOK
<1> QED BY <1>2, <1>3 DEF Plays, Elsewhere, SiteInv, TypeOK

LEMMA ScrollPlays ==
    ASSUME SiteInv, route = "/watch", HandleScroll
    PROVE  Plays
BY DEF HandleScroll, Plays, SiteInv, TypeOK

LEMMA WatchPageKind ==
    ASSUME SiteInv, WatchPage
    PROVE  Arrives \/ Plays \/ Shifts
<1>1. route = "/watch" /\ isChatOpen \in BOOLEAN
  BY DEF WatchPage, On, SiteInv, TypeOK
<1>2. CASE ToggleChat \/ CloseChat
  <2>1. isChatOpen' \in BOOLEAN
    BY <1>1, <1>2 DEF ToggleChat, CloseChat
  <2> QED BY <1>1, <1>2, <2>1, PlayerKind DEF ToggleChat, CloseChat
<1>3. CASE WiitooPlayer
  BY <1>1, <1>2, <1>3, PlayerKind DEF WiitooPlayer
<1>4. CASE Shortcuts
  BY <1>1, <1>4, PlayerKind DEF Shortcuts
<1>5. CASE CommentsSection
  BY <1>1, <1>5, PlayerKind DEF CommentsSection
<1>6. CASE RelatedSidebar
  BY <1>6, GoArrives, PageNames DEF RelatedSidebar
<1> QED BY <1>1, <1>2, <1>3, <1>4, <1>5, <1>6, ScrollPlays, InfoRowKind, ShareModalKind
        DEF WatchPage, ChatDrawer, ChatDrawerInline, MiniPlayer

LEMMA WatchRunsKind ==
    ASSUME SiteInv, WatchRuns
    PROVE  Plays
BY PlayerKind DEF WatchRuns, On, SiteInv, TypeOK

(***************************************************************************)
(* The session, and the browser's own navigation.                          *)
(***************************************************************************)
LEMMA StaysQuiet ==
    ASSUME SiteInv, route # "/404", session' \in SessionTypes,
           UNCHANGED <<route, open, local, watch, isChatOpen>>
    PROVE  Changes
BY DEF Changes, SiteInv, TypeOK, LabelEnds

LEMMA SessionKind ==
    ASSUME SiteInv, SignIn \/ SignInAnswered \/ LeaveAuth \/ SignOutAnswered
    PROVE  Arrives \/ Changes
<1>0. session \in SessionTypes
  BY DEF SiteInv, TypeOK
<1>1. CASE SignIn
  BY <1>0, <1>1, SessionKeeps, StaysQuiet DEF SessionNext, SignIn, On
<1>2. CASE SignInAnswered
  <2>1. session.arriving /\ session' \in SessionTypes
    BY <1>0, <1>2, SessionKeeps DEF SessionNext, SignInAnswered, LetIn, Declined, LetInAnew
  <2>2. route # "/404"
    BY <2>1 DEF SiteInv, Quiet
  <2>3. CASE UNCHANGED <<route, open, local, watch, isChatOpen>>
    BY <2>1, <2>2, <2>3, StaysQuiet
  <2>4. ASSUME NEW r \in MainPages, Mount(r, Local), open' \subseteq Menus,
               isChatOpen' \in BOOLEAN
        PROVE  Arrives
    BY <2>1, <2>4, PageNames, LocalIsFresh DEF Arrives
  <2> QED BY <1>2, <2>3, <2>4, PageNames DEF SignInAnswered, SiteInv, TypeOK
<1>3. CASE LeaveAuth
  BY <1>3, GoArrives, PageNames DEF LeaveAuth
<1>4. CASE SignOutAnswered
  BY <1>0, <1>4, SessionKeeps, StaysQuiet DEF SessionNext, SignOutAnswered, LetOut, SiteInv, Quiet
<1> QED BY <1>1, <1>2, <1>3, <1>4

LEMMA BackKind ==
    ASSUME SiteInv, NEW r \in MainPages \cup {"/watch"}, Back(r)
    PROVE  Arrives
<1>1. r \in Routes /\ r # "/404"
  BY PageNames
<1>2. open' \subseteq Menus /\ session' \in SessionTypes /\ isChatOpen' \in BOOLEAN
  BY DEF Back, SiteInv, TypeOK
<1> QED BY <1>1, <1>2, LocalIsFresh DEF Back, Arrives

LEMMA NextKind ==
    ASSUME SiteInv, Next
    PROVE  Arrives \/ Changes \/ Plays \/ Shifts
BY HeaderKind, SideRailKind, MainPageKind, WatchPageKind, WatchRunsKind, SavedTimerKind,
   SessionKind, BackKind DEF Next

(***************************************************************************)
(* The theorems.                                                           *)
(***************************************************************************)
LEMMA SiteInvariant == Spec => []SiteInv
<1>1. SiteInv /\ [Next]_vars => SiteInv'
  <2> SUFFICES ASSUME SiteInv, [Next]_vars PROVE SiteInv'
    OBVIOUS
  <2>1. CASE Next
    BY <2>1, NextKind, ArrivesKeeps, ChangesKeeps, PlaysKeeps, ShiftsKeeps
  <2>2. CASE UNCHANGED vars
    <3>1. PlayerInv(player') /\ PlayerTypeOK'
      BY <2>2 DEF vars, SiteInv, TypeOK, PlayerTypeOK
    <3>2. TypeOK'
      BY <2>2, <3>1 DEF vars, SiteInv, TypeOK
    <3> QED BY <2>2, <3>1, <3>2 DEF vars, SiteInv, LikesCounted, LabelEnds
  <2> QED BY <2>1, <2>2
<1> QED BY <1>1, InitInv, PTL DEF Spec

\* The state of the pages and of the player keeps its types.
THEOREM TypeCorrect == Spec => []TypeOK
<1>1. SiteInv => TypeOK
  BY DEF SiteInv
<1> QED BY <1>1, SiteInvariant, PTL

\* For every number of events under way: once they are delivered, the button shows what
\* the element does.
THEOREM PlayerInSync == Spec => []MediaInSync
<1>1. SiteInv => MediaInSync
  BY PlayerInvGives DEF SiteInv
<1> QED BY <1>1, SiteInvariant, PTL

\* A spinner turns only while data is missing, an event is on its way that takes it away,
\* or the stream has failed; controls over a playing video have a timer, except below a
\* pointer at rest.
THEOREM SpinnerAndControlsEnd == Spec => []NothingStaysUp
<1>1. SiteInv => NothingStaysUp
  BY PlayerInvGives DEF SiteInv, NothingStaysUp
<1> QED BY <1>1, SiteInvariant, PTL

\* However often likes and dislikes follow each other, the count is the visitor's own
\* like and one for every dislike turned into a like.
THEOREM LikesAdd == Spec => []LikesCounted
<1>1. SiteInv => LikesCounted
  BY DEF SiteInv
<1> QED BY <1>1, SiteInvariant, PTL

\* However many saves overlap, a label that shows has a timer.
THEOREM LabelsEnd == Spec => []LabelEnds
<1>1. SiteInv => LabelEnds
  BY DEF SiteInv
<1> QED BY <1>1, SiteInvariant, PTL

\* Of all links only those of a creator's page can be dead.
THEOREM NoOtherDeadEnds == Spec => DeadEndsKnown
<1>1. SiteInv /\ [Next]_vars =>
        [route' = "/404" \/ (local'.kind = "unknown" /\ local.kind # "unknown")
            => route = "/creator"]_vars
  <2> SUFFICES ASSUME SiteInv, Next,
                      route' = "/404" \/ (local'.kind = "unknown" /\ local.kind # "unknown")
               PROVE  route = "/creator"
    OBVIOUS
  <2>1. CASE Arrives
    BY <2>1 DEF Arrives, Mount
  <2>2. CASE Changes \/ Plays \/ Shifts
    BY <2>2 DEF Changes, Plays, Shifts
  <2> QED BY <2>1, <2>2, NextKind
<1> QED BY <1>1, SiteInvariant, PTL DEF Spec, DeadEndsKnown
=============================================================================
