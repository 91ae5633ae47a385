------------------------------- MODULE Player -------------------------------
(***************************************************************************)
(* The video player of the viewer: components/player/wiitoo-player.tsx and *)
(* the keyboard shortcuts of the watch page, over the media element.       *)
(*                                                                         *)
(* The component and the element are two machines.  The element pauses,    *)
(* plays and runs out of data at once and queues an event for each; the    *)
(* component believes what the events delivered so far have told it.  The  *)
(* buttons of the component act on that belief, the keyboard acts on the   *)
(* element.                                                                *)
(*                                                                         *)
(* Left out: volume and full screen, which nothing here depends on, and    *)
(* positions; of a seek it is kept that the element may need new data.     *)
(***************************************************************************)
EXTENDS Integers, Sequences

CONSTANT MaxEvents      \* bounds the events of the element not yet delivered

ASSUME MaxEventsIsNat == MaxEvents \in Nat

VARIABLE player

Events == {"play", "pause", "waiting", "canplay"}

\* paused, ready, failed and events are the element's; the others the component's.
\* The pointer that has "entered" has not moved since.
NewPlayer ==
    [paused |-> TRUE, ready |-> FALSE, failed |-> FALSE, events |-> <<>>,
     playing |-> FALSE, isLoading |-> TRUE, showControls |-> TRUE,
     hideTimer |-> "none", pointer |-> "out"]

CenterPlayActive == player.showControls \/ ~player.playing
ControlsBarActive == player.showControls

(***************************************************************************)
(* The media element (the browser and video.js).  After an error play()    *)
(* may be rejected without an event.                                       *)
(***************************************************************************)
Queued(p, e) == [p EXCEPT !.events = Append(@, e)]

\* It plays on at once, or says that it would if it had the data.
Resumed(p) ==
    LET q == Queued([p EXCEPT !.paused = FALSE], "play")
    IN  IF p.ready THEN q ELSE Queued(q, "waiting")

PlayedMedia(p) ==
    IF p.paused THEN {Resumed(p)} \cup {q \in {p} : p.failed} ELSE {p}
PausedMedia(p) ==
    IF p.paused THEN p ELSE Queued([p EXCEPT !.paused = TRUE], "pause")
StarvedMedia(p) ==
    LET q == [p EXCEPT !.ready = FALSE]
    IN  IF p.paused THEN q ELSE Queued(q, "waiting")

Starve == player.ready /\ ~player.paused /\ player' = StarvedMedia(player)
Feed ==
    /\ ~player.ready /\ ~player.failed
    /\ player' = Queued([player EXCEPT !.ready = TRUE], "canplay")
Fail ==
    /\ ~player.failed
    /\ player' = [player EXCEPT !.failed = TRUE, !.isLoading = FALSE]

\* A seek needs a known duration, so it needs the stream to have loaded.
Seek == player.ready /\ player' \in {player, StarvedMedia(player)}

(***************************************************************************)
(* The handlers of the element's events.                                   *)
(***************************************************************************)
\* Mutants: pausing is not noticed; the data's arrival is not; the timer that replaces
\* another one is forgotten.
OnPauseShows(p)   == [p EXCEPT !.showControls = TRUE]
OnCanPlayWaits(p) == p
ForgetsTimer(p)   == [p EXCEPT !.hideTimer = "none"]

HideControlsAfterDelay(p) == [p EXCEPT !.hideTimer = "if playing"]

OnPlay(p)    == HideControlsAfterDelay([p EXCEPT !.playing = TRUE, !.isLoading = FALSE])
OnPause(p)   == [p EXCEPT !.playing = FALSE, !.showControls = TRUE]
OnWaiting(p) == [p EXCEPT !.isLoading = TRUE]
OnCanPlay(p) == [p EXCEPT !.isLoading = FALSE]

Deliver ==
    /\ player.events # <<>>
    /\ LET e == Head(player.events)
           p == [player EXCEPT !.events = Tail(@)]
       IN  \/ e = "play"    /\ player' = OnPlay(p)
           \/ e = "pause"   /\ player' = OnPause(p)
           \/ e = "waiting" /\ player' = OnWaiting(p)
           \/ e = "canplay" /\ player' = OnCanPlay(p)

(***************************************************************************)
(* Showing and hiding the controls.  The timer of a play event looks again *)
(* whether it is playing when it fires, the one of a moving pointer does   *)
(* not.                                                                    *)
(***************************************************************************)
ShowControlsTemporarily(p) ==
    [p EXCEPT !.showControls = TRUE,
              !.hideTimer = IF p.playing THEN "always" ELSE "none"]

HideTimerFires ==
    /\ player.hideTimer # "none"
    /\ player' = [player EXCEPT
            !.hideTimer = "none",
            !.showControls = @ /\ player.hideTimer = "if playing" /\ ~player.playing]

PointerEnters ==
    /\ player.pointer = "out"
    /\ player' = [player EXCEPT !.pointer = "entered", !.showControls = TRUE]
PointerMoves ==
    /\ player.pointer # "out"
    /\ player' = ShowControlsTemporarily([player EXCEPT !.pointer = "moved"])
PointerLeaves ==
    /\ player.pointer # "out"
    /\ player' = [player EXCEPT !.pointer = "out", !.showControls = @ /\ ~player.playing]

(***************************************************************************)
(* Playing and pausing.                                                    *)
(***************************************************************************)
TogglePlay ==
    \/ player.playing  /\ player' = PausedMedia(player)
    \/ ~player.playing /\ player' \in PlayedMedia([player EXCEPT !.isLoading = TRUE])

ToggleByKey ==
    \/ player.paused  /\ player' \in PlayedMedia(player)
    \/ ~player.paused /\ player' = PausedMedia(player)

\* What the element and the timers do by themselves, and the pointer.
Unclicked ==
    \/ Starve \/ Feed \/ Fail \/ Deliver \/ HideTimerFires
    \/ PointerEnters \/ PointerMoves \/ PointerLeaves

Bounded == Len(player'.events) <= MaxEvents

-----------------------------------------------------------------------------
PlayerTypes ==
    [paused : BOOLEAN, ready : BOOLEAN, failed : BOOLEAN, events : Seq(Events),
     playing : BOOLEAN, isLoading : BOOLEAN, showControls : BOOLEAN,
     hideTimer : {"none", "if playing", "always"}, pointer : {"out", "entered", "moved"}]
PlayerTypeOK == player \in PlayerTypes

\* Button and keyboard pressed in any order, faster than the events come: once the
\* events are delivered the button shows what the element does.
MediaInSync == player.events = <<>> => player.playing = ~player.paused

Pending(e) == \E i \in DOMAIN player.events : player.events[i] = e

\* A spinner is not forgotten: while it turns, data is missing or an event that takes
\* it away is on its way, unless the stream has failed.
SpinnerHasEnd ==
    player.isLoading => ~player.ready \/ Pending("play") \/ Pending("canplay") \/ player.failed

\* Controls that show while the video plays have a timer to hide them, except below a
\* pointer that came to rest where it entered.
ControlsWillHide ==
    player.playing /\ player.showControls
        => player.hideTimer # "none" \/ player.pointer = "entered"

\* The spinner and the controls of the player do not stay up for good.
NothingStaysUp == SpinnerHasEnd /\ ControlsWillHide
=============================================================================
