----------------------------- MODULE PlayerProof -----------------------------
(***************************************************************************)
(* Lemmas about Player: what its actions keep, whatever bounds the events  *)
(* under way.                                                              *)
(*                                                                         *)
(* MediaInSync speaks of a moment without events, SpinnerHasEnd of a       *)
(* spinner that turns; neither survives a step by itself.  What does is    *)
(* stated of the events under way: the last of them that is a play or a    *)
(* pause says what the element does (Agree), and a "waiting" of an element *)
(* that has its data is followed by an event that takes the spinner away   *)
(* (Fed).                                                                  *)
(***************************************************************************)
EXTENDS Player, TLAPS

Marks == {"play", "pause"}
Ends == {"play", "canplay"}

Unmarked(es) == \A i \in 1..Len(es) : es[i] \notin Marks
LastMark(es, e) ==
    \E i \in 1..Len(es) : es[i] = e /\ \A j \in 1..Len(es) : j > i => es[j] \notin Marks
Followed(es) ==
    \A i \in 1..Len(es) :
        es[i] = "waiting" => \E j \in 1..Len(es) : j > i /\ es[j] \in Ends
HasEnd(es) == \E i \in 1..Len(es) : es[i] \in Ends

Agree(playing, paused, es) ==
    \/ playing = ~paused /\ Unmarked(es)
    \/ LastMark(es, IF paused THEN "pause" ELSE "play")

Fed(p) == ~p.ready \/ p.failed \/ Followed(p.events)
Turns(p) == p.isLoading => ~p.ready \/ p.failed \/ HasEnd(p.events)
Hides(p) ==
    p.playing /\ p.showControls => p.hideTimer # "none" \/ p.pointer = "entered"

\* What every state of the player keeps; a play that was just asked for turns the
\* spinner before anything else has happened.
Core(p) ==
    /\ p \in PlayerTypes
    /\ Agree(p.playing, p.paused, p.events)
    /\ Fed(p) /\ Hides(p)
PlayerInv(p) == Core(p) /\ Turns(p)

(***************************************************************************)
(* Sequences of events.                                                    *)
(***************************************************************************)
LEMMA AppendFacts ==
    ASSUME NEW es \in Seq(Events), NEW e \in Events
    PROVE  /\ Append(es, e) \in Seq(Events)
           /\ Len(es) \in Nat
           /\ Len(Append(es, e)) = Len(es) + 1
           /\ \A i \in 1..Len(es) : Append(es, e)[i] = es[i]
           /\ Append(es, e)[Len(es) + 1] = e
OBVIOUS

LEMMA TailFacts ==
    ASSUME NEW es \in Seq(Events), es # <<>>
    PROVE  /\ Tail(es) \in Seq(Events)
           /\ Len(es) \in Nat /\ Len(es) > 0
           /\ Len(Tail(es)) = Len(es) - 1
           /\ \A i \in 1..Len(Tail(es)) : Tail(es)[i] = es[i + 1]
           /\ Head(es) = es[1] /\ Head(es) \in Events
OBVIOUS

\* An event that is no play and no pause changes nothing of what is agreed on; one
\* that is says itself what the element does.
LEMMA AgreeQueued ==
    ASSUME NEW es \in Seq(Events), NEW e \in Events, NEW playing \in BOOLEAN,
           NEW paused \in BOOLEAN, NEW was \in BOOLEAN,
           Agree(playing, was, es),
           (e \notin Marks /\ paused = was) \/ e = (IF paused THEN "pause" ELSE "play")
    PROVE  Agree(playing, paused, Append(es, e))
<1> DEFINE fs == Append(es, e)
<1>1. /\ Len(es) \in Nat /\ Len(fs) = Len(es) + 1
      /\ \A i \in 1..Len(es) : fs[i] = es[i]
      /\ fs[Len(es) + 1] = e
  BY AppendFacts
<1> HIDE DEF fs
<1>2. CASE e = (IF paused THEN "pause" ELSE "play")
  <2>1. Len(es) + 1 \in 1..Len(fs) /\ ~\E j \in 1..Len(fs) : j > Len(es) + 1
    BY <1>1
  <2>2. LastMark(fs, IF paused THEN "pause" ELSE "play")
    BY <1>1, <1>2, <2>1 DEF LastMark
  <2> QED BY <2>2 DEF Agree, fs
<1>3. CASE e \notin Marks /\ paused = was
  <2>1. CASE playing = ~was /\ Unmarked(es)
    <3>1. Unmarked(fs)
      BY <1>1, <1>3, <2>1 DEF Unmarked
    <3> QED BY <3>1, <2>1, <1>3 DEF Agree, fs
  <2>2. CASE LastMark(es, IF was THEN "pause" ELSE "play")
    <3> DEFINE m == IF was THEN "pause" ELSE "play"
    <3> HIDE DEF m
    <3>1. PICK i \in 1..Len(es) :
            es[i] = m /\ \A j \in 1..Len(es) : j > i => es[j] \notin Marks
      BY <2>2 DEF LastMark, m
    <3>2. i \in 1..Len(fs) /\ fs[i] = m
      BY <1>1, <3>1
    <3>3. \A j \in 1..Len(fs) : j > i => fs[j] \notin Marks
      <4>1. ASSUME NEW j \in 1..Len(fs), j > i PROVE fs[j] \notin Marks
        <5>1. j = Len(es) + 1 \/ j \in 1..Len(es)
          BY <1>1
        <5> QED BY <5>1, <4>1, <3>1, <1>1, <1>3
      <4> QED BY <4>1
    <3>4. LastMark(fs, m)
      BY <3>2, <3>3 DEF LastMark
    <3> QED BY <3>4, <1>3 DEF Agree, fs, m
  <2> QED BY <2>1, <2>2, <1>3 DEF Agree
<1> QED BY <1>2, <1>3

LEMMA AgreeDelivered ==
    ASSUME NEW es \in Seq(Events), es # <<>>, NEW playing \in BOOLEAN,
           NEW paused \in BOOLEAN, Agree(playing, paused, es)
    PROVE  /\ Head(es) \notin Marks => Agree(playing, paused, Tail(es))
           /\ Head(es) = "play" => Agree(TRUE, paused, Tail(es))
           /\ Head(es) = "pause" => Agree(FALSE, paused, Tail(es))
<1> DEFINE fs == Tail(es)
           m == IF paused THEN "pause" ELSE "play"
<1>1. /\ Len(es) \in Nat /\ Len(es) > 0 /\ Len(fs) = Len(es) - 1
      /\ \A i \in 1..Len(fs) : fs[i] = es[i + 1]
      /\ Head(es) = es[1]
  BY TailFacts
<1> HIDE DEF fs, m
<1>2. CASE playing = ~paused /\ Unmarked(es)
  <2>1. Head(es) \notin Marks
    BY <1>1, <1>2 DEF Unmarked
  <2>2. Unmarked(fs)
    <3>1. ASSUME NEW i \in 1..Len(fs) PROVE fs[i] \notin Marks
      <4>1. i + 1 \in 1..Len(es) BY <1>1
      <4> QED BY <4>1, <1>1, <1>2 DEF Unmarked
    <3> QED BY <3>1 DEF Unmarked
  <2> QED BY <2>1, <2>2, <1>2 DEF Agree, Marks, fs
<1>3. CASE LastMark(es, m)
  <2>1. PICK i \in 1..Len(es) :
          es[i] = m /\ \A j \in 1..Len(es) : j > i => es[j] \notin Marks
    BY <1>3 DEF LastMark
  <2>2. \A k \in 1..Len(fs) : k + 1 > i => fs[k] \notin Marks
    <3>1. ASSUME NEW k \in 1..Len(fs), k + 1 > i PROVE fs[k] \notin Marks
      <4>1. k + 1 \in 1..Len(es) BY <1>1
      <4> QED BY <4>1, <3>1, <2>1, <1>1
    <3> QED BY <3>1
  <2>3. CASE i = 1
    <3>1. Unmarked(fs)
      BY <2>2, <2>3, <1>1 DEF Unmarked
    <3>2. Head(es) = m
      BY <2>1, <2>3, <1>1
    <3> QED BY <3>1, <3>2 DEF Agree, Marks, fs, m
  <2>4. CASE i # 1
    <3>1. i - 1 \in 1..Len(fs) /\ fs[i - 1] = m
      BY <2>1, <2>4, <1>1
    <3>2. \A k \in 1..Len(fs) : k > i - 1 => fs[k] \notin Marks
      BY <2>2, <1>1
    <3>3. LastMark(fs, m)
      BY <3>1, <3>2 DEF LastMark
    <3> QED BY <3>3 DEF Agree, fs, m
  <2> QED BY <2>3, <2>4
<1> QED BY <1>2, <1>3 DEF Agree, m

LEMMA FollowedQueued ==
    ASSUME NEW es \in Seq(Events), NEW e \in Events
    PROVE  /\ Followed(es) /\ e # "waiting" => Followed(Append(es, e))
           /\ e \in Ends => Followed(Append(es, e))
           /\ HasEnd(es) \/ e \in Ends => HasEnd(Append(es, e))
<1> DEFINE fs == Append(es, e)
<1>1. /\ Len(es) \in Nat /\ Len(fs) = Len(es) + 1
      /\ \A i \in 1..Len(es) : fs[i] = es[i]
      /\ fs[Len(es) + 1] = e
  BY AppendFacts
<1> HIDE DEF fs
<1>2. \A i \in 1..Len(fs) : i \in 1..Len(es) \/ i = Len(es) + 1
  BY <1>1
<1>3. Len(es) + 1 \in 1..Len(fs) /\ 1..Len(es) \subseteq 1..Len(fs)
  BY <1>1
<1>4. ASSUME Followed(es), e # "waiting" PROVE Followed(fs)
  BY <1>1, <1>2, <1>3, <1>4 DEF Followed
<1>5. ASSUME e \in Ends PROVE Followed(fs)
  <2>1. ASSUME NEW i \in 1..Len(fs), fs[i] = "waiting"
        PROVE  \E j \in 1..Len(fs) : j > i /\ fs[j] \in Ends
    <3>1. i # Len(es) + 1
      BY <1>1, <1>5, <2>1 DEF Ends
    <3>2. Len(es) + 1 > i
      BY <1>1, <1>2, <3>1
    <3> QED BY <3>2, <1>1, <1>3, <1>5
  <2> QED BY <2>1 DEF Followed
<1>6. ASSUME HasEnd(es) \/ e \in Ends PROVE HasEnd(fs)
  BY <1>1, <1>3, <1>6 DEF HasEnd
<1> QED BY <1>4, <1>5, <1>6 DEF fs

LEMMA FollowedDelivered ==
    ASSUME NEW es \in Seq(Events), es # <<>>
    PROVE  /\ Followed(es) => Followed(Tail(es))
           /\ Followed(es) /\ Head(es) = "waiting" => HasEnd(Tail(es))
           /\ HasEnd(es) /\ Head(es) \notin Ends => HasEnd(Tail(es))
<1> DEFINE fs == Tail(es)
<1>1. /\ Len(es) \in Nat /\ Len(es) > 0 /\ Len(fs) = Len(es) - 1
      /\ \A i \in 1..Len(fs) : fs[i] = es[i + 1]
      /\ Head(es) = es[1]
  BY TailFacts
<1> HIDE DEF fs
<1>2. ASSUME NEW j \in 1..Len(es), j > 1, es[j] \in Ends
      PROVE  j - 1 \in 1..Len(fs) /\ fs[j - 1] \in Ends
  BY <1>1, <1>2
<1>3. ASSUME Followed(es) PROVE Followed(fs)
  <2>1. ASSUME NEW i \in 1..Len(fs), fs[i] = "waiting"
        PROVE  \E j \in 1..Len(fs) : j > i /\ fs[j] \in Ends
    <3>1. i + 1 \in 1..Len(es) /\ es[i + 1] = "waiting"
      BY <1>1, <2>1
    <3>2. PICK j \in 1..Len(es) : j > i + 1 /\ es[j] \in Ends
      BY <3>1, <1>3 DEF Followed
    <3>3. j - 1 \in 1..Len(fs) /\ j - 1 > i /\ fs[j - 1] \in Ends
      BY <3>2, <1>1, <1>2
    <3> QED BY <3>3
  <2> QED BY <2>1 DEF Followed
<1>4. ASSUME Followed(es), Head(es) = "waiting" PROVE HasEnd(fs)
  <2>1. 1 \in 1..Len(es) /\ es[1] = "waiting"
    BY <1>1, <1>4
  <2>2. PICK j \in 1..Len(es) : j > 1 /\ es[j] \in Ends
    BY <2>1, <1>4 DEF Followed
  <2> QED BY <2>2, <1>2 DEF HasEnd
<1>5. ASSUME HasEnd(es), Head(es) \notin Ends PROVE HasEnd(fs)
  <2>1. PICK j \in 1..Len(es) : es[j] \in Ends
    BY <1>5 DEF HasEnd
  <2>2. j > 1
    BY <2>1, <1>5, <1>1
  <2> QED BY <2>1, <2>2, <1>2 DEF HasEnd
<1> QED BY <1>3, <1>4, <1>5 DEF fs

(***************************************************************************)
(* The media element.                                                      *)
(***************************************************************************)
LEMMA Fields ==
    ASSUME NEW p \in PlayerTypes
    PROVE  /\ p.paused \in BOOLEAN /\ p.ready \in BOOLEAN /\ p.failed \in BOOLEAN
           /\ p.playing \in BOOLEAN /\ p.isLoading \in BOOLEAN /\ p.showControls \in BOOLEAN
           /\ p.events \in Seq(Events)
           /\ p.hideTimer \in {"none", "if playing", "always"}
           /\ p.pointer \in {"out", "entered", "moved"}
BY DEF PlayerTypes

LEMMA QueuedFields ==
    ASSUME NEW p \in PlayerTypes, NEW e \in Events
    PROVE  /\ Queued(p, e) \in PlayerTypes
           /\ Queued(p, e).events = Append(p.events, e)
           /\ Queued(p, e).paused = p.paused /\ Queued(p, e).ready = p.ready
           /\ Queued(p, e).failed = p.failed /\ Queued(p, e).playing = p.playing
           /\ Queued(p, e).isLoading = p.isLoading
           /\ Queued(p, e).showControls = p.showControls
           /\ Queued(p, e).hideTimer = p.hideTimer /\ Queued(p, e).pointer = p.pointer
<1>1. Append(p.events, e) \in Seq(Events)
  BY Fields, AppendFacts
<1> QED BY <1>1 DEF Queued, PlayerTypes

\* What is agreed on after it queued an event is agreed on of its fields.
LEMMA QueuedCore ==
    ASSUME NEW p \in PlayerTypes, NEW e \in Events, Hides(p),
           Agree(p.playing, p.paused, Append(p.events, e))
    PROVE  /\ ~p.ready \/ p.failed \/ Followed(Append(p.events, e)) => Core(Queued(p, e))
           /\ (p.isLoading => ~p.ready \/ p.failed \/ HasEnd(Append(p.events, e)))
              => Turns(Queued(p, e))
<1> DEFINE q == Queued(p, e)
<1>1. /\ q \in PlayerTypes /\ q.events = Append(p.events, e)
      /\ q.paused = p.paused /\ q.ready = p.ready
      /\ q.failed = p.failed /\ q.playing = p.playing /\ q.isLoading = p.isLoading
      /\ q.showControls = p.showControls
      /\ q.hideTimer = p.hideTimer /\ q.pointer = p.pointer
  BY QueuedFields
<1> HIDE DEF q
<1>2. Agree(q.playing, q.paused, q.events)
  BY <1>1, Fields DEF Agree
<1>3. Fed(q) <=> ~p.ready \/ p.failed \/ Followed(Append(p.events, e))
  BY <1>1 DEF Fed
<1>4. Turns(q) <=> (p.isLoading => ~p.ready \/ p.failed \/ HasEnd(Append(p.events, e)))
  BY <1>1 DEF Turns
<1>5. Hides(q)
  BY <1>1 DEF Hides
<1> QED BY <1>1, <1>2, <1>3, <1>4, <1>5 DEF Core, q

\* It says that it waits, having no data.
LEMMA WaitQueued ==
    ASSUME NEW p, Core(p), ~p.ready
    PROVE  Core(Queued(p, "waiting")) /\ Turns(Queued(p, "waiting"))
<1>1. p \in PlayerTypes /\ "waiting" \in Events
  BY DEF Core, Events
<1>2. Agree(p.playing, p.paused, Append(p.events, "waiting"))
  BY <1>1, Fields, AgreeQueued DEF Core, Marks
<1>3. Hides(p)
  BY DEF Core
<1> QED BY <1>1, <1>2, <1>3, QueuedCore

LEMMA ResumedKeeps ==
    ASSUME NEW p, Core(p), p.paused
    PROVE  PlayerInv(Resumed(p))
<1> DEFINE r == [p EXCEPT !.paused = FALSE]
           q == Queued(r, "play")
<1>1. p \in PlayerTypes /\ "play" \in Events /\ "play" \in Ends
  BY DEF Core, Events, Ends
<1>2. /\ r \in PlayerTypes /\ ~r.paused /\ r.events = p.events /\ r.ready = p.ready
      /\ r.failed = p.failed /\ r.playing = p.playing /\ r.showControls = p.showControls
      /\ r.hideTimer = p.hideTimer /\ r.pointer = p.pointer
  BY <1>1 DEF PlayerTypes
<1> HIDE DEF r
<1>3. Agree(r.playing, r.paused, Append(r.events, "play"))
  <2>1. Agree(p.playing, FALSE, Append(p.events, "play"))
    BY <1>1, Fields, AgreeQueued DEF Core
  <2> QED BY <2>1, <1>2 DEF Agree
<1>4. Followed(Append(r.events, "play")) /\ HasEnd(Append(r.events, "play"))
  BY <1>1, <1>2, Fields, FollowedQueued
<1>5. Hides(r)
  BY <1>2 DEF Core, Hides
<1>6. Core(q) /\ Turns(q)
  BY <1>1, <1>2, <1>3, <1>4, <1>5, QueuedCore
<1>7. q.ready = p.ready
  BY <1>1, <1>2, QueuedFields
<1>8. Resumed(p) = IF p.ready THEN q ELSE Queued(q, "waiting")
  BY DEF Resumed, r
<1> HIDE DEF q
<1> QED BY <1>6, <1>7, <1>8, WaitQueued DEF PlayerInv

LEMMA PausedKeeps ==
    ASSUME NEW p, PlayerInv(p)
    PROVE  PlayerInv(PausedMedia(p))
<1> DEFINE r == [p EXCEPT !.paused = TRUE]
<1>1. p \in PlayerTypes /\ "pause" \in Events /\ "pause" # "waiting"
  BY DEF PlayerInv, Core, Events
<1>2. /\ r \in PlayerTypes /\ r.paused /\ r.events = p.events /\ r.ready = p.ready
      /\ r.failed = p.failed /\ r.playing = p.playing /\ r.showControls = p.showControls
      /\ r.hideTimer = p.hideTimer /\ r.pointer = p.pointer /\ r.isLoading = p.isLoading
  BY <1>1 DEF PlayerTypes
<1>3. PausedMedia(p) = IF p.paused THEN p ELSE Queued(r, "pause")
  BY DEF PausedMedia
<1> HIDE DEF r
<1>4. Agree(r.playing, r.paused, Append(r.events, "pause"))
  <2>1. Agree(p.playing, TRUE, Append(p.events, "pause"))
    BY <1>1, Fields, AgreeQueued DEF PlayerInv, Core
  <2> QED BY <2>1, <1>2 DEF Agree
<1>5. /\ ~r.ready \/ r.failed \/ Followed(Append(r.events, "pause"))
      /\ r.isLoading => ~r.ready \/ r.failed \/ HasEnd(Append(r.events, "pause"))
  BY <1>1, <1>2, Fields, FollowedQueued DEF PlayerInv, Core, Fed, Turns
<1>6. Hides(r)
  BY <1>2 DEF PlayerInv, Core, Hides
<1>7. PlayerInv(Queued(r, "pause"))
  BY <1>1, <1>2, <1>4, <1>5, <1>6, QueuedCore DEF PlayerInv
<1> QED BY <1>3, <1>7

LEMMA StarvedKeeps ==
    ASSUME NEW p, PlayerInv(p)
    PROVE  PlayerInv(StarvedMedia(p))
<1> DEFINE r == [p EXCEPT !.ready = FALSE]
<1>1. /\ r \in PlayerTypes /\ r.paused = p.paused /\ r.events = p.events /\ ~r.ready
      /\ r.failed = p.failed /\ r.playing = p.playing /\ r.showControls = p.showControls
      /\ r.hideTimer = p.hideTimer /\ r.pointer = p.pointer /\ r.isLoading = p.isLoading
  BY DEF PlayerInv, Core, PlayerTypes
<1>2. StarvedMedia(p) = IF p.paused THEN r ELSE Queued(r, "waiting")
  BY <1>1 DEF StarvedMedia
<1> HIDE DEF r
<1>3. PlayerInv(r)
  BY <1>1 DEF PlayerInv, Core, Turns, Fed, Hides
<1> QED BY <1>1, <1>2, <1>3, WaitQueued DEF PlayerInv

(***************************************************************************)
(* The actions.                                                            *)
(***************************************************************************)
LEMMA NewKeeps == PlayerInv(NewPlayer)
<1>1. <<>> \in Seq(Events) /\ Len(<<>>) = 0
  OBVIOUS
<1>2. NewPlayer \in PlayerTypes
  BY <1>1 DEF NewPlayer, PlayerTypes
<1>3. NewPlayer.events = <<>> /\ NewPlayer.paused = TRUE /\ NewPlayer.playing = FALSE
  BY DEF NewPlayer
<1>4. Unmarked(NewPlayer.events)
  BY <1>1, <1>3 DEF Unmarked
<1> QED BY <1>2, <1>3, <1>4 DEF PlayerInv, Core, Agree, Fed, Turns, Hides, NewPlayer

LEMMA FeedKeeps ==
    ASSUME PlayerInv(player), Feed
    PROVE  PlayerInv(player')
<1> DEFINE r == [player EXCEPT !.ready = TRUE]
<1>1. player \in PlayerTypes /\ "canplay" \in Events /\ "canplay" \in Ends
      /\ "canplay" \notin Marks
  BY DEF PlayerInv, Core, Events, Ends, Marks
<1>2. /\ r \in PlayerTypes /\ r.paused = player.paused /\ r.events = player.events
      /\ r.playing = player.playing /\ r.showControls = player.showControls
      /\ r.hideTimer = player.hideTimer /\ r.pointer = player.pointer
  BY <1>1 DEF PlayerTypes
<1>3. player' = Queued(r, "canplay")
  BY DEF Feed
<1> HIDE DEF r
<1>4. Agree(r.playing, r.paused, Append(r.events, "canplay"))
  <2>1. Agree(player.playing, player.paused, Append(player.events, "canplay"))
    BY <1>1, Fields, AgreeQueued DEF PlayerInv, Core
  <2> QED BY <2>1, <1>2 DEF Agree
<1>5. Followed(Append(r.events, "canplay")) /\ HasEnd(Append(r.events, "canplay"))
  BY <1>1, <1>2, Fields, FollowedQueued
<1>6. Hides(r)
  BY <1>2 DEF PlayerInv, Core, Hides
<1> QED BY <1>1, <1>2, <1>3, <1>4, <1>5, <1>6, QueuedCore DEF PlayerInv

LEMMA DeliverKeeps ==
    ASSUME PlayerInv(player), Deliver
    PROVE  PlayerInv(player')
<1> DEFINE es == player.events
           fs == Tail(player.events)
           p == [player EXCEPT !.events = fs]
<1>1. player \in PlayerTypes /\ es \in Seq(Events) /\ es # <<>>
  BY Fields DEF PlayerInv, Core, Deliver
<1>2. fs \in Seq(Events)
  BY <1>1, TailFacts
<1>3. /\ p \in PlayerTypes /\ p.events = fs /\ p.paused = player.paused
      /\ p.ready = player.ready /\ p.failed = player.failed /\ p.playing = player.playing
      /\ p.isLoading = player.isLoading /\ p.showControls = player.showControls
      /\ p.hideTimer = player.hideTimer /\ p.pointer = player.pointer
  BY <1>1, <1>2 DEF PlayerTypes
<1>4. \/ Head(es) = "play" /\ player' = OnPlay(p)
      \/ Head(es) = "pause" /\ player' = OnPause(p)
      \/ Head(es) = "waiting" /\ player' = OnWaiting(p)
      \/ Head(es) = "canplay" /\ player' = OnCanPlay(p)
  BY DEF Deliver
<1>5. /\ Head(es) \notin Marks => Agree(player.playing, player.paused, fs)
      /\ Head(es) = "play" => Agree(TRUE, player.paused, fs)
      /\ Head(es) = "pause" => Agree(FALSE, player.paused, fs)
  BY <1>1, Fields, AgreeDelivered DEF PlayerInv, Core
<1>6. /\ Followed(es) => Followed(fs)
      /\ Followed(es) /\ Head(es) = "waiting" => HasEnd(fs)
      /\ HasEnd(es) /\ Head(es) \notin Ends => HasEnd(fs)
  BY <1>1, FollowedDelivered
<1>7. PlayerInv(player)
  OBVIOUS
<1> HIDE DEF es, fs, p
<1>8. CASE Head(es) = "play" /\ player' = OnPlay(p)
  BY <1>3, <1>5, <1>6, <1>7, <1>8
     DEF PlayerInv, Core, Turns, Fed, Hides, OnPlay, HideControlsAfterDelay, PlayerTypes, es
<1>9. CASE Head(es) = "pause" /\ player' = OnPause(p)
  BY <1>3, <1>5, <1>6, <1>7, <1>9
     DEF PlayerInv, Core, Turns, Fed, Hides, OnPause, PlayerTypes, Ends, es
<1>10. CASE Head(es) = "waiting" /\ player' = OnWaiting(p)
  BY <1>3, <1>5, <1>6, <1>7, <1>10
     DEF PlayerInv, Core, Turns, Fed, Hides, OnWaiting, PlayerTypes, Marks, es
<1>11. CASE Head(es) = "canplay" /\ player' = OnCanPlay(p)
  BY <1>3, <1>5, <1>6, <1>7, <1>11
     DEF PlayerInv, Core, Turns, Fed, Hides, OnCanPlay, PlayerTypes, Marks, es
<1> QED BY <1>4, <1>8, <1>9, <1>10, <1>11

\* The timers and the pointer touch the component alone.
LEMMA ControlsKeep ==
    ASSUME PlayerInv(player),
           Fail \/ HideTimerFires \/ PointerEnters \/ PointerMoves \/ PointerLeaves
    PROVE  PlayerInv(player')
<1> USE DEF PlayerInv, Core, Turns, Fed, Hides, PlayerTypes
<1>1. CASE Fail BY <1>1 DEF Fail
<1>2. CASE HideTimerFires BY <1>2 DEF HideTimerFires
<1>3. CASE PointerEnters BY <1>3 DEF PointerEnters
<1>4. CASE PointerMoves BY <1>4 DEF PointerMoves, ShowControlsTemporarily
<1>5. CASE PointerLeaves BY <1>5 DEF PointerLeaves
<1> QED BY <1>1, <1>2, <1>3, <1>4, <1>5

LEMMA UnclickedKeeps ==
    ASSUME PlayerInv(player), Unclicked
    PROVE  PlayerInv(player')
<1>1. CASE Starve BY <1>1, StarvedKeeps DEF Starve
<1> QED BY <1>1, FeedKeeps, DeliverKeeps, ControlsKeep DEF Unclicked

LEMMA SeekKeeps ==
    ASSUME PlayerInv(player), Seek
    PROVE  PlayerInv(player')
BY StarvedKeeps DEF Seek

\* The button may be pressed when the element plays already: the play that made it so
\* is still on its way, and will take the spinner away.
LEMMA TogglePlayKeeps ==
    ASSUME PlayerInv(player), TogglePlay
    PROVE  PlayerInv(player')
<1> DEFINE p == [player EXCEPT !.isLoading = TRUE]
<1>1. player \in PlayerTypes
  BY DEF PlayerInv, Core
<1>2. /\ p \in PlayerTypes /\ p.events = player.events /\ p.paused = player.paused
      /\ p.ready = player.ready /\ p.failed = player.failed /\ p.playing = player.playing
      /\ p.showControls = player.showControls
      /\ p.hideTimer = player.hideTimer /\ p.pointer = player.pointer
  BY <1>1 DEF PlayerTypes
<1>3. \/ player' = PausedMedia(player)
      \/ ~player.playing /\ player' \in PlayedMedia(p)
  BY DEF TogglePlay
<1> HIDE DEF p
<1>4. Core(p)
  BY <1>2 DEF PlayerInv, Core, Fed, Hides
<1>5. CASE ~player.playing /\ player' \in PlayedMedia(p)
  <2>1. CASE p.paused
    <3>1. player' = Resumed(p) \/ (player' = p /\ p.failed)
      BY <1>5, <2>1 DEF PlayedMedia
    <3> QED BY <3>1, <2>1, <1>4, ResumedKeeps DEF PlayerInv, Turns
  <2>2. CASE ~p.paused
    <3>1. player' = p
      BY <1>5, <2>2 DEF PlayedMedia
    <3>2. LastMark(p.events, "play")
      BY <1>1, <1>2, <1>4, <1>5, <2>2, Fields DEF Core, Agree
    <3>3. HasEnd(p.events)
      BY <3>2 DEF LastMark, HasEnd, Ends
    <3> QED BY <3>1, <3>3, <1>4 DEF PlayerInv, Turns
  <2> QED BY <2>1, <2>2
<1> QED BY <1>3, <1>5, PausedKeeps

LEMMA ToggleByKeyKeeps ==
    ASSUME PlayerInv(player), ToggleByKey
    PROVE  PlayerInv(player')
<1>1. CASE player.paused /\ player' \in PlayedMedia(player)
  <2>1. player' = Resumed(player) \/ player' = player
    BY <1>1 DEF PlayedMedia
  <2> QED BY <2>1, <1>1, ResumedKeeps DEF PlayerInv
<1> QED BY <1>1, PausedKeeps DEF ToggleByKey

\* The invariant gives what the runs check.
LEMMA PlayerInvGives ==
    ASSUME PlayerInv(player)
    PROVE  PlayerTypeOK /\ MediaInSync /\ SpinnerHasEnd /\ ControlsWillHide
<1>1. player \in PlayerTypes /\ player.events \in Seq(Events)
  BY Fields DEF PlayerInv, Core
<1>2. MediaInSync
  <2> SUFFICES ASSUME player.events = <<>> PROVE player.playing = ~player.paused
    BY DEF MediaInSync
  <2>1. ~LastMark(player.events, IF player.paused THEN "pause" ELSE "play")
    BY DEF LastMark
  <2> QED BY <2>1 DEF PlayerInv, Core, Agree
<1>3. SpinnerHasEnd
  <2>1. HasEnd(player.events) => Pending("play") \/ Pending("canplay")
    BY <1>1 DEF HasEnd, Pending, Ends
  <2> QED BY <2>1 DEF PlayerInv, Turns, SpinnerHasEnd
<1>4. ControlsWillHide
  BY DEF PlayerInv, Core, Hides, ControlsWillHide
<1> QED BY <1>1, <1>2, <1>3, <1>4 DEF PlayerTypeOK
=============================================================================
