--------------------------- MODULE ServicesProof ---------------------------
(***************************************************************************)
(* Proofs about the chat rooms, the streams, the pool of e-mail providers  *)
(* and the rate limiter, for any number of connections, messages,          *)
(* publications, providers and requests, any rate, window and clock.       *)
(***************************************************************************)
EXTENDS MCServices, FiniteSetTheorems, TLAPS

(***************************************************************************)
(* Chat: the room.  ViewersCounted also needs that a connection has its    *)
(* viewer from its registration on.                                        *)
(***************************************************************************)
Gone(stage) == stage \in {"new", "closed"}

RoomInv ==
    /\ \A c \in Conns : conn[c].stage = "new" <=> conn[c].viewer = NoViewer
    /\ room <=> clients # {}
    /\ \A c \in clients : ~Gone(conn[c].stage)
    /\ \A c, d \in clients : conn[c].viewer = conn[d].viewer => c = d
    /\ \A c \in Conns : ~Gone(conn[c].stage) /\ c \notin clients =>
         \E d \in Conns : d # c /\ conn[d].viewer = conn[c].viewer

LEMMA RoomGives ==
    ASSUME ChatTypeOK, RoomInv
    PROVE  ViewersCounted
<1>1. ASSUME NEW c \in clients
      PROVE  Present(c) /\ clients \cap Of(conn[c].viewer) = {c}
  <2>1. Present(c)
    BY DEF RoomInv, Gone, Present
  <2>2. c \in Of(conn[c].viewer)
    BY DEF ChatTypeOK, Of
  <2>3. \A d \in clients \cap Of(conn[c].viewer) : d = c
    BY DEF RoomInv, Of
  <2> QED BY <2>1, <2>2, <2>3
<1>2. \A c \in Conns : Present(c) /\ c \notin clients => Of(conn[c].viewer) # {c}
  BY DEF RoomInv, Gone, Present, Of
<1> QED BY <1>1, <1>2 DEF RoomInv, ViewersCounted

\* Steps that neither register a connection nor take one off the list.
RoomStays ==
    /\ UNCHANGED <<clients, room>>
    /\ \A c \in Conns :
         /\ conn'[c].viewer = conn[c].viewer
         /\ conn'[c].stage = "new" <=> conn[c].stage = "new"
         /\ conn'[c].stage = "closed" <=> conn[c].stage = "closed"

LEMMA RoomKept ==
    ASSUME ChatTypeOK, RoomInv, RoomStays
    PROVE  RoomInv'
<1>1. clients' = clients /\ room' = room
  BY DEF RoomStays
<1>2. \A c \in Conns : /\ conn'[c].viewer = conn[c].viewer
                       /\ conn'[c].stage = "new" <=> conn[c].stage = "new"
                       /\ Gone(conn'[c].stage) <=> Gone(conn[c].stage)
  BY DEF RoomStays, Gone
<1>3. \A c \in clients : ~Gone(conn'[c].stage)
  BY <1>2 DEF ChatTypeOK, RoomInv
<1>4. ASSUME NEW c \in clients, NEW d \in clients, conn'[c].viewer = conn'[d].viewer
      PROVE  c = d
  <2>1. c \in Conns /\ d \in Conns
    BY DEF ChatTypeOK
  <2> QED BY <1>2, <1>4, <2>1 DEF RoomInv
<1>5. \A c \in Conns : conn'[c].stage = "new" <=> conn'[c].viewer = NoViewer
  BY <1>2 DEF RoomInv
<1>6. \A c \in Conns : ~Gone(conn'[c].stage) /\ c \notin clients =>
        \E d \in Conns : d # c /\ conn'[d].viewer = conn'[c].viewer
  BY <1>2 DEF RoomInv
<1>7. room <=> clients # {}
  BY DEF RoomInv
<1> QED BY <1>1, <1>3, <1>4, <1>5, <1>6, <1>7 DEF RoomInv

LEMMA RegisterRoom ==
    ASSUME ChatTypeOK, RoomInv, NEW c \in Conns, NEW u \in Viewers, Register(c, u)
    PROVE  RoomInv'
<1>1. \A d \in Conns : /\ conn'[d].viewer = IF d = c THEN u ELSE conn[d].viewer
                       /\ conn'[d].stage = IF d = c THEN "registered" ELSE conn[d].stage
  BY DEF ChatTypeOK, Register
<1>2. conn[c].stage = "new" /\ room' = TRUE /\ clients' = (clients \ Of(u)) \cup {c}
  BY DEF Register
<1>3. \A d \in clients' : d = c \/ (d \in clients /\ conn[d].viewer # u)
  BY <1>2 DEF ChatTypeOK, Of
<1>4. clients' # {} /\ c \in clients'
  BY <1>2
<1>5. \A d \in clients' : ~Gone(conn'[d].stage)
  BY <1>1, <1>3 DEF ChatTypeOK, RoomInv, Gone
<1>6. ASSUME NEW d \in clients', NEW e \in clients', conn'[d].viewer = conn'[e].viewer
      PROVE  d = e
  <2>1. d \in Conns /\ e \in Conns
    BY <1>3 DEF ChatTypeOK
  <2> QED BY <1>1, <1>3, <1>6, <2>1 DEF RoomInv
<1>7. ASSUME NEW d \in Conns, ~Gone(conn'[d].stage), d \notin clients'
      PROVE  \E e \in Conns : e # d /\ conn'[e].viewer = conn'[d].viewer
  <2>1. d # c /\ ~Gone(conn[d].stage) /\ conn'[d].viewer = conn[d].viewer
    BY <1>1, <1>4, <1>7
  <2>2. CASE d \in clients
    <3>1. conn[d].viewer = u
      BY <1>2, <1>7, <2>2 DEF Of
    <3> QED BY <1>1, <2>1, <3>1
  <2>3. CASE d \notin clients
    <3>1. PICK e \in Conns : e # d /\ conn[e].viewer = conn[d].viewer
      BY <2>1, <2>3 DEF RoomInv
    <3>2. conn[d].viewer # NoViewer /\ conn[c].viewer = NoViewer
      BY <1>2, <2>1 DEF RoomInv, Gone
    <3> QED BY <1>1, <2>1, <3>1, <3>2
  <2> QED BY <2>2, <2>3
<1>8. \A d \in Conns : conn'[d].stage = "new" <=> conn'[d].viewer = NoViewer
  BY <1>1, NoViewerIsNone DEF RoomInv
<1> QED BY <1>2, <1>4, <1>5, <1>6, <1>7, <1>8 DEF RoomInv

LEMMA CleanUpRoomStep ==
    ASSUME ChatTypeOK, RoomInv, NEW c \in Conns, CleanUp(c)
    PROVE  RoomInv'
<1>1. \A d \in Conns : /\ conn'[d].viewer = conn[d].viewer
                       /\ conn'[d].stage = IF d = c THEN "closed" ELSE conn[d].stage
  BY DEF ChatTypeOK, CleanUp, Moves
<1>2. /\ conn[c].stage = "leaving" /\ clients' = clients \ Of(conn[c].viewer)
      /\ room' = (room /\ clients' # {})
  BY DEF CleanUp
<1>3. \A d \in clients' : d \in clients /\ d # c
  BY <1>2 DEF ChatTypeOK, Of
<1>4. room' <=> clients' # {}
  BY <1>2, <1>3 DEF RoomInv
<1>5. \A d \in clients' : ~Gone(conn'[d].stage)
  BY <1>1, <1>3 DEF ChatTypeOK, RoomInv
<1>6. ASSUME NEW d \in clients', NEW e \in clients', conn'[d].viewer = conn'[e].viewer
      PROVE  d = e
  <2>1. d \in Conns /\ e \in Conns
    BY <1>3 DEF ChatTypeOK
  <2> QED BY <1>1, <1>3, <1>6, <2>1 DEF RoomInv
<1>7. ASSUME NEW d \in Conns, ~Gone(conn'[d].stage), d \notin clients'
      PROVE  \E e \in Conns : e # d /\ conn'[e].viewer = conn'[d].viewer
  <2>1. d # c /\ ~Gone(conn[d].stage)
    BY <1>1, <1>7 DEF Gone
  <2>2. CASE d \in clients
    BY <1>1, <1>2, <1>7, <2>1, <2>2 DEF Of
  <2>3. CASE d \notin clients
    BY <1>1, <2>1, <2>3 DEF RoomInv
  <2> QED BY <2>2, <2>3
<1>8. \A d \in Conns : conn'[d].stage = "new" <=> conn'[d].viewer = NoViewer
  BY <1>1, <1>2 DEF RoomInv
<1> QED BY <1>4, <1>5, <1>6, <1>7, <1>8 DEF RoomInv

(***************************************************************************)
(* Chat: the messages.  TypedIsLost also needs that a message is sent by   *)
(* one sender, and that a context, once cancelled, stays so.               *)
(***************************************************************************)
MessageInv ==
    /\ \A c \in Conns : conn[c].stage \in {"publish", "save"} =>
         /\ conn[c].message \in Messages
         /\ post[conn[c].message] \in {"typed", "typed late"}
         /\ post[conn[c].message] = "typed late" => ~conn[c].context
    /\ \A m \in Messages : post[m] \in {"new", "typed late"} =>
         /\ m \notin chatTable
         /\ \A c \in Conns : m \notin heard[c]

LEMMA MessageGives == MessageInv => TypedIsLost
BY DEF MessageInv, TypedIsLost

\* Steps that send nothing.
MessagesStay ==
    /\ UNCHANGED <<post, heard>>
    /\ chatTable' \subseteq chatTable
    /\ \A c \in Conns :
         conn'[c].stage \in {"publish", "save"} =>
            /\ conn[c].stage \in {"publish", "save"}
            /\ conn'[c].message = conn[c].message
            /\ conn'[c].context => conn[c].context

LEMMA MessagesKept == ChatTypeOK /\ MessageInv /\ MessagesStay => MessageInv'
BY DEF ChatTypeOK, MessageInv, MessagesStay

\* Steps that may have a message heard or kept, which is neither new nor typed late.
MessageSent(m) ==
    /\ m \in Messages /\ post'[m] \notin {"new", "typed late"}
    /\ \A n \in Messages \ {m} : post'[n] = post[n]
    /\ chatTable' \subseteq chatTable \cup {m}
    /\ \A c \in Conns : heard'[c] \subseteq heard[c] \cup {m}
    /\ \A c \in Conns :
         conn'[c].stage \in {"publish", "save"} =>
            /\ conn[c].stage \in {"publish", "save"}
            /\ conn'[c].message = conn[c].message
            /\ conn'[c].context = conn[c].context
            /\ post'[conn[c].message] = post[conn[c].message]

LEMMA SentKept ==
    ASSUME ChatTypeOK, MessageInv, NEW m, MessageSent(m)
    PROVE  MessageInv'
<1>1. \A c \in Conns : conn'[c].stage \in {"publish", "save"} =>
         /\ conn'[c].message \in Messages
         /\ post'[conn'[c].message] \in {"typed", "typed late"}
         /\ post'[conn'[c].message] = "typed late" => ~conn'[c].context
  BY DEF MessageInv, MessageSent
<1>2. \A n \in Messages : post'[n] \in {"new", "typed late"} =>
         n # m /\ post[n] \in {"new", "typed late"}
  BY DEF MessageSent
<1>3. \A n \in Messages : post'[n] \in {"new", "typed late"} =>
         n \notin chatTable' /\ \A c \in Conns : n \notin heard'[c]
  BY <1>2 DEF MessageInv, MessageSent
<1> QED BY <1>1, <1>3 DEF MessageInv

ChatInv == ChatTypeOK /\ RoomInv /\ MessageInv

LEMMA ChatInitInv == ChatInit => ChatInv
<1> SUFFICES ASSUME ChatInit PROVE ChatInv
  OBVIOUS
<1>1. ChatTypeOK
  BY DEF ChatInit, ChatTypeOK, NewConn, Stages
<1>2. \A c \in Conns : conn[c].stage = "new" /\ conn[c].viewer = NoViewer
  BY DEF ChatInit, NewConn
<1>3. RoomInv
  BY <1>2 DEF ChatInit, RoomInv, Gone
<1>4. MessageInv
  BY <1>2 DEF ChatInit, MessageInv
<1> QED BY <1>1, <1>3, <1>4 DEF ChatInv

ConnTypes ==
    [viewer : Viewers \cup {NoViewer}, stage : Stages, context : BOOLEAN, subscribed : BOOLEAN,
     open : BOOLEAN, message : Messages \cup {NoMessage}]

LEMMA Spelt == {"registered", "reading", "publish", "save", "leaving", "closed"} \subseteq Stages
BY DEF Stages

LEMMA ConnKept ==
    ASSUME ChatTypeOK, NEW c \in Conns, NEW k \in ConnTypes
    PROVE  [conn EXCEPT ![c] = k] \in [Conns -> ConnTypes]
BY DEF ChatTypeOK, ConnTypes

LEMMA PublishedAdds ==
    ASSUME heard \in [Conns -> SUBSET Messages], NEW m \in Messages, Published(m)
    PROVE  /\ heard' \in [Conns -> SUBSET Messages]
           /\ \A c \in Conns : heard'[c] \subseteq heard[c] \cup {m}
<1>1. \A c \in Conns : heard'[c] = heard[c] \/ heard'[c] = heard[c] \cup {m}
  BY DEF Published
<1>2. \A c \in Conns : heard'[c] \in SUBSET Messages
  BY <1>1
<1>3. heard' = [c \in Conns |-> heard'[c]]
  BY DEF Published
<1> QED BY <1>1, <1>2, <1>3

LEMMA HandlerReturnsStep ==
    ASSUME ChatInv, NEW c \in Conns, HandlerReturns(c)
    PROVE  ChatInv'
<1>1. ChatTypeOK'
  BY DEF ChatInv, ChatTypeOK, HandlerReturns
<1>2. \A d \in Conns : /\ conn'[d].viewer = conn[d].viewer
                       /\ conn'[d].stage = conn[d].stage
                       /\ conn'[d].context = IF d = c THEN FALSE ELSE conn[d].context
                       /\ conn'[d].message = conn[d].message
  BY DEF ChatInv, ChatTypeOK, HandlerReturns
<1>3. /\ UNCHANGED <<clients, room>> /\ RoomStays
  <2>1. /\ clients' = clients /\ room' = room
    BY DEF HandlerReturns
  <2> QED BY <1>2, <2>1 DEF RoomStays
<1>4. MessagesStay
  <2>1. post' = post /\ heard' = heard /\ chatTable' = chatTable
    BY DEF HandlerReturns
  <2> QED BY <1>2, <1>3, <2>1 DEF MessagesStay
<1> QED BY <1>1, <1>3, <1>4, RoomKept, MessagesKept DEF ChatInv

LEMMA ChannelSubscribesStep ==
    ASSUME ChatInv, NEW c \in Conns, ChannelSubscribes(c)
    PROVE  ChatInv'
<1>1. ChatTypeOK'
  BY DEF ChatInv, ChatTypeOK, ChannelSubscribes
<1>2. \A d \in Conns : /\ conn'[d].viewer = conn[d].viewer
                       /\ conn'[d].stage = conn[d].stage
                       /\ conn'[d].context = conn[d].context
                       /\ conn'[d].message = conn[d].message
  BY DEF ChatInv, ChatTypeOK, ChannelSubscribes
<1>3. /\ UNCHANGED <<clients, room>> /\ RoomStays
  <2>1. /\ clients' = clients /\ room' = room
    BY DEF ChannelSubscribes
  <2> QED BY <1>2, <2>1 DEF RoomStays
<1>4. MessagesStay
  <2>1. post' = post /\ heard' = heard /\ chatTable' = chatTable
    BY DEF ChannelSubscribes
  <2> QED BY <1>2, <1>3, <2>1 DEF MessagesStay
<1> QED BY <1>1, <1>3, <1>4, RoomKept, MessagesKept DEF ChatInv

LEMMA PeerLeavesStep ==
    ASSUME ChatInv, NEW c \in Conns, PeerLeaves(c)
    PROVE  ChatInv'
<1>1. ChatTypeOK'
  BY DEF ChatInv, ChatTypeOK, PeerLeaves
<1>2. \A d \in Conns : /\ conn'[d].viewer = conn[d].viewer
                       /\ conn'[d].stage = conn[d].stage
                       /\ conn'[d].context = conn[d].context
                       /\ conn'[d].message = conn[d].message
  BY DEF ChatInv, ChatTypeOK, PeerLeaves
<1>3. /\ UNCHANGED <<clients, room>> /\ RoomStays
  <2>1. /\ clients' = clients /\ room' = room
    BY DEF PeerLeaves
  <2> QED BY <1>2, <2>1 DEF RoomStays
<1>4. MessagesStay
  <2>1. post' = post /\ heard' = heard /\ chatTable' = chatTable
    BY DEF PeerLeaves
  <2> QED BY <1>2, <1>3, <2>1 DEF MessagesStay
<1> QED BY <1>1, <1>3, <1>4, RoomKept, MessagesKept DEF ChatInv

LEMMA SubscribeStep ==
    ASSUME ChatInv, NEW c \in Conns, Subscribe(c)
    PROVE  ChatInv'
<1>1. ChatTypeOK'
  <2>1. conn' \in [Conns -> ConnTypes] /\ UNCHANGED <<clients, room, post>>
    <3> DEFINE k == [conn[c] EXCEPT !.stage = "reading", !.subscribed = conn[c].context]
    <3>1. conn[c] \in ConnTypes
      BY DEF ChatInv, ChatTypeOK, ConnTypes
    <3>2. k \in ConnTypes
      BY Spelt, <3>1 DEF ConnTypes
    <3>3. conn' = [conn EXCEPT ![c] = k] /\ UNCHANGED <<clients, room, post>>
      BY DEF Subscribe
    <3> HIDE DEF k
    <3> QED BY <3>2, <3>3, ConnKept DEF ChatInv
  <2>2. heard' \in [Conns -> SUBSET Messages] /\ chatTable' \subseteq Messages
    BY DEF ChatInv, ChatTypeOK, MessageInv, Subscribe
  <2> QED BY <2>1, <2>2 DEF ChatInv, ChatTypeOK, ConnTypes
<1>2. \A d \in Conns : /\ conn'[d].viewer = conn[d].viewer
                       /\ conn'[d].stage = IF d = c THEN "reading" ELSE conn[d].stage
                       /\ conn'[d].context = conn[d].context
                       /\ conn'[d].message = conn[d].message
  BY DEF ChatInv, ChatTypeOK, Subscribe
<1>3. /\ conn[c].stage = "registered"
      /\ UNCHANGED <<clients, room>> /\ RoomStays
  <2>1. /\ conn[c].stage = "registered"
        /\ clients' = clients /\ room' = room
    BY DEF Subscribe
  <2> QED BY <1>2, <2>1 DEF RoomStays
<1>4. MessagesStay
  <2>1. post' = post /\ heard' = heard /\ chatTable' = chatTable
    BY DEF Subscribe
  <2> QED BY <1>2, <1>3, <2>1 DEF MessagesStay
<1> QED BY <1>1, <1>3, <1>4, RoomKept, MessagesKept DEF ChatInv

LEMMA ReadFailsStep ==
    ASSUME ChatInv, NEW c \in Conns, ReadFails(c)
    PROVE  ChatInv'
<1>1. ChatTypeOK'
  <2>1. conn' \in [Conns -> ConnTypes] /\ UNCHANGED <<clients, room, post>>
    <3> DEFINE k == [conn[c] EXCEPT !.stage = "leaving", !.subscribed = FALSE]
    <3>1. conn[c] \in ConnTypes
      BY DEF ChatInv, ChatTypeOK, ConnTypes
    <3>2. k \in ConnTypes
      BY Spelt, <3>1 DEF ConnTypes
    <3>3. conn' = [conn EXCEPT ![c] = k] /\ UNCHANGED <<clients, room, post>>
      BY DEF ReadFails
    <3> HIDE DEF k
    <3> QED BY <3>2, <3>3, ConnKept DEF ChatInv
  <2>2. heard' \in [Conns -> SUBSET Messages] /\ chatTable' \subseteq Messages
    BY DEF ChatInv, ChatTypeOK, MessageInv, ReadFails
  <2> QED BY <2>1, <2>2 DEF ChatInv, ChatTypeOK, ConnTypes
<1>2. \A d \in Conns : /\ conn'[d].viewer = conn[d].viewer
                       /\ conn'[d].stage = IF d = c THEN "leaving" ELSE conn[d].stage
                       /\ conn'[d].context = conn[d].context
                       /\ conn'[d].message = conn[d].message
  BY DEF ChatInv, ChatTypeOK, ReadFails
<1>3. /\ conn[c].stage = "reading"
      /\ UNCHANGED <<clients, room>> /\ RoomStays
  <2>1. /\ conn[c].stage = "reading"
        /\ clients' = clients /\ room' = room
    BY DEF ReadFails
  <2> QED BY <1>2, <2>1 DEF RoomStays
<1>4. MessagesStay
  <2>1. post' = post /\ heard' = heard /\ chatTable' = chatTable
    BY DEF ReadFails
  <2> QED BY <1>2, <1>3, <2>1 DEF MessagesStay
<1> QED BY <1>1, <1>3, <1>4, RoomKept, MessagesKept DEF ChatInv

LEMMA BroadcastStep ==
    ASSUME ChatInv, NEW c \in Conns, Broadcast(c)
    PROVE  ChatInv'
<1>1. ChatTypeOK'
  <2>1. conn' \in [Conns -> ConnTypes] /\ UNCHANGED <<clients, room, post>>
    BY Spelt DEF ChatInv, ChatTypeOK, ConnTypes, Broadcast, Published, Moves
  <2>2. heard' \in [Conns -> SUBSET Messages]
    <3>1. conn[c].stage = "publish" /\ (Published(conn[c].message) \/ heard' = heard)
      BY DEF Broadcast
    <3>2. conn[c].message \in Messages /\ heard \in [Conns -> SUBSET Messages]
      BY <3>1 DEF ChatInv, ChatTypeOK, MessageInv
    <3> QED BY <3>1, <3>2, PublishedAdds
  <2>3. chatTable' \subseteq Messages
    BY DEF ChatInv, ChatTypeOK, Broadcast
  <2> QED BY <2>1, <2>2, <2>3 DEF ChatInv, ChatTypeOK, ConnTypes
<1>2. \A d \in Conns : /\ conn'[d].viewer = conn[d].viewer
                       /\ conn'[d].stage = IF d = c THEN "save" ELSE conn[d].stage
                       /\ conn'[d].context = conn[d].context
                       /\ conn'[d].message = conn[d].message
  BY DEF ChatInv, ChatTypeOK, Broadcast, Published, Moves
<1>3. /\ conn[c].stage = "publish"
      /\ UNCHANGED <<clients, room>> /\ RoomStays
  <2>1. /\ conn[c].stage = "publish"
        /\ clients' = clients /\ room' = room
    BY DEF Broadcast
  <2> QED BY <1>2, <2>1 DEF RoomStays
<1>4. conn[c].message \in Messages /\ post[conn[c].message] \in {"typed", "typed late"}
  BY <1>3 DEF ChatInv, MessageInv
<1>5. CASE conn[c].context
  <2>1. post[conn[c].message] = "typed"
    BY <1>3, <1>4, <1>5 DEF ChatInv, MessageInv
  <2>2. /\ post' = post /\ chatTable' \subseteq chatTable \cup {conn[c].message}
        /\ \A d \in Conns : heard'[d] \subseteq heard[d] \cup {conn[c].message}
    <3>1. /\ Published(conn[c].message) \/ heard' = heard
          /\ post' = post /\ chatTable' = chatTable
      BY DEF Broadcast
    <3>2. heard \in [Conns -> SUBSET Messages]
      BY DEF ChatInv, ChatTypeOK
    <3> QED BY <1>4, <3>1, <3>2, PublishedAdds
  <2>3. MessageSent(conn[c].message)
    BY <1>2, <1>3, <1>4, <2>1, <2>2 DEF MessageSent
  <2> QED BY <1>1, <1>3, <2>3, RoomKept, SentKept DEF ChatInv
<1>6. CASE ~conn[c].context
  <2>1. post' = post /\ heard' = heard /\ chatTable' = chatTable
    BY <1>6 DEF Broadcast
  <2>2. MessagesStay
    BY <1>2, <1>3, <2>1 DEF MessagesStay
  <2> QED BY <1>1, <1>3, <2>2, RoomKept, MessagesKept DEF ChatInv
<1> QED BY <1>5, <1>6

LEMMA SaveMessageStep ==
    ASSUME ChatInv, NEW c \in Conns, SaveMessage(c)
    PROVE  ChatInv'
<1>1. ChatTypeOK'
  <2>1. conn' \in [Conns -> ConnTypes] /\ UNCHANGED <<clients, room, post>>
    BY Spelt DEF ChatInv, ChatTypeOK, ConnTypes, SaveMessage, Moves
  <2>2. heard' \in [Conns -> SUBSET Messages] /\ chatTable' \subseteq Messages
    BY DEF ChatInv, ChatTypeOK, MessageInv, SaveMessage, Moves
  <2> QED BY <2>1, <2>2 DEF ChatInv, ChatTypeOK, ConnTypes
<1>2. \A d \in Conns : /\ conn'[d].viewer = conn[d].viewer
                       /\ conn'[d].stage = IF d = c THEN "reading" ELSE conn[d].stage
                       /\ conn'[d].context = conn[d].context
                       /\ conn'[d].message = conn[d].message
  BY DEF ChatInv, ChatTypeOK, SaveMessage, Moves
<1>3. /\ conn[c].stage = "save"
      /\ UNCHANGED <<clients, room>> /\ RoomStays
  <2>1. /\ conn[c].stage = "save"
        /\ clients' = clients /\ room' = room
    BY DEF SaveMessage
  <2> QED BY <1>2, <2>1 DEF RoomStays
<1>4. conn[c].message \in Messages /\ post[conn[c].message] \in {"typed", "typed late"}
  BY <1>3 DEF ChatInv, MessageInv
<1>5. CASE conn[c].context
  <2>1. post[conn[c].message] = "typed"
    BY <1>3, <1>4, <1>5 DEF ChatInv, MessageInv
  <2>2. /\ post' = post /\ chatTable' \subseteq chatTable \cup {conn[c].message}
        /\ \A d \in Conns : heard'[d] \subseteq heard[d] \cup {conn[c].message}
    BY <1>4 DEF SaveMessage
  <2>3. MessageSent(conn[c].message)
    BY <1>2, <1>3, <1>4, <2>1, <2>2 DEF MessageSent
  <2> QED BY <1>1, <1>3, <2>3, RoomKept, SentKept DEF ChatInv
<1>6. CASE ~conn[c].context
  <2>1. post' = post /\ heard' = heard /\ chatTable' = chatTable
    BY <1>6 DEF SaveMessage
  <2>2. MessagesStay
    BY <1>2, <1>3, <2>1 DEF MessagesStay
  <2> QED BY <1>1, <1>3, <2>2, RoomKept, MessagesKept DEF ChatInv
<1> QED BY <1>5, <1>6

LEMMA RegisterStep ==
    ASSUME ChatInv, NEW c \in Conns, NEW u \in Viewers, Register(c, u)
    PROVE  ChatInv'
<1>1. ChatTypeOK'
  <2>1. conn' \in [Conns -> ConnTypes]
    <3> DEFINE k == [conn[c] EXCEPT !.stage = "registered", !.viewer = u]
    <3>1. conn[c] \in ConnTypes
      BY DEF ChatInv, ChatTypeOK, ConnTypes
    <3>2. k \in ConnTypes
      BY Spelt, <3>1 DEF ConnTypes
    <3>3. conn' = [conn EXCEPT ![c] = k]
      BY DEF Register
    <3> HIDE DEF k
    <3> QED BY <3>2, <3>3, ConnKept DEF ChatInv
  <2> QED BY <2>1 DEF ChatInv, ChatTypeOK, ConnTypes, Register
<1>2. MessagesStay
  BY DEF ChatInv, ChatTypeOK, Register, MessagesStay
<1> QED BY <1>1, <1>2, RegisterRoom, MessagesKept DEF ChatInv

LEMMA CleanUpStep ==
    ASSUME ChatInv, NEW c \in Conns, CleanUp(c)
    PROVE  ChatInv'
<1>1. ChatTypeOK'
  <2>1. conn' \in [Conns -> ConnTypes]
    BY Spelt DEF ChatInv, ChatTypeOK, ConnTypes, CleanUp, Moves
  <2> QED BY <2>1 DEF ChatInv, ChatTypeOK, ConnTypes, CleanUp
<1>2. MessagesStay
  BY DEF ChatInv, ChatTypeOK, CleanUp, Moves, MessagesStay
<1> QED BY <1>1, <1>2, CleanUpRoomStep, MessagesKept DEF ChatInv

LEMMA ReadMessageStep ==
    ASSUME ChatInv, NEW c \in Conns, NEW m \in Messages, ReadMessage(c, m)
    PROVE  ChatInv'
<1>1. ChatTypeOK'
  <2>1. conn' \in [Conns -> ConnTypes]
    <3> DEFINE k == [conn[c] EXCEPT !.stage = "publish", !.message = m]
    <3>1. conn[c] \in ConnTypes
      BY DEF ChatInv, ChatTypeOK, ConnTypes
    <3>2. k \in ConnTypes
      BY Spelt, <3>1 DEF ConnTypes
    <3>3. conn' = [conn EXCEPT ![c] = k]
      BY DEF ReadMessage
    <3> HIDE DEF k
    <3> QED BY <3>2, <3>3, ConnKept DEF ChatInv
  <2>2. post' \in [Messages -> {"new", "typed", "typed late", "save", "posted"}]
    BY DEF ChatInv, ChatTypeOK, ReadMessage
  <2> QED BY <2>1, <2>2 DEF ChatInv, ChatTypeOK, ConnTypes, ReadMessage
<1>2. \A d \in Conns : /\ conn'[d].viewer = conn[d].viewer
                       /\ conn'[d].stage = IF d = c THEN "publish" ELSE conn[d].stage
                       /\ conn'[d].context = conn[d].context
                       /\ conn'[d].message = IF d = c THEN m ELSE conn[d].message
  BY DEF ChatInv, ChatTypeOK, ReadMessage
<1>3. /\ conn[c].stage = "reading" /\ post[m] = "new" /\ heard' = heard /\ chatTable' = chatTable
      /\ post'[m] = IF conn[c].context THEN "typed" ELSE "typed late"
      /\ \A n \in Messages \ {m} : post'[n] = post[n]
  BY DEF ChatInv, ChatTypeOK, ReadMessage
<1>4. RoomStays
  <2>1. clients' = clients /\ room' = room
    BY DEF ReadMessage
  <2> QED BY <1>2, <1>3, <2>1 DEF RoomStays
<1>5. ASSUME NEW d \in Conns, conn'[d].stage \in {"publish", "save"}
      PROVE  /\ conn'[d].message \in Messages
             /\ post'[conn'[d].message] \in {"typed", "typed late"}
             /\ post'[conn'[d].message] = "typed late" => ~conn'[d].context
  <2>1. CASE d = c
    BY <1>2, <1>3, <2>1
  <2>2. CASE d # c
    <3>1. conn'[d].stage = conn[d].stage /\ conn'[d].message = conn[d].message /\ conn'[d].context = conn[d].context
      BY <1>2, <2>2
    <3>2. conn[d].message \in Messages /\ post[conn[d].message] \in {"typed", "typed late"}
      BY <1>5, <3>1 DEF ChatInv, MessageInv
    <3>3. post'[conn[d].message] = post[conn[d].message]
      BY <1>3, <3>2
    <3> QED BY <1>5, <3>1, <3>2, <3>3 DEF ChatInv, MessageInv
  <2> QED BY <2>1, <2>2
<1>6. \A n \in Messages : post'[n] \in {"new", "typed late"} => post[n] \in {"new", "typed late"}
  BY <1>3
<1>7. MessageInv'
  BY <1>3, <1>5, <1>6 DEF ChatInv, MessageInv
<1> QED BY <1>1, <1>4, <1>7, RoomKept DEF ChatInv

\* The requests that post a message, and the administrators.
LEMMA PostStep ==
    ASSUME ChatInv, NEW m \in Messages, PostBroadcast(m) \/ PostSave(m)
    PROVE  ChatInv'
<1>1. ChatTypeOK'
  <2>1. heard' \in [Conns -> SUBSET Messages]
    BY PublishedAdds DEF ChatInv, ChatTypeOK, PostBroadcast, PostSave
  <2>2. post' \in [Messages -> {"new", "typed", "typed late", "save", "posted"}]
    BY DEF ChatInv, ChatTypeOK, PostBroadcast, PostSave
  <2>3. chatTable' \subseteq Messages /\ UNCHANGED <<clients, room, conn>>
    BY DEF ChatInv, ChatTypeOK, PostBroadcast, PostSave
  <2> QED BY <2>1, <2>2, <2>3 DEF ChatInv, ChatTypeOK
<1>2. conn' = conn /\ RoomStays
  BY DEF PostBroadcast, PostSave, RoomStays
<1>3. post[m] \in {"new", "save"} /\ post'[m] \in {"save", "posted"}
      /\ \A n \in Messages \ {m} : post'[n] = post[n]
  BY DEF ChatInv, ChatTypeOK, PostBroadcast, PostSave
<1>4. \A c \in Conns : conn[c].stage \in {"publish", "save"} => conn[c].message # m
  BY <1>3 DEF ChatInv, MessageInv
<1>5. chatTable' \subseteq chatTable \cup {m} /\ \A c \in Conns : heard'[c] \subseteq heard[c] \cup {m}
  BY PublishedAdds DEF ChatInv, ChatTypeOK, PostBroadcast, PostSave
<1>6. MessageSent(m)
  BY <1>2, <1>3, <1>4, <1>5 DEF MessageSent, ChatInv, MessageInv
<1> QED BY <1>1, <1>2, <1>6, RoomKept, SentKept DEF ChatInv

LEMMA AdminStep ==
    ASSUME ChatInv, PurgeStreamMessages \/ \E m \in Messages : DeleteMessage(m)
    PROVE  ChatInv'
<1>1. /\ UNCHANGED <<clients, room, conn, post, heard>>
      /\ chatTable' \subseteq chatTable
  BY DEF PurgeStreamMessages, DeleteMessage
<1>2. ChatTypeOK'
  BY <1>1 DEF ChatInv, ChatTypeOK
<1>3. RoomStays /\ MessagesStay
  BY <1>1 DEF RoomStays, MessagesStay
<1> QED BY <1>2, <1>3, RoomKept, MessagesKept DEF ChatInv

LEMMA ChatInvariant == ChatSpec => []ChatInv
<1>1. ChatInv /\ [ChatNext]_chatVars => ChatInv'
  <2> SUFFICES ASSUME ChatInv, [ChatNext]_chatVars PROVE ChatInv'
    OBVIOUS
  <2>1. CASE ChatNext
    BY <2>1, RegisterStep, ReadMessageStep, HandlerReturnsStep, ChannelSubscribesStep,
       PeerLeavesStep, SubscribeStep, BroadcastStep, SaveMessageStep, ReadFailsStep,
       CleanUpStep, PostStep, AdminStep
    DEF ChatNext, Goroutine
  <2>2. CASE UNCHANGED chatVars
    <3>1. ChatTypeOK' /\ RoomStays /\ MessagesStay
      BY <2>2 DEF chatVars, ChatInv, ChatTypeOK, RoomStays, MessagesStay
    <3> QED BY <3>1, RoomKept, MessagesKept DEF ChatInv
  <2> QED BY <2>1, <2>2
<1> QED BY <1>1, ChatInitInv, PTL DEF ChatSpec

\* However often a viewer connects again: the room holds no connection that has left, and
\* loses a present one only to another of the same viewer.
THEOREM RoomCountsViewers == ChatSpec => []ViewersCounted
<1>1. ChatInv => ViewersCounted
  BY RoomGives DEF ChatInv
<1> QED BY <1>1, ChatInvariant, PTL

\* Nothing typed after the handler has returned is ever heard or kept.
THEOREM TypedNeverArrives == ChatSpec => []TypedIsLost
<1>1. ChatInv => TypedIsLost
  BY MessageGives DEF ChatInv
<1> QED BY <1>1, ChatInvariant, PTL

(***************************************************************************)
(* The stream.  While nothing is lost or overtaken, webhooks under way     *)
(* alternate, and the first and the last of them say what the status will  *)
(* be told.                                                                *)
(***************************************************************************)
Hooks == {"publish", "publish_done"}

LEMMA Removed ==
    ASSUME NEW s \in Seq(Hooks), NEW i \in 1..Len(s)
    PROVE  /\ RemoveAt(s, i) \in Seq(Hooks)
           /\ Len(RemoveAt(s, i)) = Len(s) - 1
           /\ \A j \in i..(Len(s) - 1) : RemoveAt(s, i)[j] = s[j + 1]
<1> DEFINE a == SubSeq(s, 1, i - 1)
           b == SubSeq(s, i + 1, Len(s))
<1>1. a \in Seq(Hooks) /\ Len(a) = i - 1
  OBVIOUS
<1>2. b \in Seq(Hooks) /\ Len(b) = Len(s) - i
  OBVIOUS
<1>3. \A k \in 1..(Len(s) - i) : b[k] = s[i + 1 + k - 1]
  OBVIOUS
<1>4. RemoveAt(s, i) = a \o b
  BY DEF RemoveAt
<1> HIDE DEF a, b
<1>5. \A j \in i..(Len(s) - 1) : (a \o b)[j] = b[j - (i - 1)]
  BY <1>1, <1>2
<1>6. \A j \in i..(Len(s) - 1) : (a \o b)[j] = s[j + 1]
  <2> TAKE j \in i..(Len(s) - 1)
  <2>1. i \in Nat /\ Len(s) \in Nat /\ 1 <= i /\ j \in Nat
    OBVIOUS
  <2>2. j - (i - 1) \in 1..(Len(s) - i) /\ i + 1 + (j - (i - 1)) - 1 = j + 1
    BY <2>1
  <2> QED BY <1>3, <1>5, <2>2
<1>7. (a \o b) \in Seq(Hooks) /\ Len(a \o b) = Len(s) - 1
  BY <1>1, <1>2
<1> QED BY <1>4, <1>6, <1>7

\* The webhooks under way alternate, the last one says whether the stream is on air.
HooksInv ==
    /\ \A i \in 1..(Len(hooks) - 1) : hooks[i] # hooks[i + 1]
    /\ hooks # <<>> => (hooks[Len(hooks)] = "publish" <=> onAir)
    /\ hooks # <<>> /\ hooks[1] = "publish" => status # "live"
    /\ hooks = <<>> => /\ status = "live" => onAir
                       /\ onAir => status = "live" \/ stopped

StreamInv ==
    /\ StreamTypeOK
    /\ Len(hooks) <= 2 * publishes /\ (onAir => Len(hooks) < 2 * publishes)
    /\ status = "none" => ~onAir /\ hooks = <<>>
    /\ ~disturbed => HooksInv

LEMMA OnAirStep ==
    ASSUME StreamInv, GoOnAir \/ GoOffAir
    PROVE  StreamInv'
<1> DEFINE h == IF onAir' THEN "publish" ELSE "publish_done"
<1>1. /\ status # "none" /\ onAir' = ~onAir /\ hooks' = Append(hooks, h)
      /\ publishes' \in {publishes, publishes + 1} /\ publishes' \in 0..MaxPublishes
      /\ publishes' = (IF onAir THEN publishes ELSE publishes + 1)
      /\ UNCHANGED <<status, stopped, disturbed>>
  <2>1. onAir \in BOOLEAN /\ publishes \in 0..MaxPublishes
    BY DEF StreamInv, StreamTypeOK
  <2>2. CASE GoOnAir
    <3>1. /\ status # "none" /\ ~onAir /\ onAir' /\ hooks' = Append(hooks, h)
          /\ UNCHANGED <<status, stopped, disturbed>>
      BY <2>2 DEF GoOnAir
    <3>2. publishes' = publishes + 1 /\ publishes + 1 \in 0..MaxPublishes
      BY <2>1, <2>2, MaxPublishesIsNat DEF GoOnAir
    <3>3. onAir' = ~onAir
      BY <2>2 DEF GoOnAir
    <3> QED BY <3>1, <3>2, <3>3
  <2>3. CASE GoOffAir
    <3>1. /\ onAir /\ ~onAir' /\ hooks' = Append(hooks, h)
          /\ publishes' = publishes /\ UNCHANGED <<status, stopped, disturbed>>
      BY <2>3 DEF GoOffAir
    <3>2. status # "none"
      BY <3>1 DEF StreamInv
    <3>3. onAir' = ~onAir
      BY <2>1, <2>3 DEF GoOffAir
    <3> QED BY <2>1, <3>1, <3>2, <3>3
  <2> QED BY <2>2, <2>3
<1>2. h \in Hooks /\ (h = "publish" <=> onAir')
  BY DEF Hooks
<1> HIDE DEF h
<1>3. /\ hooks \in Seq(Hooks) /\ hooks' \in Seq(Hooks) /\ Len(hooks') = Len(hooks) + 1
      /\ hooks'[Len(hooks')] = h /\ \A i \in 1..Len(hooks) : hooks'[i] = hooks[i]
  BY <1>1, <1>2 DEF StreamInv, StreamTypeOK, Hooks
<1>4. Len(hooks') <= 2 * publishes' /\ (onAir' => Len(hooks') < 2 * publishes')
  <2>1. publishes \in Nat /\ Len(hooks) \in Nat
    BY <1>3 DEF StreamInv, StreamTypeOK
  <2>2. CASE onAir
    <3>1. ~onAir' /\ publishes' = publishes /\ Len(hooks') = Len(hooks) + 1
      BY <1>1, <1>3, <2>2
    <3>2. Len(hooks) < 2 * publishes
      BY <2>2 DEF StreamInv
    <3> QED BY <2>1, <3>1, <3>2
  <2>3. CASE ~onAir
    BY <1>1, <1>3, <2>1, <2>3 DEF StreamInv
  <2> QED BY <2>2, <2>3
<1>5. StreamTypeOK'
  BY <1>1, <1>3, <1>4, MaxPublishesIsNat DEF StreamInv, StreamTypeOK, Hooks
<1>6. ASSUME ~disturbed
      PROVE  HooksInv'
  <2>1. CASE hooks = <<>>
    <3>1. Len(hooks') = 1 /\ hooks'[1] = h
      BY <1>3, <2>1
    <3>2. onAir' => status # "live"
      BY <1>1, <1>6, <2>1 DEF StreamInv, HooksInv
    <3>3. hooks' # <<>> /\ \A i \in 1..(Len(hooks') - 1) : hooks'[i] # hooks'[i + 1]
      BY <1>3, <3>1
    <3>4. status' = status
      BY <1>1
    <3> QED BY <1>2, <3>1, <3>2, <3>3, <3>4 DEF HooksInv
  <2>2. CASE hooks # <<>>
    <3>1. Len(hooks) >= 1 /\ hooks[Len(hooks)] \in Hooks
      BY <1>3, <2>2
    <3>2. hooks[Len(hooks)] # h
      BY <1>1, <1>2, <1>6, <2>2, <3>1 DEF StreamInv, HooksInv, Hooks
    <3>3. \A i \in 1..(Len(hooks') - 1) : hooks'[i] # hooks'[i + 1]
      <4> TAKE i \in 1..(Len(hooks') - 1)
      <4>1. CASE i = Len(hooks)
        BY <1>3, <3>1, <3>2, <4>1
      <4>2. CASE i < Len(hooks)
        BY <1>3, <1>6, <4>2 DEF StreamInv, HooksInv
      <4> QED BY <1>3, <4>1, <4>2
    <3>4. hooks' # <<>> /\ hooks'[1] = hooks[1]
      BY <1>3, <3>1
    <3> QED BY <1>1, <1>2, <1>3, <1>6, <2>2, <3>3, <3>4 DEF StreamInv, HooksInv
  <2> QED BY <2>1, <2>2
<1> QED BY <1>1, <1>4, <1>5, <1>6 DEF StreamInv

\* A webhook that overtakes another, or is lost.
LEMMA DisturbedStep ==
    ASSUME StreamInv, NEW i \in DOMAIN hooks, hooks' = RemoveAt(hooks, i), disturbed' = TRUE,
           UNCHANGED <<onAir, publishes>>, status' \in {status, "live", "ended"},
           stopped' \in BOOLEAN
    PROVE  StreamInv'
<1>1. hooks \in Seq(Hooks) /\ i \in 1..Len(hooks) /\ hooks # <<>>
  BY DEF StreamInv, StreamTypeOK, Hooks
<1>2. hooks' \in Seq(Hooks) /\ Len(hooks') = Len(hooks) - 1
  BY <1>1, Removed
<1>3. StreamTypeOK'
  BY <1>1, <1>2, MaxPublishesIsNat DEF StreamInv, StreamTypeOK, Hooks
<1>4. status' # "none"
  BY <1>1 DEF StreamInv
<1>5. Len(hooks') <= 2 * publishes' /\ (onAir' => Len(hooks') < 2 * publishes')
  BY <1>1, <1>2 DEF StreamInv, StreamTypeOK
<1> QED BY <1>3, <1>4, <1>5 DEF StreamInv

LEMMA WebhookStep ==
    ASSUME StreamInv, HandleMediaMTXWebhook
    PROVE  StreamInv'
<1>1. PICK i \in DOMAIN hooks :
        /\ \/ hooks[i] = "publish" /\ Publish
           \/ hooks[i] = "publish_done" /\ PublishDone
        /\ hooks' = RemoveAt(hooks, i)
        /\ disturbed' = (disturbed \/ i # 1)
        /\ UNCHANGED <<onAir, publishes>>
  BY DEF HandleMediaMTXWebhook
<1>2. status' \in {status, "live", "ended"} /\ stopped' \in BOOLEAN
  BY <1>1 DEF StreamInv, StreamTypeOK, Publish, PublishDone
<1>3. CASE disturbed \/ i # 1
  <2>1. disturbed' = TRUE
    BY <1>1, <1>3
  <2> QED BY <1>1, <1>2, <2>1, DisturbedStep
<1>4. CASE ~disturbed /\ i = 1
  <2>1. hooks \in Seq(Hooks) /\ hooks # <<>> /\ HooksInv
    BY <1>4 DEF StreamInv, StreamTypeOK, Hooks
  <2>2. /\ hooks' \in Seq(Hooks) /\ Len(hooks') = Len(hooks) - 1
        /\ \A j \in 1..(Len(hooks) - 1) : hooks'[j] = hooks[j + 1]
    <3>1. i \in 1..Len(hooks) /\ i = 1 /\ hooks' = RemoveAt(hooks, i)
      BY <1>1, <1>4, <2>1
    <3>2. /\ hooks' \in Seq(Hooks) /\ Len(hooks') = Len(hooks) - 1
          /\ \A j \in i..(Len(hooks) - 1) : hooks'[j] = hooks[j + 1]
      BY <2>1, <3>1, Removed
    <3> QED BY <3>1, <3>2
  <2>3. StreamTypeOK'
    BY <1>1, <1>2, <1>4, <2>1, <2>2, MaxPublishesIsNat DEF StreamInv, StreamTypeOK, Hooks
  <2>4. status' # "none"
    BY <1>2, <2>1 DEF StreamInv
  <2>5. Len(hooks') <= 2 * publishes' /\ (onAir' => Len(hooks') < 2 * publishes')
    BY <1>1, <2>1, <2>2 DEF StreamInv, StreamTypeOK
  <2>6. \A j \in 1..(Len(hooks') - 1) : hooks'[j] # hooks'[j + 1]
    BY <2>1, <2>2 DEF HooksInv
  <2>7. hooks' # <<>> => /\ hooks'[Len(hooks')] = hooks[Len(hooks)]
                         /\ hooks'[1] = hooks[2] /\ hooks[2] # hooks[1] /\ hooks[2] \in Hooks
    BY <2>1, <2>2 DEF HooksInv
  <2>8. hooks' # <<>> => (hooks'[Len(hooks')] = "publish" <=> onAir')
    BY <1>1, <2>1, <2>7 DEF HooksInv
  <2>9. hooks' # <<>> /\ hooks'[1] = "publish" => status' # "live"
    BY <1>1, <1>4, <2>7 DEF Publish, PublishDone
  <2>10. hooks' = <<>> => (hooks[1] = "publish" <=> onAir)
    <3>1. hooks' = <<>> => Len(hooks) = 1
      BY <2>1, <2>2
    <3> QED BY <2>1, <3>1 DEF HooksInv
  <2>11. hooks' = <<>> => /\ status' = "live" => onAir'
                          /\ onAir' => status' = "live" \/ stopped'
    BY <1>1, <1>4, <2>10 DEF Publish, PublishDone
  <2> QED BY <2>3, <2>4, <2>5, <2>6, <2>8, <2>9, <2>11 DEF StreamInv, HooksInv
<1> QED BY <1>3, <1>4

LEMMA StreamInvariant == StreamSpec => []StreamInv
<1>1. StreamInit => StreamInv
  <2> SUFFICES ASSUME StreamInit PROVE StreamInv
    OBVIOUS
  <2>1. /\ status = "none" /\ onAir = FALSE /\ hooks = <<>> /\ publishes = 0
        /\ stopped = FALSE /\ disturbed = FALSE /\ Len(hooks) = 0
        /\ hooks \in Seq({"publish", "publish_done"})
    BY DEF StreamInit
  <2>2. StreamTypeOK
    <3>1. status \in {"none", "starting", "live", "ended"} /\ Len(hooks) <= 2 * MaxPublishes
          /\ publishes \in 0..MaxPublishes
      BY <2>1, MaxPublishesIsNat
    <3>2. onAir \in BOOLEAN /\ stopped \in BOOLEAN /\ disturbed \in BOOLEAN
      BY <2>1, Zenon
    <3> QED BY <2>1, <3>1, <3>2 DEF StreamTypeOK
  <2>3. HooksInv
    BY <2>1 DEF HooksInv
  <2> QED BY <2>1, <2>2, <2>3 DEF StreamInv
<1>2. StreamInv /\ [StreamNext]_streamVars => StreamInv'
  <2> SUFFICES ASSUME StreamInv, [StreamNext]_streamVars PROVE StreamInv'
    OBVIOUS
  <2>1. CASE StartStream
    BY <2>1 DEF StartStream, StreamInv, StreamTypeOK, HooksInv
  <2>2. CASE HandleMediaMTXWebhook
    BY <2>2, WebhookStep
  <2>3. CASE LoseWebhook
    BY <2>3, DisturbedStep DEF LoseWebhook, StreamInv, StreamTypeOK
  <2>4. CASE EndStream \/ AdminKillStream
    <3>1. /\ status # "none" /\ status' = "ended" /\ stopped' = TRUE
          /\ onAir' = onAir /\ hooks' = hooks /\ publishes' = publishes /\ disturbed' = disturbed
      BY <2>4 DEF EndStream, AdminKillStream, Ends
    <3>2. StreamTypeOK'
      BY <3>1 DEF StreamInv, StreamTypeOK
    <3>3. HooksInv => HooksInv'
      BY <3>1 DEF HooksInv
    <3> QED BY <3>1, <3>2, <3>3 DEF StreamInv
  <2>5. CASE UNCHANGED streamVars
    BY <2>5 DEF streamVars, StreamInv, StreamTypeOK, HooksInv
  <2> QED BY <2>1, <2>2, <2>3, <2>4, <2>5, OnAirStep DEF StreamNext
<1> QED BY <1>1, <1>2, PTL DEF StreamSpec

\* However often the publisher comes and goes: webhooks that all arrive in order leave a
\* live stream on air, and one on air live unless somebody ended it.
THEOREM StatusFollowsAir == StreamSpec => []LiveIsOnAir
<1>1. StreamInv => LiveIsOnAir
  BY DEF StreamInv, HooksInv, LiveIsOnAir
<1> QED BY <1>1, StreamInvariant, PTL

(***************************************************************************)
(* The pool of providers.  While a request adds its senders, nobody sends  *)
(* and nobody else adds; and as long as every change is followed by a      *)
(* read of the list, the last list read is the table.                      *)
(***************************************************************************)
NoneChanged == \A r \in Changers : changer[r].stage # "changed"

LockInv ==
    /\ \A r, q \in Changers : changer[r].stage = "adding" /\ changer[q].stage = "adding" => r = q
    /\ WriterAtWork => ~ReaderAtWork
    /\ \A s \in Senders : mail[s].stage = "sending" => mail[s].copy = pool

ReadInv ==
    /\ \A r \in Changers :
         /\ changer[r].read <= reads
         /\ changer[r].stage \notin {"adding", "done"} => changer[r].added = {}
         /\ changer[r].stage = "adding" =>
              /\ poolRead = changer[r].read
              /\ pool = [p \in Providers |-> IF p \in changer[r].added THEN changer[r].list[p] ELSE 0]
         /\ changer[r].stage \in {"listed", "waiting", "adding"} /\ changer[r].read = reads
              /\ ~unread /\ NoneChanged => changer[r].list = table
    /\ poolRead <= reads
    /\ poolRead = reads /\ ~unread /\ NoneChanged /\ ~WriterAtWork => pool = table

MailInv == MailTypeOK /\ LockInv /\ ReadInv

ChangerTypes ==
    [stage : {"new", "changed", "listed", "waiting", "adding", "done"}, list : Lists,
     read : Nat, added : SUBSET Providers]

LEMMA MailGives == MailInv => PoolWhole
<1> SUFFICES ASSUME MailInv PROVE PoolWhole
  OBVIOUS
<1>1. SendsWithWholePool
  BY DEF MailInv, LockInv, SendsWithWholePool, ReaderAtWork
<1>2. PoolSettles
  BY DEF MailInv, ReadInv, PoolSettles, NoneChanged, WriterAtWork
<1> QED BY <1>1, <1>2 DEF PoolWhole

LEMMA MailInitInv == MailInit => MailInv
<1> SUFFICES ASSUME MailInit PROVE MailInv
  OBVIOUS
<1>1. Nobody \in Lists /\ table \in Lists /\ pool \in Lists
  BY VersionsArePositive DEF MailInit, Nobody, Lists
<1>2. MailTypeOK
  <2>1. changer \in [Changers -> ChangerTypes]
    BY <1>1 DEF MailInit, NewChanger, ChangerTypes
  <2>2. mail \in [Senders -> [stage : {"new", "locked", "sending", "sent", "failed"}, copy : Lists]]
    BY <1>1 DEF MailInit
  <2>3. versions \in 0..MaxVersion /\ reads \in Nat /\ poolRead \in Nat
    BY VersionsArePositive DEF MailInit
  <2>4. unread \in BOOLEAN
    BY Zenon DEF MailInit
  <2> QED BY <1>1, <2>1, <2>2, <2>3, <2>4 DEF MailTypeOK, ChangerTypes
<1>3. /\ \A r \in Changers : changer[r].stage = "new" /\ changer[r].added = {} /\ changer[r].read = 0
      /\ \A s \in Senders : mail[s].stage = "new"
      /\ reads = 0 /\ poolRead = 0 /\ (unread \/ pool = table)
  BY DEF MailInit, NewChanger
<1>4. LockInv
  BY <1>3 DEF LockInv, WriterAtWork
<1>5. ReadInv
  BY <1>3 DEF ReadInv
<1> QED BY <1>2, <1>4, <1>5 DEF MailInv

\* Only the stage of one changer moves, neither to nor from "adding".
StageMoves(r, from, to) ==
    /\ changer[r].stage = from
    /\ changer' = [changer EXCEPT ![r].stage = to]

LEMMA MovedStage ==
    ASSUME MailTypeOK, NEW r \in Changers, NEW from,
           NEW to \in {"changed", "waiting", "done"}, StageMoves(r, from, to)
    PROVE  /\ changer' \in [Changers -> ChangerTypes]
           /\ \A q \in Changers :
                /\ changer'[q].stage = IF q = r THEN to ELSE changer[q].stage
                /\ changer'[q].list = changer[q].list /\ changer'[q].read = changer[q].read
                /\ changer'[q].added = changer[q].added
BY DEF MailTypeOK, ChangerTypes, StageMoves

LEMMA Rewritten ==
    ASSUME MailTypeOK, NEW p \in Providers, Rewrites(p)
    PROVE  table' \in Lists /\ versions' \in 0..MaxVersion
<1>1. versions + 1 \in 0..MaxVersion /\ versions' = versions + 1
  BY VersionsArePositive DEF MailTypeOK, Rewrites
<1>2. PICK v \in {0, versions + 1} : table' = [table EXCEPT ![p] = v]
  BY DEF Rewrites
<1>3. v \in 0..MaxVersion
  BY <1>1, <1>2, VersionsArePositive
<1> QED BY <1>1, <1>2, <1>3 DEF MailTypeOK, Lists

LEMMA ChangeProviderStep ==
    ASSUME MailInv, NEW r \in Changers, NEW p \in Providers, ChangeProvider(r, p)
    PROVE  MailInv'
<1>1. StageMoves(r, "new", "changed") /\ Rewrites(p) /\ UNCHANGED <<pool, reads, poolRead, unread, mail>>
  BY DEF ChangeProvider, StageMoves
<1>2. /\ changer' \in [Changers -> ChangerTypes]
      /\ \A q \in Changers :
           /\ changer'[q].stage = IF q = r THEN "changed" ELSE changer[q].stage
           /\ changer'[q].list = changer[q].list /\ changer'[q].read = changer[q].read
           /\ changer'[q].added = changer[q].added
  BY <1>1, MovedStage DEF MailInv
<1>3. MailTypeOK'
  BY <1>1, <1>2, Rewritten DEF MailInv, MailTypeOK, ChangerTypes
<1>4. changer[r].stage = "new" /\ ~NoneChanged'
  BY <1>1, <1>2 DEF StageMoves, NoneChanged
<1>5. (WriterAtWork' <=> WriterAtWork) /\ (ReaderAtWork' <=> ReaderAtWork)
  BY <1>1, <1>2, <1>4 DEF WriterAtWork, ReaderAtWork
<1>6. LockInv'
  BY <1>1, <1>2, <1>4, <1>5 DEF MailInv, LockInv
<1>7. ReadInv'
  BY <1>1, <1>2, <1>4, <1>5 DEF MailInv, ReadInv
<1> QED BY <1>3, <1>6, <1>7 DEF MailInv

LEMMA TestProviderStep ==
    ASSUME MailInv, NEW p \in Providers, TestProvider(p)
    PROVE  MailInv'
<1>1. Rewrites(p) /\ unread' = TRUE /\ UNCHANGED <<changer, pool, reads, poolRead, mail>>
  BY DEF TestProvider
<1>2. MailTypeOK'
  BY <1>1, Rewritten DEF MailInv, MailTypeOK
<1>3. LockInv'
  BY <1>1 DEF MailInv, LockInv, WriterAtWork, ReaderAtWork
<1>4. ReadInv'
  BY <1>1 DEF MailInv, ReadInv
<1> QED BY <1>2, <1>3, <1>4 DEF MailInv

LEMMA ListActiveProvidersStep ==
    ASSUME MailInv, NEW r \in Changers, ListActiveProviders(r)
    PROVE  MailInv'
<1> DEFINE k == [stage |-> "listed", list |-> table, read |-> reads + 1, added |-> {}]
<1>1. /\ changer[r].stage = "changed" /\ reads' = reads + 1 /\ unread' = FALSE
      /\ UNCHANGED <<table, versions, pool, poolRead, mail>>
  BY DEF ListActiveProviders
<1>2. changer' = [changer EXCEPT ![r] = k]
  BY DEF ListActiveProviders
<1>3. /\ changer \in [Changers -> ChangerTypes] /\ changer[r] \in ChangerTypes
      /\ reads \in Nat /\ poolRead \in Nat /\ table \in Lists
  BY DEF MailInv, MailTypeOK, ChangerTypes
<1>4. /\ k \in ChangerTypes /\ k.stage = "listed" /\ k.list = table /\ k.read = reads + 1
      /\ k.added = {}
  BY <1>3 DEF ChangerTypes
<1> HIDE DEF k
<1>5. /\ changer' \in [Changers -> ChangerTypes] /\ changer'[r] = k
      /\ \A q \in Changers : q # r => changer'[q] = changer[q]
  BY <1>2, <1>3, <1>4
<1>6. MailTypeOK'
  <2>1. reads + 1 \in Nat /\ reads' = reads + 1 /\ unread' = FALSE
    BY <1>1, <1>3
  <2>2. /\ table' = table /\ versions' = versions /\ pool' = pool
        /\ poolRead' = poolRead /\ mail' = mail
    BY <1>1
  <2> QED BY <1>5, <2>1, <2>2 DEF MailInv, MailTypeOK, ChangerTypes
<1>7. (WriterAtWork' <=> WriterAtWork) /\ (ReaderAtWork' <=> ReaderAtWork)
  BY <1>1, <1>4, <1>5 DEF WriterAtWork, ReaderAtWork
<1>8. LockInv'
  BY <1>1, <1>4, <1>5, <1>7 DEF MailInv, LockInv
<1>9. ReadInv'
  <2>1. poolRead' # reads' /\ poolRead' <= reads'
    BY <1>1, <1>3 DEF MailInv, ReadInv
  <2>2. \A q \in Changers : q # r => changer[q].read # reads' /\ changer[q].read <= reads'
    BY <1>1, <1>3 DEF MailInv, ReadInv, ChangerTypes
  <2>3. changer'[r].added = {} /\ changer'[r].read <= reads' /\ changer'[r].list = table'
    BY <1>1, <1>3, <1>4, <1>5 DEF MailInv, ReadInv
  <2>4. ASSUME NEW q \in Changers
        PROVE  /\ changer'[q].read <= reads'
               /\ changer'[q].stage \notin {"adding", "done"} => changer'[q].added = {}
               /\ changer'[q].stage = "adding" =>
                    /\ poolRead' = changer'[q].read
                    /\ pool' = [p \in Providers |-> IF p \in changer'[q].added
                                                      THEN changer'[q].list[p] ELSE 0]
               /\ changer'[q].stage \in {"listed", "waiting", "adding"} /\ changer'[q].read = reads'
                    /\ ~unread' /\ NoneChanged' => changer'[q].list = table'
    <3>1. CASE q = r
      BY <1>4, <1>5, <2>3, <3>1
    <3>2. CASE q # r
      BY <1>1, <1>5, <2>2, <3>2 DEF MailInv, ReadInv
    <3> QED BY <3>1, <3>2
  <2> QED BY <2>1, <2>4 DEF ReadInv
<1> QED BY <1>6, <1>8, <1>9 DEF MailInv

LEMMA ListFailsStep ==
    ASSUME MailInv, NEW r \in Changers, ListFails(r)
    PROVE  MailInv'
<1>1. /\ StageMoves(r, "changed", "done") /\ unread' = TRUE
      /\ UNCHANGED <<table, versions, pool, reads, poolRead, mail>>
  BY DEF ListFails, StageMoves
<1>2. /\ changer' \in [Changers -> ChangerTypes]
      /\ \A q \in Changers :
           /\ changer'[q].stage = IF q = r THEN "done" ELSE changer[q].stage
           /\ changer'[q].list = changer[q].list /\ changer'[q].read = changer[q].read
           /\ changer'[q].added = changer[q].added
  BY <1>1, MovedStage DEF MailInv
<1>3. MailTypeOK'
  BY <1>1, <1>2 DEF MailInv, MailTypeOK, ChangerTypes
<1>4. changer[r].stage = "changed"
  BY <1>1 DEF StageMoves
<1>5. (WriterAtWork' <=> WriterAtWork) /\ (ReaderAtWork' <=> ReaderAtWork)
  BY <1>1, <1>2, <1>4 DEF WriterAtWork, ReaderAtWork
<1>6. LockInv'
  BY <1>1, <1>2, <1>4, <1>5 DEF MailInv, LockInv
<1>7. ReadInv'
  BY <1>1, <1>2, <1>4, <1>5 DEF MailInv, ReadInv
<1> QED BY <1>3, <1>6, <1>7 DEF MailInv

LEMMA AskLockStep ==
    ASSUME MailInv, NEW r \in Changers, AskLock(r)
    PROVE  MailInv'
<1>1. /\ StageMoves(r, "listed", "waiting")
      /\ UNCHANGED <<table, versions, pool, reads, poolRead, unread, mail>>
  BY DEF AskLock, StageMoves
<1>2. /\ changer' \in [Changers -> ChangerTypes]
      /\ \A q \in Changers :
           /\ changer'[q].stage = IF q = r THEN "waiting" ELSE changer[q].stage
           /\ changer'[q].list = changer[q].list /\ changer'[q].read = changer[q].read
           /\ changer'[q].added = changer[q].added
  BY <1>1, MovedStage DEF MailInv
<1>3. MailTypeOK'
  BY <1>1, <1>2 DEF MailInv, MailTypeOK, ChangerTypes
<1>4. changer[r].stage = "listed" /\ (NoneChanged' <=> NoneChanged)
  BY <1>1, <1>2 DEF StageMoves, NoneChanged
<1>5. (WriterAtWork' <=> WriterAtWork) /\ (ReaderAtWork' <=> ReaderAtWork)
  BY <1>1, <1>2, <1>4 DEF WriterAtWork, ReaderAtWork
<1>6. LockInv'
  BY <1>1, <1>2, <1>4, <1>5 DEF MailInv, LockInv
<1>7. ReadInv'
  BY <1>1, <1>2, <1>4, <1>5 DEF MailInv, ReadInv
<1> QED BY <1>3, <1>6, <1>7 DEF MailInv

LEMMA RemoveSendersStep ==
    ASSUME MailInv, NEW r \in Changers, RemoveSenders(r)
    PROVE  MailInv'
<1>1. /\ changer[r].stage = "waiting" /\ ~WriterAtWork /\ ~ReaderAtWork
      /\ pool' = Nobody /\ poolRead' = changer[r].read
      /\ changer' = [changer EXCEPT ![r].stage = "adding"]
      /\ UNCHANGED <<table, versions, reads, unread, mail>>
  BY DEF RemoveSenders
<1>2. /\ changer' \in [Changers -> ChangerTypes]
      /\ \A q \in Changers :
           /\ changer'[q].stage = IF q = r THEN "adding" ELSE changer[q].stage
           /\ changer'[q].list = changer[q].list /\ changer'[q].read = changer[q].read
           /\ changer'[q].added = changer[q].added
  BY <1>1 DEF MailInv, MailTypeOK, ChangerTypes
<1>3. Nobody \in Lists /\ changer[r].read \in Nat
  BY VersionsArePositive DEF Nobody, Lists, MailInv, MailTypeOK
<1>4. MailTypeOK'
  BY <1>1, <1>2, <1>3 DEF MailInv, MailTypeOK, ChangerTypes
<1>5. WriterAtWork' /\ ~ReaderAtWork' /\ (NoneChanged' <=> NoneChanged)
      /\ \A q \in Changers : q # r => changer'[q].stage # "adding"
  BY <1>1, <1>2 DEF WriterAtWork, ReaderAtWork, NoneChanged
<1>6. LockInv'
  BY <1>1, <1>2, <1>5 DEF LockInv, ReaderAtWork
<1>7. changer'[r].added = {} /\ pool' = [p \in Providers |-> 0]
  BY <1>1, <1>2 DEF MailInv, ReadInv, Nobody
<1>8. ReadInv'
  BY <1>1, <1>2, <1>5, <1>7 DEF MailInv, ReadInv
<1> QED BY <1>4, <1>6, <1>8 DEF MailInv

LEMMA AddSenderStep ==
    ASSUME MailInv, NEW r \in Changers, NEW p \in Providers, AddSender(r, p)
    PROVE  MailInv'
<1>1. /\ changer[r].stage = "adding"
      /\ pool' = [pool EXCEPT ![p] = changer[r].list[p]]
      /\ changer' = [changer EXCEPT ![r].added = @ \cup {p}]
      /\ UNCHANGED <<table, versions, reads, poolRead, unread, mail>>
  BY DEF AddSender
<1>2. /\ changer' \in [Changers -> ChangerTypes]
      /\ \A q \in Changers :
           /\ changer'[q].stage = changer[q].stage
           /\ changer'[q].list = changer[q].list /\ changer'[q].read = changer[q].read
           /\ changer'[q].added = IF q = r THEN changer[r].added \cup {p} ELSE changer[q].added
  BY <1>1 DEF MailInv, MailTypeOK, ChangerTypes
<1>3. pool' \in Lists
  BY <1>1 DEF MailInv, MailTypeOK, Lists
<1>4. MailTypeOK'
  BY <1>1, <1>2, <1>3 DEF MailInv, MailTypeOK, ChangerTypes
<1>5. WriterAtWork /\ WriterAtWork' /\ ~ReaderAtWork' /\ (NoneChanged' <=> NoneChanged)
      /\ \A q \in Changers : q # r => changer'[q].stage # "adding"
  BY <1>1, <1>2 DEF WriterAtWork, ReaderAtWork, NoneChanged, MailInv, LockInv
<1>6. LockInv'
  BY <1>1, <1>2, <1>5 DEF LockInv, ReaderAtWork
<1>7. pool' = [x \in Providers |-> IF x \in changer'[r].added THEN changer'[r].list[x] ELSE 0]
  <2>1. pool = [x \in Providers |-> IF x \in changer[r].added THEN changer[r].list[x] ELSE 0]
    BY <1>1 DEF MailInv, ReadInv
  <2>2. changer'[r].list = changer[r].list /\ changer'[r].added = changer[r].added \cup {p}
    BY <1>2
  <2>3. \A x \in Providers : pool'[x] = IF x \in changer'[r].added THEN changer'[r].list[x] ELSE 0
    BY <1>1, <2>1, <2>2
  <2> QED BY <1>3, <2>3 DEF Lists
<1>8. ReadInv'
  <2>1. ASSUME NEW q \in Changers
        PROVE  /\ changer'[q].read <= reads'
               /\ changer'[q].stage \notin {"adding", "done"} => changer'[q].added = {}
               /\ changer'[q].stage \in {"listed", "waiting", "adding"} /\ changer'[q].read = reads'
                    /\ ~unread' /\ NoneChanged' => changer'[q].list = table'
    BY <1>1, <1>2, <1>5 DEF MailInv, ReadInv
  <2>2. changer'[r].read = poolRead'
    BY <1>1, <1>2 DEF MailInv, ReadInv
  <2>3. poolRead' <= reads'
    BY <1>1 DEF MailInv, ReadInv
  <2> QED BY <1>5, <1>7, <2>1, <2>2, <2>3 DEF ReadInv
<1> QED BY <1>4, <1>6, <1>8 DEF MailInv

LEMMA UnlockStep ==
    ASSUME MailInv, NEW r \in Changers, Unlock(r)
    PROVE  MailInv'
<1>1. /\ StageMoves(r, "adding", "done")
      /\ UNCHANGED <<table, versions, pool, reads, poolRead, unread, mail>>
  BY DEF Unlock, StageMoves
<1>2. /\ changer' \in [Changers -> ChangerTypes]
      /\ \A q \in Changers :
           /\ changer'[q].stage = IF q = r THEN "done" ELSE changer[q].stage
           /\ changer'[q].list = changer[q].list /\ changer'[q].read = changer[q].read
           /\ changer'[q].added = changer[q].added
  BY <1>1, MovedStage DEF MailInv
<1>3. MailTypeOK'
  BY <1>1, <1>2 DEF MailInv, MailTypeOK, ChangerTypes
<1>4. changer[r].stage = "adding" /\ (NoneChanged' <=> NoneChanged)
  BY <1>1, <1>2 DEF StageMoves, NoneChanged
<1>5. ~WriterAtWork'
  BY <1>2, <1>4 DEF WriterAtWork, MailInv, LockInv
<1>6. LockInv'
  BY <1>1, <1>2, <1>5 DEF MailInv, LockInv
<1>7. changer[r].list = pool
  <2>1. changer[r].list \in Lists /\ \A p \in Providers : changer[r].list[p] # 0 => p \in changer[r].added
    BY DEF MailInv, MailTypeOK, Unlock
  <2>2. pool = [p \in Providers |-> IF p \in changer[r].added THEN changer[r].list[p] ELSE 0]
    BY <1>4 DEF MailInv, ReadInv
  <2>3. \A p \in Providers : pool[p] = changer[r].list[p]
    BY <2>1, <2>2
  <2> QED BY <2>1, <2>2, <2>3 DEF Lists
<1>8. poolRead = reads /\ ~unread /\ NoneChanged => pool = table
  BY <1>4, <1>7 DEF MailInv, ReadInv
<1>9. ReadInv'
  BY <1>1, <1>2, <1>4, <1>8 DEF MailInv, ReadInv
<1> QED BY <1>3, <1>6, <1>9 DEF MailInv

\* The requests that send touch nothing but themselves.
LEMMA SendStep ==
    ASSUME MailInv, NEW s \in Senders, SendEmail(s) \/ SendPrimary(s) \/ SendEnds(s)
    PROVE  MailInv'
<1>1. UNCHANGED <<table, versions, changer, pool, reads, poolRead, unread>>
  BY DEF SendEmail, SendPrimary, SendEnds
<1>2. pool \in Lists
  BY DEF MailInv, MailTypeOK
<1>3. mail' \in [Senders -> [stage : {"new", "locked", "sending", "sent", "failed"}, copy : Lists]]
  BY <1>2 DEF MailInv, MailTypeOK, SendEmail, SendPrimary, SendEnds
<1>4. MailTypeOK'
  BY <1>1, <1>3 DEF MailInv, MailTypeOK
<1>5. ReadInv'
  BY <1>1 DEF MailInv, ReadInv, NoneChanged, WriterAtWork
<1>6. WriterAtWork' <=> WriterAtWork
  BY <1>1 DEF WriterAtWork
<1>7. \A q \in Senders : mail'[q].stage = "sending" => mail'[q].copy = pool'
  BY <1>1 DEF MailInv, MailTypeOK, LockInv, SendEmail, SendPrimary, SendEnds
<1>8. WriterAtWork' => ~ReaderAtWork'
  <2>1. CASE SendEmail(s)
    BY <1>6, <2>1 DEF SendEmail
  <2>2. CASE SendPrimary(s) \/ SendEnds(s)
    <3>1. ReaderAtWork
      BY <2>2 DEF SendPrimary, SendEnds, ReaderAtWork
    <3> QED BY <1>6, <3>1 DEF MailInv, LockInv
  <2> QED BY <2>1, <2>2
<1>9. LockInv'
  BY <1>1, <1>7, <1>8 DEF MailInv, LockInv
<1> QED BY <1>4, <1>5, <1>9 DEF MailInv

LEMMA MailInvariant == MailSpec => []MailInv
<1>1. MailInv /\ [MailNext]_mailVars => MailInv'
  <2> SUFFICES ASSUME MailInv, [MailNext]_mailVars PROVE MailInv'
    OBVIOUS
  <2>1. CASE MailNext
    BY <2>1, ChangeProviderStep, TestProviderStep, ListActiveProvidersStep, ListFailsStep,
       AskLockStep, RemoveSendersStep, AddSenderStep, UnlockStep, SendStep
    DEF MailNext
  <2>2. CASE UNCHANGED mailVars
    BY <2>2 DEF mailVars, MailInv, MailTypeOK, LockInv, ReadInv, NoneChanged, WriterAtWork,
                ReaderAtWork
  <2> QED BY <2>1, <2>2
<1> QED BY <1>1, MailInitInv, PTL DEF MailSpec

\* However many requests change the providers, and in whatever order they read the list and
\* install it: nothing is sent with a half-built pool, and the pool settles on the table.
THEOREM PoolIsWhole == MailSpec => []PoolWhole
BY MailInvariant, MailGives, PTL

(***************************************************************************)
(* The rate limiter.  A stamp that was added stays in the sorted set as    *)
(* long as the window has not passed since, because no script purges by a  *)
(* stamp of the future and the key is kept alive; so a script that runs    *)
(* soon enough after its stamp counts all of its stretch.                  *)
(***************************************************************************)
Within(u, late) == \E a \in admitted : a.stamp = u /\ a.ran <= u + late
InStretch(t, late) == {u \in 0..t : u + Window > t + late /\ Within(u, late)}

AdmittedInv ==
    \A a \in admitted :
        /\ a.stamp \in 0..MaxClock /\ a.ran \in 0..MaxClock
        /\ a.stamp <= a.ran /\ a.ran <= clock
        /\ a.stamp + Window > clock => a.stamp \in zset /\ a.stamp + Window <= expiry

StretchInv == \A late \in 0..Window, t \in 0..MaxClock : Cardinality(InStretch(t, late)) <= Rate

RateInv ==
    /\ RateTypeOK
    /\ \A r \in Requests : request[r].stamp <= clock
    /\ AdmittedInv
    /\ StretchInv

RequestTypes ==
    [stage : {"new", "stamped", "allowed", "refused", "unchecked"}, stamp : 0..MaxClock]

LEMMA RequestAnswered ==
    ASSUME request \in [Requests -> RequestTypes], NEW r \in Requests,
           NEW stages \in SUBSET {"allowed", "refused", "unchecked"}, Answer(r, stages)
    PROVE  /\ request' \in [Requests -> RequestTypes]
           /\ \A q \in Requests : q # r => request'[q] = request[q]
           /\ request'[r].stage \in stages /\ request'[r].stamp = 0
<1>1. PICK stage \in stages : request' = [request EXCEPT ![r] = [stage |-> stage, stamp |-> 0]]
  BY DEF Answer
<1>2. [stage |-> stage, stamp |-> 0] \in RequestTypes
  BY RateIsNat DEF RequestTypes
<1> QED BY <1>1, <1>2

\* An answer leaves the requests in order.
LEMMA AnswerKeeps ==
    ASSUME RateInv, NEW r \in Requests,
           NEW stages \in SUBSET {"allowed", "refused", "unchecked"}, Answer(r, stages)
    PROVE  /\ request' \in [Requests -> RequestTypes]
           /\ \A q \in Requests : request'[q].stamp <= clock
<1>1. request \in [Requests -> RequestTypes] /\ clock \in 0..MaxClock
  BY DEF RateInv, RateTypeOK, RequestTypes
<1>2. /\ request' \in [Requests -> RequestTypes]
      /\ \A q \in Requests : q # r => request'[q] = request[q]
      /\ request'[r].stamp = 0
  BY <1>1, RequestAnswered
<1> QED BY <1>1, <1>2 DEF RateInv

\* Steps that add nothing to the set.
LEMMA NoneAdmitted ==
    ASSUME StretchInv, admitted' = admitted
    PROVE  StretchInv'
<1>1. \A u, late : Within(u, late)' <=> Within(u, late)
  BY DEF Within
<1>2. \A late \in 0..Window, t \in 0..MaxClock : InStretch(t, late)' = InStretch(t, late)
  BY <1>1 DEF InStretch
<1> QED BY <1>2 DEF StretchInv

LEMMA KeptIsFinite ==
    ASSUME RateTypeOK, NEW r \in Requests
    PROVE  IsFiniteSet(Kept(r)) /\ Cardinality(Kept(r)) \in Nat
<1>1. IsFiniteSet(0..MaxClock)
  BY RateIsNat, FS_Interval
<1>2. Kept(r) \subseteq 0..MaxClock
  BY DEF RateTypeOK, Kept
<1>3. IsFiniteSet(Kept(r))
  BY <1>1, <1>2, FS_Subset
<1> QED BY <1>3, FS_CardinalityType

LEMMA TickStep ==
    ASSUME RateInv, Tick
    PROVE  RateInv'
<1> USE WindowIsPositive, RateIsNat
<1>1. /\ clock \in 0..MaxClock /\ clock' = clock + 1 /\ clock' \in 0..MaxClock
      /\ request' = request /\ expiry' = expiry /\ admitted' = admitted
  BY DEF RateInv, RateTypeOK, Tick
<1>2. zset' \in {{}, zset} /\ (expiry <= clock' \/ zset' = zset)
  BY DEF Tick
<1>3. RateTypeOK'
  BY <1>1, <1>2 DEF RateInv, RateTypeOK
<1>4. \A r \in Requests : request'[r].stamp <= clock'
  BY <1>1 DEF RateInv, RateTypeOK
<1>5. AdmittedInv'
  <2> SUFFICES ASSUME NEW a \in admitted
               PROVE  /\ a.stamp \in 0..MaxClock /\ a.ran \in 0..MaxClock
                      /\ a.stamp <= a.ran /\ a.ran <= clock'
                      /\ a.stamp + Window > clock' => a.stamp \in zset' /\ a.stamp + Window <= expiry'
    BY <1>1 DEF AdmittedInv
  <2>1. /\ a.stamp \in 0..MaxClock /\ a.ran \in 0..MaxClock
        /\ a.stamp <= a.ran /\ a.ran <= clock
        /\ a.stamp + Window > clock => a.stamp \in zset /\ a.stamp + Window <= expiry
    BY DEF RateInv, AdmittedInv
  <2>2. expiry \in Nat
    BY DEF RateInv, RateTypeOK
  <2> QED BY <1>1, <1>2, <2>1, <2>2
<1>6. StretchInv'
  BY <1>1, NoneAdmitted DEF RateInv
<1> QED BY <1>3, <1>4, <1>5, <1>6 DEF RateInv

LEMMA ReadClockStep ==
    ASSUME RateInv, NEW r \in Requests, ReadClock(r)
    PROVE  RateInv'
<1>1. /\ UNCHANGED <<clock, zset, expiry, admitted>>
      /\ request' = [request EXCEPT ![r].stage = "stamped", ![r].stamp = clock]
  BY DEF ReadClock
<1>2. RateTypeOK'
  BY <1>1 DEF RateInv, RateTypeOK
<1>3. \A q \in Requests : request'[q].stamp <= clock'
  BY <1>1, RateIsNat DEF RateInv, RateTypeOK
<1>4. AdmittedInv'
  BY <1>1 DEF RateInv, AdmittedInv
<1>5. StretchInv'
  BY <1>1, NoneAdmitted DEF RateInv
<1> QED BY <1>2, <1>3, <1>4, <1>5 DEF RateInv

LEMMA ScriptFailsStep ==
    ASSUME RateInv, NEW r \in Requests, ScriptFails(r)
    PROVE  RateInv'
<1>1. Answer(r, {"unchecked"}) /\ UNCHANGED <<clock, zset, expiry, admitted>>
  BY DEF ScriptFails
<1>2. RateTypeOK' /\ \A q \in Requests : request'[q].stamp <= clock'
  BY <1>1, AnswerKeeps DEF RateInv, RateTypeOK, RequestTypes
<1>3. AdmittedInv'
  BY <1>1 DEF RateInv, AdmittedInv
<1>4. StretchInv'
  BY <1>1, NoneAdmitted DEF RateInv
<1> QED BY <1>2, <1>3, <1>4 DEF RateInv

LEMMA RefuseStep ==
    ASSUME RateInv, NEW r \in Requests, Refuse(r, Kept(r)), clock' = clock
    PROVE  RateInv'
<1>1. /\ zset' = Kept(r) /\ expiry' = expiry /\ admitted' = admitted
      /\ Answer(r, {"refused", "unchecked"})
  BY DEF Refuse
<1>2. /\ Kept(r) \subseteq zset /\ request[r].stamp \in 0..MaxClock /\ request[r].stamp <= clock
      /\ clock \in 0..MaxClock /\ zset \subseteq 0..MaxClock
  BY DEF RateInv, RateTypeOK, Kept
<1>3. RateTypeOK' /\ \A q \in Requests : request'[q].stamp <= clock'
  BY <1>1, <1>2, AnswerKeeps DEF RateInv, RateTypeOK, RequestTypes
<1>4. \A u \in zset : u + Window > clock => u \in Kept(r)
  BY <1>2, WindowIsPositive DEF Kept
<1>5. AdmittedInv'
  BY <1>1, <1>4 DEF RateInv, AdmittedInv
<1>6. StretchInv'
  BY <1>1, NoneAdmitted DEF RateInv
<1> QED BY <1>3, <1>5, <1>6 DEF RateInv

LEMMA AdmitStep ==
    ASSUME RateInv, NEW r \in Requests, Cardinality(Kept(r)) < Rate, Admit(r, Kept(r)), clock' = clock
    PROVE  RateInv'
<1> USE WindowIsPositive, RateIsNat
<1> DEFINE now  == request[r].stamp
           kept == Kept(r)
           new  == [stamp |-> now, ran |-> clock]
<1>1. /\ zset' = kept \cup {now} /\ expiry' = clock + Window
      /\ admitted' = admitted \cup {new}
      /\ Answer(r, {"allowed", "unchecked"})
  BY DEF Admit
<1>2. /\ now \in 0..MaxClock /\ now <= clock /\ clock \in 0..MaxClock
      /\ kept \subseteq zset /\ zset \subseteq 0..MaxClock
      /\ expiry \in 0..(MaxClock + Window)
      /\ admitted \subseteq [stamp : 0..MaxClock, ran : 0..MaxClock]
  BY DEF RateInv, RateTypeOK, Kept
<1>3. \A u \in zset : u + Window > clock => u \in kept
  BY <1>2 DEF Kept
<1>4. new.stamp = now /\ new.ran = clock
      /\ new \in [stamp : 0..MaxClock, ran : 0..MaxClock]
  BY <1>2
<1>5. /\ request' \in [Requests -> RequestTypes]
      /\ \A q \in Requests : request'[q].stamp <= clock'
  BY <1>1, AnswerKeeps
<1> HIDE DEF now, kept, new
<1>6. RateTypeOK'
  <2>1. zset' \subseteq 0..MaxClock /\ expiry' \in 0..(MaxClock + Window)
    BY <1>1, <1>2
  <2>2. admitted' \subseteq [stamp : 0..MaxClock, ran : 0..MaxClock]
    BY <1>1, <1>2, <1>4
  <2> QED BY <1>2, <1>5, <2>1, <2>2 DEF RateTypeOK, RequestTypes
<1>7. AdmittedInv'
  <2> SUFFICES ASSUME NEW a \in admitted'
               PROVE  /\ a.stamp \in 0..MaxClock /\ a.ran \in 0..MaxClock
                      /\ a.stamp <= a.ran /\ a.ran <= clock
                      /\ a.stamp + Window > clock => a.stamp \in zset' /\ a.stamp + Window <= expiry'
    BY DEF AdmittedInv
  <2>1. CASE a = new
    BY <1>1, <1>2, <1>4, <2>1
  <2>2. CASE a \in admitted
    <3>1. /\ a.stamp \in 0..MaxClock /\ a.ran \in 0..MaxClock
          /\ a.stamp <= a.ran /\ a.ran <= clock
          /\ a.stamp + Window > clock => a.stamp \in zset
      BY <2>2 DEF RateInv, AdmittedInv
    <3> QED BY <1>1, <1>2, <1>3, <3>1
  <2> QED BY <1>1, <2>1, <2>2
<1>8. ASSUME NEW late \in 0..Window, NEW t \in 0..MaxClock
      PROVE  Cardinality(InStretch(t, late)') <= Rate
  <2>1. ASSUME NEW u, Within(u, late)'
        PROVE  Within(u, late) \/ (u = now /\ clock <= now + late)
    BY <1>1, <1>4, <2>1 DEF Within
  <2>2. ASSUME NEW u, Within(u, late) PROVE Within(u, late)'
    BY <1>1, <2>2 DEF Within
  <2>3. CASE now <= t /\ now + Window > t + late /\ clock <= now + late
    <3>1. ASSUME NEW u \in InStretch(t, late)'
          PROVE  u \in kept \cup {now}
      <4>1. u \in 0..t /\ u + Window > t + late /\ Within(u, late)'
        BY <3>1 DEF InStretch
      <4>2. CASE Within(u, late)
        <5>1. PICK a \in admitted : a.stamp = u
          BY <4>2 DEF Within
        <5>2. u + Window > clock
          BY <1>2, <2>3, <4>1
        <5>3. u \in zset
          BY <5>1, <5>2 DEF RateInv, AdmittedInv
        <5> QED BY <1>3, <5>2, <5>3
      <4> QED BY <2>1, <4>1, <4>2
    <3>2. IsFiniteSet(kept) /\ Cardinality(kept) \in Nat
      BY KeptIsFinite DEF RateInv, kept
    <3>3. /\ IsFiniteSet(kept \cup {now})
          /\ Cardinality(kept \cup {now}) = IF now \in kept THEN Cardinality(kept)
                                            ELSE Cardinality(kept) + 1
      BY <3>2, FS_AddElement, Zenon
    <3>4. InStretch(t, late)' \subseteq kept \cup {now}
      BY <3>1
    <3>5. IsFiniteSet(InStretch(t, late)') /\ Cardinality(InStretch(t, late)') <= Cardinality(kept \cup {now})
      BY <3>3, <3>4, FS_Subset
    <3>6. Cardinality(InStretch(t, late)') \in Nat /\ Cardinality(kept) < Rate
      BY <3>5, FS_CardinalityType DEF kept
    <3> QED BY <3>2, <3>3, <3>5, <3>6
  <2>4. CASE ~(now <= t /\ now + Window > t + late /\ clock <= now + late)
    <3>1. \A u \in 0..t : u + Window > t + late => (Within(u, late)' <=> Within(u, late))
      BY <1>2, <2>1, <2>2, <2>4
    <3>2. InStretch(t, late)' = InStretch(t, late)
      BY <3>1 DEF InStretch
    <3> QED BY <3>2 DEF RateInv, StretchInv
  <2> QED BY <2>3, <2>4
<1>9. StretchInv'
  BY <1>8 DEF StretchInv
<1> QED BY <1>5, <1>6, <1>7, <1>9 DEF RateInv

LEMMA RateInvariant == RateSpec => []RateInv
<1>1. RateInit => RateInv
  <2> SUFFICES ASSUME RateInit PROVE RateInv
    OBVIOUS
  <2>1. RateTypeOK /\ (\A r \in Requests : request[r].stamp <= clock) /\ AdmittedInv
    BY WindowIsPositive, RateIsNat DEF RateInit, RateTypeOK, AdmittedInv
  <2>2. StretchInv
    <3>1. \A t \in 0..MaxClock, late \in 0..Window : InStretch(t, late) = {}
      BY DEF RateInit, InStretch, Within
    <3> QED BY <3>1, FS_EmptySet, RateIsNat DEF StretchInv
  <2> QED BY <2>1, <2>2 DEF RateInv
<1>2. RateInv /\ [RateNext]_rateVars => RateInv'
  <2> SUFFICES ASSUME RateInv, [RateNext]_rateVars PROVE RateInv'
    OBVIOUS
  <2>1. CASE Tick
    BY <2>1, TickStep
  <2>2. CASE \E r \in Requests : ReadClock(r) \/ ScriptFails(r)
    BY <2>2, ReadClockStep, ScriptFailsStep
  <2>3. ASSUME NEW r \in Requests, Script(r) PROVE RateInv'
    BY <2>3, AdmitStep, RefuseStep DEF Script
  <2>4. CASE UNCHANGED rateVars
    BY <2>4, NoneAdmitted DEF rateVars, RateInv, RateTypeOK, AdmittedInv
  <2> QED BY <2>1, <2>2, <2>3, <2>4 DEF RateNext
<1> QED BY <1>1, <1>2, PTL DEF RateSpec

\* Whatever the rate, the window, the number of requests and the time their scripts take:
\* of those added to the set at most so much after their stamp, no stretch of the window
\* less that time holds more than the rate.
THEOREM RateHolds == RateSpec => []WindowBounded
<1>1. RateInv => WindowBounded
  BY DEF RateInv, StretchInv, InStretch, Within, WindowBounded
<1> QED BY <1>1, RateInvariant, PTL

(***************************************************************************)
(* The other side of the limit: what the sorted set holds are stamps of    *)
(* requests let through, so that a refusal has a cause.                    *)
(***************************************************************************)
LetThrough(u) == \E a \in admitted : a.stamp = u
CauseInv == RateTypeOK /\ \A u \in zset : LetThrough(u)

\* A request is refused only if, at Rate ticks of its window or after it, others had been
\* let through.
RefusedForCause ==
    [][\A r \in Requests : request[r].stage # "refused" /\ request'[r].stage = "refused" =>
          Cardinality({u \in 0..MaxClock : u + Window > request[r].stamp /\ LetThrough(u)})
              >= Rate]_rateVars

LEMMA CauseStep ==
    ASSUME CauseInv, RateTypeOK', [RateNext]_rateVars
    PROVE  CauseInv'
<1> SUFFICES ASSUME NEW u \in zset' PROVE LetThrough(u)'
  BY DEF CauseInv
<1>1. admitted \subseteq admitted'
  BY DEF RateNext, rateVars, Tick, ReadClock, Script, Admit, Refuse, ScriptFails
<1>2. CASE u \in zset
  BY <1>1, <1>2 DEF CauseInv, LetThrough
<1>3. ASSUME NEW r \in Requests, Script(r), u \notin zset
      PROVE  LetThrough(u)'
  <2>1. Admit(r, Kept(r)) /\ u = request[r].stamp
    BY <1>3 DEF Script, Admit, Refuse, Kept
  <2>2. [stamp |-> u, ran |-> clock] \in admitted'
    BY <2>1 DEF Admit
  <2> QED BY <2>2 DEF LetThrough
<1>4. (\E r \in Requests : Script(r)) \/ zset' \subseteq zset
  BY DEF RateNext, rateVars, Tick, ReadClock, ScriptFails
<1> QED BY <1>2, <1>3, <1>4

\* Only the script refuses.
LEMMA RefusedByScript ==
    ASSUME request \in [Requests -> RequestTypes], [RateNext]_rateVars, NEW r \in Requests,
           request[r].stage # "refused", request'[r].stage = "refused"
    PROVE  Script(r) /\ ~(Cardinality(Kept(r)) < Rate)
<1>1. request' # request
  OBVIOUS
<1>2. PICK q \in Requests : ReadClock(q) \/ Script(q) \/ ScriptFails(q)
  BY <1>1 DEF RateNext, rateVars, Tick
<1>3. ~ReadClock(q)
  BY DEF ReadClock, RequestTypes
<1>4. ASSUME NEW stages \in SUBSET {"allowed", "refused", "unchecked"}, Answer(q, stages)
      PROVE  q = r /\ "refused" \in stages
  BY <1>4, RequestAnswered
<1>5. ~ScriptFails(q)
  BY <1>4 DEF ScriptFails
<1>6. Script(q)
  BY <1>2, <1>3, <1>5
<1>7. CASE Cardinality(Kept(q)) < Rate
  <2>1. Answer(q, {"allowed", "unchecked"})
    BY <1>6, <1>7 DEF Script, Admit
  <2> QED BY <1>4, <2>1
<1>8. CASE ~(Cardinality(Kept(q)) < Rate)
  <2>1. Answer(q, {"refused", "unchecked"})
    BY <1>6, <1>8 DEF Script, Refuse
  <2> QED BY <1>4, <1>6, <1>8, <2>1
<1> QED BY <1>7, <1>8

\* Whatever is late, lost or races: a request that Redis refuses found that at Rate
\* different ticks of its window, or after it, a request had been let through.
THEOREM RefusalsHaveCause == RateSpec => RefusedForCause
<1>1. RateInit /\ RateInv => CauseInv
  BY DEF RateInit, RateInv, CauseInv
<1>2. RateInv /\ RateInv' /\ CauseInv /\ [RateNext]_rateVars => CauseInv'
  BY CauseStep DEF RateInv
<1>3. ASSUME CauseInv, [RateNext]_rateVars, NEW r \in Requests,
             request[r].stage # "refused", request'[r].stage = "refused"
      PROVE  Cardinality({u \in 0..MaxClock : u + Window > request[r].stamp /\ LetThrough(u)})
                 >= Rate
  <2> DEFINE causes == {u \in 0..MaxClock : u + Window > request[r].stamp /\ LetThrough(u)}
  <2>1. /\ request \in [Requests -> RequestTypes]
        /\ \A u \in zset : u \in 0..MaxClock /\ LetThrough(u)
    BY <1>3 DEF CauseInv, RateTypeOK, RequestTypes
  <2>2. ~(Cardinality(Kept(r)) < Rate)
    BY <1>3, <2>1, RefusedByScript
  <2>3. Kept(r) \in SUBSET causes
    BY <2>1 DEF Kept
  <2>4. IsFiniteSet(causes)
    <3>1. IsFiniteSet(0..MaxClock)
      BY RateIsNat, FS_Interval
    <3>2. causes \in SUBSET (0..MaxClock)
      OBVIOUS
    <3> HIDE DEF causes
    <3> QED BY <3>1, <3>2, FS_Subset
  <2> HIDE DEF causes
  <2>5. IsFiniteSet(Kept(r)) /\ Cardinality(Kept(r)) <= Cardinality(causes)
    BY <2>3, <2>4, FS_Subset
  <2>6. Cardinality(Kept(r)) \in Nat /\ Cardinality(causes) \in Nat
    BY <2>4, <2>5, FS_CardinalityType
  <2>7. Cardinality(causes) >= Rate
    BY <2>2, <2>5, <2>6, RateIsNat
  <2> QED BY <2>7 DEF causes
<1>4. CauseInv /\ [RateNext]_rateVars =>
        [\A r \in Requests : request[r].stage # "refused" /\ request'[r].stage = "refused" =>
          Cardinality({u \in 0..MaxClock : u + Window > request[r].stamp /\ LetThrough(u)})
              >= Rate]_rateVars
  BY <1>3
<1>5. RateInv => RateTypeOK
  BY DEF RateInv
<1> QED BY <1>1, <1>2, <1>4, <1>5, RateInvariant, PTL DEF RateSpec, RefusedForCause

(***************************************************************************)
(* All four.  ServicesSpec lets one of them run and the others stand still *)
(* forever, so that each of its behaviours is one of each service.         *)
(***************************************************************************)
LEMMA EachRunsAlone ==
    /\ ServicesSpec => ChatSpec
    /\ ServicesSpec => StreamSpec
    /\ ServicesSpec => MailSpec
    /\ ServicesSpec => RateSpec
<1>1. ServicesInit => ChatInit /\ StreamInit /\ MailInit /\ RateInit
  BY DEF ServicesInit
<1>2. [ServicesNext]_servicesVars => [ChatNext]_chatVars
  BY DEF ServicesNext, servicesVars
<1>3. [ServicesNext]_servicesVars => [StreamNext]_streamVars
  BY DEF ServicesNext, servicesVars
<1>4. [ServicesNext]_servicesVars => [MailNext]_mailVars
  BY DEF ServicesNext, servicesVars
<1>5. [ServicesNext]_servicesVars => [RateNext]_rateVars
  BY DEF ServicesNext, servicesVars
<1> QED
  BY <1>1, <1>2, <1>3, <1>4, <1>5, PTL DEF ServicesSpec, ChatSpec, StreamSpec, MailSpec, RateSpec

\* However many connections, publications, providers and requests there are, the lists,
\* rows, requests and sets of the four services stay within their types; in particular no
\* more than two webhooks per publication are ever under way, and no stamp, expiry or
\* version exceeds its bound.
THEOREM ServicesTyped == ServicesSpec => []ServicesTypeOK
<1>1. ChatInv /\ StreamInv /\ MailInv /\ RateInv => ServicesTypeOK
  BY DEF ChatInv, StreamInv, MailInv, RateInv, ServicesTypeOK
<1> QED
  BY <1>1, EachRunsAlone, ChatInvariant, StreamInvariant, MailInvariant, RateInvariant, PTL
=============================================================================
