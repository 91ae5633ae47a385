------------------------------ MODULE ChatRoom ------------------------------
(***************************************************************************)
(* The chat service: the room of one stream, its connections, and the      *)
(* messages typed into them or posted.  Rooms of different streams share   *)
(* only the lock.                                                          *)
(*                                                                         *)
(* One action is a section under the lock, a command of Redis or Postgres, *)
(* or an event of a connection.  The goroutine of a connection lives on    *)
(* after the handler that started it, but keeps the handler's context:     *)
(* once the handler has returned that is cancelled, and every command      *)
(* given it fails.  A body that is no JSON is skipped and left out, and so *)
(* are time-outs and bans, which write keys that nothing reads.            *)
(***************************************************************************)
EXTENDS FiniteSets

CONSTANTS
    Viewers,    \* the user ids that connect
    Conns,      \* connections, each used once
    Messages,   \* messages, each sent once
    StoresFail, \* do commands of Redis and Postgres fail on their own?
    NoViewer,
    NoMessage

ASSUME StoresFailIsBoolean == StoresFail \in BOOLEAN
ASSUME NoViewerIsNone  == NoViewer \notin Viewers
ASSUME NoMessageIsNone == NoMessage \notin Messages

VARIABLES
    clients,    \* s.clients[streamID]: the listed connections
    room,       \* s.clients has an entry for the stream
    conn,       \* a connection, its goroutine and its client
    post,       \* a message: posted by a request, or typed into a connection
    heard,      \* per connection: the messages that reached its client
    chatTable   \* the table chat_messages

chatVars == <<clients, room, conn, post, heard, chatTable>>

NewConn ==
    [viewer |-> NoViewer, stage |-> "new", context |-> TRUE, subscribed |-> FALSE,
     open |-> TRUE, message |-> NoMessage]

ChatInit ==
    /\ clients = {}
    /\ room = FALSE
    /\ conn = [c \in Conns |-> NewConn]
    /\ post = [m \in Messages |-> "new"]
    /\ heard = [c \in Conns |-> {}]
    /\ chatTable = {}

Of(u) == {c \in Conns : conn[c].viewer = u}
Moves(c, stage) == conn' = [conn EXCEPT ![c].stage = stage]

(***************************************************************************)
(* HandleWebSocket and its goroutine.                                      *)
(***************************************************************************)
\* clients[userID] = conn replaces an older connection of the same viewer.
Register(c, u) ==
    /\ conn[c].stage = "new"
    /\ room' = TRUE
    /\ clients' = (clients \ Of(u)) \cup {c}
    /\ conn' = [conn EXCEPT ![c].stage = "registered", ![c].viewer = u]
    /\ UNCHANGED <<post, heard, chatTable>>

\* The server cancels the request's context, whatever its goroutines are at.
HandlerReturns(c) ==
    /\ conn[c].stage # "new" /\ conn[c].context
    /\ conn' = [conn EXCEPT ![c].context = FALSE]
    /\ UNCHANGED <<clients, room, post, heard, chatTable>>

\* With a cancelled context the channel is only noted: the loop of pubsub.Channel
\* subscribes to it in its own time.
Subscribe(c) ==
    /\ conn[c].stage = "registered"
    /\ conn' = [conn EXCEPT ![c].stage = "reading", ![c].subscribed = conn[c].context]
    /\ UNCHANGED <<clients, room, post, heard, chatTable>>

ChannelSubscribes(c) ==
    /\ conn[c].stage \in {"reading", "publish", "save"} /\ ~conn[c].subscribed
    /\ conn' = [conn EXCEPT ![c].subscribed = TRUE]
    /\ UNCHANGED <<clients, room, post, heard, chatTable>>

ReadMessage(c, m) ==
    /\ conn[c].stage = "reading" /\ conn[c].open
    /\ post[m] = "new"
    /\ conn' = [conn EXCEPT ![c].stage = "publish", ![c].message = m]
    /\ post' = [post EXCEPT ![m] = IF conn[c].context THEN "typed" ELSE "typed late"]
    /\ UNCHANGED <<clients, room, heard, chatTable>>

\* Redis hands a message to those that are subscribed.
Published(m) ==
    heard' = [d \in Conns |->
                 heard[d] \cup IF conn[d].subscribed /\ conn[d].open THEN {m} ELSE {}]

\* Neither error is looked at by the loop.
Broadcast(c) ==
    /\ conn[c].stage = "publish"
    /\ \/ conn[c].context /\ Published(conn[c].message)
       \/ (StoresFail \/ ~conn[c].context) /\ UNCHANGED heard
    /\ Moves(c, "save")
    /\ UNCHANGED <<clients, room, post, chatTable>>

SaveMessage(c) ==
    /\ conn[c].stage = "save"
    /\ \/ conn[c].context /\ chatTable' = chatTable \cup {conn[c].message}
       \/ (StoresFail \/ ~conn[c].context) /\ UNCHANGED chatTable
    /\ Moves(c, "reading")
    /\ UNCHANGED <<clients, room, post, heard>>

\* The subscription is closed before the deferred clean-up.
ReadFails(c) ==
    /\ conn[c].stage = "reading" /\ ~conn[c].open
    /\ conn' = [conn EXCEPT ![c].stage = "leaving", ![c].subscribed = FALSE]
    /\ UNCHANGED <<clients, room, post, heard, chatTable>>

\* Mutant: the room goes with whoever leaves.
CleanUpRoom(c) ==
    /\ conn[c].stage = "leaving"
    /\ clients' = {} /\ room' = FALSE
    /\ Moves(c, "closed")
    /\ UNCHANGED <<post, heard, chatTable>>

\* The deferred function deletes the viewer's entry, whichever connection it holds.
CleanUp(c) ==
    /\ conn[c].stage = "leaving"
    /\ clients' = clients \ Of(conn[c].viewer)
    /\ room' = (room /\ clients' # {})
    /\ Moves(c, "closed")
    /\ UNCHANGED <<post, heard, chatTable>>

\* The client closes the connection, or is gone.
PeerLeaves(c) ==
    /\ conn[c].stage # "new" /\ conn[c].open
    /\ conn' = [conn EXCEPT ![c].open = FALSE]
    /\ UNCHANGED <<clients, room, post, heard, chatTable>>

(***************************************************************************)
(* SendMessage by HTTP: Broadcast and SaveMessage, either of which may     *)
(* fail unnoticed; and the administrators.                                 *)
(***************************************************************************)
PostBroadcast(m) ==
    /\ post[m] = "new"
    /\ Published(m) \/ (StoresFail /\ UNCHANGED heard)
    /\ post' = [post EXCEPT ![m] = "save"]
    /\ UNCHANGED <<clients, room, conn, chatTable>>

PostSave(m) ==
    /\ post[m] = "save"
    /\ chatTable' = chatTable \cup {m} \/ (StoresFail /\ UNCHANGED chatTable)
    /\ post' = [post EXCEPT ![m] = "posted"]
    /\ UNCHANGED <<clients, room, conn, heard>>

DeleteMessage(m) ==
    /\ m \in chatTable
    /\ chatTable' = chatTable \ {m}
    /\ UNCHANGED <<clients, room, conn, post, heard>>
PurgeStreamMessages ==
    /\ chatTable # {} /\ chatTable' = {}
    /\ UNCHANGED <<clients, room, conn, post, heard>>

-----------------------------------------------------------------------------
Goroutine(c) ==
    \/ Subscribe(c) \/ Broadcast(c) \/ SaveMessage(c) \/ ReadFails(c) \/ CleanUp(c)

ChatNext ==
    \/ \E c \in Conns :
         \/ \E u \in Viewers : Register(c, u)
         \/ \E m \in Messages : ReadMessage(c, m)
         \/ HandlerReturns(c) \/ ChannelSubscribes(c) \/ PeerLeaves(c) \/ Goroutine(c)
    \/ \E m \in Messages : PostBroadcast(m) \/ PostSave(m) \/ DeleteMessage(m)
    \/ PurgeStreamMessages

ChatSpec == ChatInit /\ [][ChatNext]_chatVars

-----------------------------------------------------------------------------
Stages == {"new", "registered", "reading", "publish", "save", "leaving", "closed"}
ChatTypeOK ==
    /\ clients \subseteq Conns /\ room \in BOOLEAN
    /\ conn \in [Conns -> [viewer : Viewers \cup {NoViewer}, stage : Stages,
                           context : BOOLEAN, subscribed : BOOLEAN,
                           open : BOOLEAN,
                           message : Messages \cup {NoMessage}]]
    /\ post \in [Messages -> {"new", "typed", "typed late", "save", "posted"}]
    /\ heard \in [Conns -> SUBSET Messages]
    /\ chatTable \subseteq Messages

Present(c) == conn[c].stage \notin {"new", "closed"}

\* The room counts one connection per viewer and nobody who has left, no empty room is
\* kept, and a viewer who is present is missing only if they connected more than once:
\* then the clean-up of an old connection takes the new one off the list.
ViewersCounted ==
    /\ room <=> clients # {}
    /\ \A c \in clients : Present(c) /\ clients \cap Of(conn[c].viewer) = {c}
    /\ \A c \in Conns :
         Present(c) /\ c \notin clients => Of(conn[c].viewer) # {c}

\* The claim of README.md:122 and ARCHITECTURE.md:181, real-time chat with a fan-out and
\* messages that persist: a message that was read from a connection reaches every client
\* that is subscribed, and then the table.
TypedArrives ==
    [][\A c \in Conns :
         /\ conn[c].stage = "publish" /\ conn'[c].stage = "save" =>
              \A d \in Conns :
                  conn[d].subscribed /\ conn[d].open => conn[c].message \in heard'[d]
         /\ conn[c].stage = "save" /\ conn'[c].stage = "reading" =>
              conn[c].message \in chatTable'
    ]_chatVars

\* Why it does not hold though the stores work: what is typed into a connection after its
\* handler has returned reaches nobody and is not kept, because the goroutine publishes
\* and saves it with the context of the handler.
TypedIsLost ==
    \A m \in Messages : post[m] = "typed late" =>
        /\ m \notin chatTable
        /\ \A c \in Conns : m \notin heard[c]
=============================================================================
