----------------------------- MODULE LiveStream -----------------------------
(***************************************************************************)
(* One stream: its row of the table streams, the publisher at MediaMTX,    *)
(* and the webhooks MediaMTX sends about it, which nothing puts in order.  *)
(*                                                                         *)
(* One action is one SQL statement.  A statement that a webhook caused and *)
(* that fails is only logged: the webhook is lost.  MediaMTX hears nothing *)
(* of the status, so that a stream somebody ended may still be on air.     *)
(* Times, simulcast targets, analytics and bans from streaming decide      *)
(* nothing and are left out, and so are the webhooks about connections,    *)
(* which are only logged.                                                  *)
(***************************************************************************)
EXTENDS Naturals, Sequences, SequencesExt

CONSTANT MaxPublishes   \* bounds how often the publisher goes on air

ASSUME MaxPublishesIsNat == MaxPublishes \in Nat

VARIABLES
    status,     \* the row's status, "none" while there is no row
    onAir,      \* MediaMTX: the stream is being published
    hooks,      \* the webhooks under way, in the order they were sent
    publishes,  \* how often the publisher went on air
    stopped,    \* history: EndStream or a kill ended it since it last became live
    disturbed   \* history: a webhook was lost or overtaken

streamVars == <<status, onAir, hooks, publishes, stopped, disturbed>>

StreamInit ==
    /\ status = "none"
    /\ onAir = FALSE /\ hooks = <<>> /\ publishes = 0
    /\ stopped = FALSE /\ disturbed = FALSE

StartStream ==
    /\ status = "none"
    /\ status' = "starting"
    /\ UNCHANGED <<onAir, hooks, publishes, stopped, disturbed>>

(***************************************************************************)
(* MediaMTX.                                                               *)
(***************************************************************************)
GoOnAir ==
    /\ status # "none" /\ ~onAir /\ publishes < MaxPublishes
    /\ onAir' = TRUE /\ hooks' = Append(hooks, "publish") /\ publishes' = publishes + 1
    /\ UNCHANGED <<status, stopped, disturbed>>
GoOffAir ==
    /\ onAir
    /\ onAir' = FALSE /\ hooks' = Append(hooks, "publish_done")
    /\ UNCHANGED <<status, publishes, stopped, disturbed>>

(***************************************************************************)
(* HandleMediaMTXWebhook.                                                  *)
(***************************************************************************)
\* Whatever the status was.
Publish == status' = "live" /\ stopped' = FALSE

\* Mutant: it waits for a stream that was started only.
PublishDoneOfStarting ==
    /\ status' = IF status = "starting" THEN "ended" ELSE status
    /\ UNCHANGED stopped

\* Mutant: the stream is idle again, as a row is by default.
PublishDoneIdles ==
    /\ status' = IF status = "live" THEN "idle" ELSE status
    /\ UNCHANGED stopped

PublishDone ==
    /\ status' = IF status = "live" THEN "ended" ELSE status
    /\ UNCHANGED stopped

HandleMediaMTXWebhook ==
    \E i \in DOMAIN hooks :
        /\ \/ hooks[i] = "publish" /\ Publish
           \/ hooks[i] = "publish_done" /\ PublishDone
        /\ hooks' = RemoveAt(hooks, i)
        /\ disturbed' = (disturbed \/ i # 1)
        /\ UNCHANGED <<onAir, publishes>>

LoseWebhook ==
    \E i \in DOMAIN hooks :
        /\ hooks' = RemoveAt(hooks, i)
        /\ disturbed' = TRUE
        /\ UNCHANGED <<status, onAir, publishes, stopped>>

(***************************************************************************)
(* Those who end it.                                                       *)
(***************************************************************************)
Ends(from) ==
    /\ status \in from
    /\ status' = "ended" /\ stopped' = TRUE
    /\ UNCHANGED <<onAir, hooks, publishes, disturbed>>
EndStream == Ends({"live"})
AdminKillStream == Ends({"starting", "live"})

-----------------------------------------------------------------------------
StreamNext ==
    \/ StartStream \/ GoOnAir \/ GoOffAir
    \/ HandleMediaMTXWebhook \/ LoseWebhook
    \/ EndStream \/ AdminKillStream

StreamSpec == StreamInit /\ [][StreamNext]_streamVars

-----------------------------------------------------------------------------
StreamTypeOK ==
    /\ status \in {"none", "starting", "live", "ended"}
    /\ onAir \in BOOLEAN
    /\ hooks \in Seq({"publish", "publish_done"}) /\ Len(hooks) <= 2 * MaxPublishes
    /\ publishes \in 0..MaxPublishes
    /\ stopped \in BOOLEAN /\ disturbed \in BOOLEAN

\* As long as every webhook arrived, and in order, the status is right whenever none is
\* under way: a live stream is on air, and a stream on air is live unless somebody
\* ended it meanwhile.
LiveIsOnAir ==
    ~disturbed /\ hooks = <<>> =>
        /\ status = "live" => onAir
        /\ onAir => status = "live" \/ stopped
=============================================================================
