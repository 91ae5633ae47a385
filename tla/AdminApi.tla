------------------------------ MODULE AdminApi ------------------------------
(***************************************************************************)
(* What the pages of the admin console share: the page that is mounted,    *)
(* the sign-in kept by auth-provider.ts, the requests under way, and the   *)
(* records of the server they ask about.                                   *)
(*                                                                         *)
(* Of a record only the status is kept that a button or another record     *)
(* depends on, and one record stands for the rows of a table, except for   *)
(* users, of whom several can be ticked.  A page draws its buttons from    *)
(* the status it loaded last; the server, other administrators and the     *)
(* owners of the records go on meanwhile.                                  *)
(*                                                                         *)
(* A request is sent with a hook of refine or with fetch.  The callbacks   *)
(* of a hook are dropped with the page that passed them and a 401 signs    *)
(* the administrator out; what follows a fetch runs wherever the tab is by *)
(* then, and a 401 is an error like any other.                             *)
(***************************************************************************)
EXTENDS Integers, FiniteSets

CONSTANTS
    Users,          \* the rows of the users table
    MaxCalls,       \* bounds the requests under way at a time
    MaxChanges,     \* bounds how often the status of any record changes
    AdminIdKnown    \* do the handlers find the administrator's id in the request's context?

ASSUME MaxCallsIsNat == MaxCalls \in Nat
ASSUME MaxChangesIsNat == MaxChanges \in Nat
ASSUME IdKnownIsBoolean == AdminIdKnown \in BOOLEAN

VARIABLES
    token,      \* an access token is in the local storage
    page,       \* the page that is mounted and its state
    calls,      \* the requests under way
    rows,       \* server: the status of every record
    changes,    \* how often one has changed
    been        \* history: the streams that were live, the payments that were complete

vars == <<token, page, calls, rows, changes, been>>
client == <<token, page, calls>>
server == <<rows, changes, been>>

\* Tables with a status, and those whose rows are only there or not.
Tables == {"streams", "reports", "transactions", "creator-verification"}
Plain == {"videos", "chat-messages", "categories", "templates", "payouts", "subscriptions",
          "email/providers", "email/templates", "email/log",
          "storage/providers", "storage/buckets", "storage/routing"}
Resources == {"users"} \cup Tables \cup Plain

ASSUME UsersAreNoTables == Users \cap (Resources \cup {"login", "home", "storage"}) = {}

Records == Users \cup Tables
UserStatuses == {"active", "suspended", "pending", "deleted"}
Statuses == UserStatuses \cup {"idle", "live", "ended", "completed", "failed", "refunded",
                               "resolved", "dismissed", "approved", "rejected"}

FirstStatus(r) ==
    CASE r \in Users -> "active"
      [] r = "streams" -> "idle"
      [] OTHER -> "pending"

\* A page that has just mounted: nothing is loaded, nothing ticked, no modal open.
Mounted(res, kind, id) ==
    [res |-> res, kind |-> kind, id |-> id, seen |-> "loading", fetching |-> TRUE,
     ticked |-> {}, modal |-> "none", busy |-> FALSE]
LoginPage == Mounted("login", "list", "login")

Init ==
    /\ token = FALSE /\ page = LoginPage /\ calls = {}
    /\ rows = [r \in Records |-> FirstStatus(r)]
    /\ changes = 0 /\ been = {}

(***************************************************************************)
(* Navigation.                                                             *)
(***************************************************************************)
\* What is left of a request when its page goes, and when its document does.  One of
\* which nothing can come any more is dropped.
Lingers(c) == c.then # {} \/ c.via = "hook" \/ (c.ids # {} /\ ~c.served)
Silent(c) ==
    [c EXCEPT !.here = FALSE, !.then = IF c.via = "fetch" THEN @ \cap {"leave"} ELSE {}]
Left(cs) == {c \in {Silent(d) : d \in cs} : Lingers(c)}

Unheard(c) == [c EXCEPT !.here = FALSE, !.then = {}, !.via = "fetch"]
Unloaded(cs) == {c \in {Unheard(d) : d \in cs} : Lingers(c)}

\* router.push and the navigation of refine: the document stays.
Mount(p, cs) == page' = p /\ calls' = Left(cs)

At(res, kind) == page.res = res /\ page.kind = kind /\ page.modal = "none"
Keeps == UNCHANGED <<token, server>>
Push(res, kind) == Mount(Mounted(res, kind, res), calls) /\ Keeps
PushUser(kind, u) == Mount(Mounted("users", kind, u), calls) /\ Keeps

Set(field, v) == page' = [page EXCEPT ![field] = v] /\ UNCHANGED calls /\ Keeps
Opens(modals) == \E m \in modals : Set("modal", m)

\* A modal is up, with its button to go on and its button to cancel.
In(res, kind, modal) == page.res = res /\ page.kind = kind /\ page.modal = modal
Cancel == page.modal # "none" /\ Set("modal", "none")

(***************************************************************************)
(* Sign-in: auth-provider.ts.                                              *)
(***************************************************************************)
SignedOut(cs) == token' = FALSE /\ Mount(LoginPage, cs) /\ UNCHANGED server

\* Nothing but a 401 to a hook signs out; the pages themselves do not ask for a token.
OnError(cs) == SignedOut(cs)

(***************************************************************************)
(* Loading: a list or a record.  The server has no route for a single      *)
(* report, request, message, payout or subscription, and a record that     *)
(* was deleted is not found.  A page whose record changes reloads only     *)
(* where its code says so.                                                 *)
(***************************************************************************)
GetById == {"users", "videos", "streams", "categories", "transactions", "templates",
            "email/providers", "email/templates", "storage/providers", "storage/buckets"}

Loaded ==
    IF page.kind \in {"show", "edit"} /\ page.res \notin GetById THEN {"missing"}
    ELSE IF page.id \in Records THEN {rows[page.id]} ELSE {"there", "missing"}

Load ==
    /\ page.fetching /\ token
    /\ \E s \in Loaded : page' = [page EXCEPT !.seen = s, !.fetching = FALSE]
    /\ UNCHANGED <<token, calls, server>>

LoadRefused ==
    /\ page.fetching /\ page.res # "login" /\ page.kind # "create"
    /\ OnError(calls)

Refetch == Set("fetching", TRUE)

\* The record of a page that has loaded: there is a button for one of these.
Sees(statuses) == page.seen \in statuses
Found == page.seen \notin {"loading", "missing"}

(***************************************************************************)
(* Requests.                                                               *)
(***************************************************************************)
Effects == {"leave", "refetch", "close", "untick"}

\* op is asked of these records; on success these effects follow on the page.
Call(op, ids, via, then) ==
    [op |-> op, ids |-> ids, via |-> via, then |-> then, to |-> page.res,
     signed |-> token, here |-> TRUE, served |-> FALSE]

Send(op, ids, via, then) ==
    /\ Cardinality(calls) < MaxCalls
    /\ calls' = calls \cup {Call(op, ids, via, then)}
    /\ UNCHANGED page /\ Keeps
\* With a loading flag of the page's own, which holds the button back.
SendBusy(op, ids, then) ==
    /\ ~page.busy /\ Cardinality(calls) < MaxCalls
    /\ calls' = calls \cup {Call(op, ids, "fetch", then)}
    /\ page' = [page EXCEPT !.busy = TRUE] /\ Keeps

\* isPending of a hook: what it was passed last has not been answered.
Pending(ops) == \E c \in calls : c.here /\ c.op \in ops

(***************************************************************************)
(* The server's part: what a request makes of the status of a record.      *)
(***************************************************************************)
\* Mutant: a decision has a name of its own.
AcceptsRequest(old)  == IF old = "pending" THEN "accepted" ELSE old

BanUser(old)     == IF old = "deleted" THEN old ELSE "suspended"
UnbanUser(old)   == IF old = "suspended" THEN "active" ELSE old
ApproveRequest(old) == IF old = "pending" THEN "approved" ELSE old
RejectRequest(old)  == IF old = "pending" THEN "rejected" ELSE old
KillStream(old)     == IF old = "ended" THEN old ELSE "ended"
IssueRefund(old)    == IF old = "completed" THEN "refunded" ELSE old

StatusAfter(op, old) ==
    CASE op = "ban"     -> BanUser(old)
      [] op = "unban"   -> UnbanUser(old)
      [] op = "approve" -> ApproveRequest(old)
      [] op = "reject"  -> RejectRequest(old)
      [] op = "kill"    -> KillStream(old)
      [] op = "refund"  -> IssueRefund(old)
      [] op = "suspend" -> "suspended"
      [] op \in Statuses -> op
      [] OTHER          -> old

Changed(r, s) ==
    /\ changes < MaxChanges
    /\ changes' = changes + 1
    /\ rows' = r /\ been' = been \cup s

Applied(op, ids) ==
    [r \in Records |-> IF r \in ids THEN StatusAfter(op, rows[r]) ELSE rows[r]]

\* What the requests ask for that the server has no route for: to create a user.
Unrouted == {"create user"}
\* Without the administrator's id the columns banned_by and reviewed_by refuse the row.
NeedsId == {"ban", "approve", "reject"}
CanServe(op) == op \notin Unrouted /\ (AdminIdKnown \/ op \notin NeedsId)

Serve(c) ==
    /\ c.signed /\ ~c.served /\ CanServe(c.op)
    /\ calls' = (calls \ {c}) \cup {[c EXCEPT !.served = TRUE]}
    /\ IF Applied(c.op, c.ids) = rows THEN UNCHANGED server
       ELSE Changed(Applied(c.op, c.ids), {})
    /\ UNCHANGED <<token, page>>

(***************************************************************************)
(* The page's part: what follows an answer.  A request may fail though it  *)
(* was served, its answer being lost.                                      *)
(***************************************************************************)
\* Mutant: the flag is taken back only when it worked.
BusyUntilItWorks(ok) == [page EXCEPT !.busy = @ /\ ~ok]

\* finally: the flag is taken back however it went.
NotBusy(ok) == [page EXCEPT !.busy = FALSE]

Succeeded(c) ==
    LET p == IF c.via = "fetch" THEN NotBusy(TRUE) ELSE page
    IN  [p EXCEPT !.modal = IF "close" \in c.then THEN "none" ELSE @,
                  !.ticked = IF "untick" \in c.then THEN {} ELSE @,
                  !.fetching = @ \/ "refetch" \in c.then]

\* A verification in bulk takes any answer for a success.
Believed(c) == c.served \/ (c.op = "verify" /\ "untick" \in c.then)

AnswerOk(c) ==
    /\ Believed(c)
    /\ IF "leave" \in c.then /\ (c.here \/ c.via = "fetch")
       THEN Mount(Mounted(c.to, "list", c.to), calls \ {c})
       ELSE /\ page' = IF c.here THEN Succeeded(c) ELSE page
            /\ calls' = calls \ {c}
    /\ Keeps

AnswerFailed(c) ==
    /\ page' = IF c.here /\ c.via = "fetch" THEN NotBusy(FALSE) ELSE page
    /\ calls' = calls \ {c}
    /\ Keeps

AnswerUnauthorized(c) ==
    /\ ~c.served /\ c.via = "hook"
    /\ OnError(calls \ {c})

Answer(c) == AnswerOk(c) \/ AnswerFailed(c) \/ AnswerUnauthorized(c)

(***************************************************************************)
(* The rest of the world: streams and payments run their course, the       *)
(* owners of accounts confirm and change their address, which writes the   *)
(* status of the row whatever it was, and other administrators do what     *)
(* these pages allow, with views as old as this one: what a ban, its end   *)
(* or a bulk suspension makes of a user the form of the profile does too.  *)
(***************************************************************************)
Becomes(r, old, new) ==
    /\ rows[r] = old
    /\ Changed([rows EXCEPT ![r] = new], IF new \in {"live", "completed"} THEN {r} ELSE {})
    /\ UNCHANGED client

\* The owner of an account: the code that confirms an address, an address that is changed.
VerifyEmail(u) == rows[u] # "active" /\ Becomes(u, rows[u], "active")
UpdateEmail(u) == rows[u] # "pending" /\ Becomes(u, rows[u], "pending")

OthersDo(op, r) ==
    /\ CanServe(op) /\ Applied(op, {r}) # rows
    /\ Changed(Applied(op, {r}), {})
    /\ UNCHANGED client

World ==
    \/ \E s \in {"idle", "ended"} : Becomes("streams", s, "live")
    \/ Becomes("streams", "live", "ended")
    \/ \E s \in {"completed", "failed"} : Becomes("transactions", "pending", s)
    \/ rows["transactions"] = "completed" /\ OthersDo("refund", "transactions")
    \/ \E op \in {"approve", "reject"} : OthersDo(op, "creator-verification")
    \/ \E u \in Users : VerifyEmail(u) \/ UpdateEmail(u)
    \/ \E u \in Users, s \in UserStatuses : OthersDo(s, u)

-----------------------------------------------------------------------------
Kinds == {"list", "show", "edit", "create"}
Places == Resources \cup {"login", "home", "storage"}
Modals == {"none", "ban", "role", "verify", "approve", "reject", "purge", "refund", "new", "edit"}

PageTypes ==
    [res : Places, kind : Kinds, id : Places \cup Users,
     seen : Statuses \cup {"loading", "missing", "there"}, fetching : BOOLEAN,
     ticked : SUBSET Users, modal : Modals, busy : BOOLEAN]

Ops ==
    Statuses \cup Modals \cup
    {"unban", "suspend", "kill", "delete", "update", "create", "create user", "notes",
     "chat ban", "stream ban", "pay out", "cancel", "test", "sync", "health", "export"}

CallTypes ==
    [op : Ops, ids : SUBSET Records, via : {"hook", "fetch"}, then : SUBSET Effects, to : Places,
     signed : BOOLEAN, here : BOOLEAN, served : BOOLEAN]

TypeOK ==
    /\ token \in BOOLEAN
    /\ page \in PageTypes
    /\ calls \subseteq CallTypes
    /\ rows \in [Records -> Statuses]
    /\ changes \in 0..MaxChanges
    /\ been \subseteq {"streams", "transactions"}
=============================================================================
