---------------------------- MODULE AdminConsole ----------------------------
(***************************************************************************)
(* The pages of the admin console: which of their controls are drawn and   *)
(* enabled, and what each of them asks the server for and does when it was *)
(* answered.  A page is the disjunction of what its controls call.         *)
(*                                                                         *)
(* Left out: roles, notes and the other fields no button depends on, of    *)
(* which it is kept that they are sent; filters and page numbers, of which *)
(* it is kept that they load the list again; and the question before a     *)
(* deletion.                                                               *)
(***************************************************************************)
EXTENDS AdminApi

Filtered(res) == At(res, "list") /\ Refetch
Shows(res) == Found /\ Push(res, "show")
Edits(res) == Found /\ Push(res, "edit")
Deletes(res, via, then) == Found /\ Send("delete", {}, via, then)

\* A form of its own page: it leaves for the list when it was accepted.
Form(res, op) == ~Pending({op}) /\ Send(op, {}, "hook", {"leave"})
BackTo(res) == Push(res, "list")

(***************************************************************************)
(* Sign-in and the frame around the pages.                                 *)
(***************************************************************************)
\* A login that was accepted goes on to the users; one that was not changes nothing.
Login == token' = TRUE /\ Mount(Mounted("users", "list", "users"), calls) /\ UNCHANGED server
OnFinish == At("login", "list") /\ Login

MenuItems == (Resources \ {"email/templates", "email/log"}) \cup {"home"}

HandleMenuClick == \E r \in MenuItems : Push(r, "list")

\* Without refine: it drops the keys and pushes.
HandleLogout == SignedOut(calls)

ResourcesLayout ==
    /\ page.res \notin {"login", "home"} /\ page.modal = "none"
    /\ HandleMenuClick \/ HandleLogout

\* The page of the numbers, with its four shortcuts.
DashboardPage ==
    /\ At("home", "list")
    /\ \/ Push("users", "create") \/ Push("payouts", "create")
       \/ Push("reports", "list") \/ Push("streams", "list")

(***************************************************************************)
(* Users.  The ticks outlive a change of filter; each modal stands for the *)
(* button that opened it, and can be cancelled while it is waiting.        *)
(***************************************************************************)
TickRows == \E t \in SUBSET Users : Set("ticked", t)

HandleExportCSV == Send("export", {}, "fetch", {})

\* Mutant: the modal is left to its own button.
AfterWithModal == {"untick", "refetch"}

After == {"close", "untick", "refetch"}
HandleBulkAction ==
    /\ page.ticked # {}
    /\ \/ page.modal = "ban" /\ ~Pending({"suspend", "role"})
          /\ Send("suspend", page.ticked, "hook", After)
       \/ page.modal = "role" /\ ~Pending({"suspend", "role"})
          /\ Send("role", page.ticked, "hook", After)
       \/ page.modal = "verify" /\ Send("verify", page.ticked, "fetch", After)

BulkModal == page.res = "users" /\ page.kind = "list" /\ (HandleBulkAction \/ Cancel)

UsersList ==
    /\ At("users", "list")
    /\ \/ Refetch \/ HandleExportCSV
       \/ \E u \in Users : PushUser("edit", u)
       \/ Found /\ TickRows
       \/ page.ticked # {} /\ Opens({"ban", "role", "verify"})

\* The profile: each button asks for what the status that was loaded suggests.  Only
\* leaving the page loads it again.
\* The form sends a status too: the one the page loaded, however old, unless another was
\* chosen.
HandleFinishUser ==
    /\ ~Pending(UserStatuses)
    /\ \E s \in UserStatuses : Send(s, {page.id}, "hook", {"leave"})
HandleBan == ~Pending({"ban", "unban"}) /\ Send("ban", {page.id}, "hook", {"close"})
HandleUnban == Send("unban", {page.id}, "hook", {})
HandleToggleVerify == Send("verify", {page.id}, "fetch", {})
HandleSaveNotes == Send("notes", {page.id}, "fetch", {})

BanCard ==
    \/ Sees({"suspended"}) /\ HandleUnban
    \/ ~Sees({"suspended", "deleted"}) /\ Opens({"ban"})
BanModal == In("users", "show", "ban") /\ (HandleBan \/ Cancel)

UsersShow ==
    /\ At("users", "show")
    /\ \/ BackTo("users")
       \/ Found /\ (BanCard \/ HandleToggleVerify \/ HandleSaveNotes \/ HandleFinishUser)

\* The form of the linked page has a switch for a suspension that the server ignores.
HandleFinishEdit == ~Pending({"update"}) /\ Send("update", {page.id}, "hook", {"leave"})
ToggleVerifyEdit == Send("verify", {page.id}, "fetch", {"refetch"})

UsersEdit ==
    /\ At("users", "edit")
    /\ BackTo("users") \/ (Found /\ (HandleFinishEdit \/ ToggleVerifyEdit))

UsersCreate ==
    At("users", "create") /\ (BackTo("users") \/ Form("users", "create user"))

(***************************************************************************)
(* Content: videos, streams, chat, categories, reports.                    *)
(***************************************************************************)
\* The deletion of the list only says it was done.
VideosList == At("videos", "list") /\ (Refetch \/ Shows("videos") \/ Edits("videos"))

DeleteVideo == ~Pending({"delete"}) /\ Deletes("videos", "hook", {"leave"})
VideosShow ==
    /\ At("videos", "show")
    /\ BackTo("videos") \/ Edits("videos") \/ DeleteVideo

VideosEdit ==
    /\ At("videos", "edit")
    /\ BackTo("videos") \/ (Found /\ Form("videos", "update"))

StreamsList == At("streams", "list") /\ (Refetch \/ Shows("streams"))

\* Mutant: any stream can be killed that has not ended.
KillsIdle == ~Sees({"ended"}) /\ Send("kill", {page.id}, "fetch", {})

\* The page keeps showing what it loaded, and with it the button.
HandleKillStream == Sees({"live"}) /\ Send("kill", {page.id}, "fetch", {})
HandleStreamBan == Send("stream ban", {page.id}, "fetch", {"close"})

StreamsShow ==
    \/ /\ At("streams", "show")
       /\ BackTo("streams") \/ (Found /\ (HandleKillStream \/ Opens({"ban"})))
    \/ In("streams", "show", "ban") /\ (HandleStreamBan \/ Cancel)

HandleChatBan == In("chat-messages", "list", "ban") /\ Send("chat ban", {}, "fetch", {"close"})
HandlePurgeStream == In("chat-messages", "list", "purge") /\ Send("purge", {}, "fetch", {"close"})

ChatMessagesList ==
    \/ /\ At("chat-messages", "list")
       /\ \/ Refetch \/ Shows("chat-messages") \/ Opens({"ban", "purge"})
          \/ Deletes("chat-messages", "hook", {"refetch"})
    \/ HandleChatBan \/ HandlePurgeStream
    \/ page.res = "chat-messages" /\ Cancel

CategoriesList ==
    /\ At("categories", "list")
    /\ \/ Refetch \/ Edits("categories") \/ Push("categories", "create")
       \/ Deletes("categories", "fetch", {"refetch"})
CategoriesShow ==
    /\ At("categories", "show")
    /\ \/ BackTo("categories") \/ Edits("categories")
       \/ Deletes("categories", "fetch", {"leave"})
\* It draws its form, empty, whether or not there is such a category.
CategoriesEdit ==
    /\ At("categories", "edit") /\ page.seen # "loading"
    /\ BackTo("categories") \/ Form("categories", "update")
CategoriesCreate ==
    At("categories", "create") /\ (BackTo("categories") \/ Form("categories", "create"))

HandleUpdateStatus ==
    \E s \in {"resolved", "dismissed"} : Send(s, {"reports"}, "fetch", {"refetch"})
ReportsList ==
    /\ At("reports", "list")
    /\ Refetch \/ Shows("reports") \/ (Sees({"pending"}) /\ HandleUpdateStatus)

(***************************************************************************)
(* Money: transactions, payouts, subscriptions.                            *)
(***************************************************************************)
TransactionsList == At("transactions", "list") /\ (Refetch \/ Shows("transactions"))

HandleRefund == SendBusy("refund", {"transactions"}, {"close"})
TransactionsShow ==
    \/ /\ At("transactions", "show")
       /\ BackTo("transactions") \/ (Sees({"completed"}) /\ Opens({"refund"}))
    \/ In("transactions", "show", "refund") /\ (HandleRefund \/ Cancel)

PayoutsList ==
    At("payouts", "list") /\ (Refetch \/ Push("payouts", "create"))
HandleFinishPayout == SendBusy("pay out", {}, {"leave"})
PayoutsCreate == At("payouts", "create") /\ (BackTo("payouts") \/ HandleFinishPayout)

HandleCancel == Send("cancel", {}, "fetch", {"refetch"})
SubscriptionsList ==
    /\ At("subscriptions", "list")
    /\ Refetch \/ Shows("subscriptions") \/ (Found /\ HandleCancel)

(***************************************************************************)
(* Templates and requests for verification.                                *)
(***************************************************************************)
TemplatesList ==
    /\ At("templates", "list")
    /\ \/ Refetch \/ Edits("templates") \/ Push("templates", "create")
       \/ Deletes("templates", "fetch", {"refetch"})
TemplatesEdit ==
    At("templates", "edit") /\ (BackTo("templates") \/ (Found /\ Form("templates", "update")))
TemplatesCreate ==
    At("templates", "create") /\ (BackTo("templates") \/ Form("templates", "create"))

HandleAction ==
    /\ page.modal \in {"approve", "reject"} /\ ~Pending({"approve", "reject"})
    /\ Send(page.modal, {"creator-verification"}, "hook", {"close", "refetch"})
CreatorVerificationList ==
    \/ /\ At("creator-verification", "list")
       /\ \/ Refetch \/ Shows("creator-verification")
          \/ Sees({"pending"}) /\ Opens({"approve", "reject"})
    \/ page.res = "creator-verification" /\ (HandleAction \/ Cancel)

(***************************************************************************)
(* Pages of a single record that the server does not serve: they find      *)
(* nothing and lead back.                                                  *)
(***************************************************************************)
NotFound(res) == At(res, "show") /\ Sees({"missing"}) /\ BackTo(res)
ReportsShow == NotFound("reports")
CreatorVerificationShow == NotFound("creator-verification")
ChatMessagesShow == NotFound("chat-messages")
SubscriptionsShow == NotFound("subscriptions")

(***************************************************************************)
(* E-mail and storage.  These are no resources of refine's: the links to   *)
(* show, to edit and to create one lead nowhere, and their other pages are *)
(* reached by their address alone.                                         *)
(***************************************************************************)
EmailProviders ==
    /\ At("email/providers", "list")
    /\ Refetch \/ Deletes("email/providers", "fetch", {"refetch"})
EmailTemplates ==
    /\ At("email/templates", "list")
    /\ Refetch \/ Deletes("email/templates", "fetch", {"refetch"})
EmailLog == Filtered("email/log")

Tested(res, op) == Found /\ Send(op, {}, "fetch", {"refetch"})
StorageProviders ==
    /\ At("storage/providers", "list")
    /\ \/ Refetch \/ Deletes("storage/providers", "fetch", {"refetch"})
       \/ Tested("storage/providers", "test")
StorageBuckets ==
    /\ At("storage/buckets", "list")
    /\ \/ Refetch \/ Deletes("storage/buckets", "fetch", {"refetch"})
       \/ Tested("storage/buckets", "sync")
StorageDashboard ==
    At("storage", "list") /\ (Refetch \/ Send("health", {}, "fetch", {"refetch"}))

RoutingRulesPage ==
    \/ /\ At("storage/routing", "list")
       /\ \/ Refetch \/ Opens({"new"}) \/ (Found /\ Opens({"edit"}))
          \/ Deletes("storage/routing", "fetch", {"refetch"})
    \/ In("storage/routing", "list", "new") /\ (Cancel \/ Send("create", {}, "fetch", {"close", "refetch"}))
    \/ In("storage/routing", "list", "edit") /\ (Cancel \/ Send("update", {}, "fetch", {"close", "refetch"}))

CreatePage(res) == At(res, "create") /\ SendBusy("create", {}, {})
CreateEmailProvider == CreatePage("email/providers")
CreateEmailTemplate == CreatePage("email/templates")
CreateStorageProvider == CreatePage("storage/providers")
CreateBucket == CreatePage("storage/buckets")

(***************************************************************************)
(* The address bar: the pages no link leads to, in a new document.         *)
(***************************************************************************)
NoLink ==
    {<<"email/templates", "list">>, <<"email/log", "list">>, <<"storage", "list">>,
     <<"categories", "show">>}
    \cup {<<r, "create">> : r \in {"email/providers", "email/templates",
                                   "storage/providers", "storage/buckets"}}

TypeAddress ==
    /\ \E p \in {Mounted(n[1], n[2], n[1]) : n \in NoLink}
                \cup {Mounted("users", "show", u) : u \in Users} : page' = p
    /\ calls' = Unloaded(calls)
    /\ Keeps

-----------------------------------------------------------------------------
Pages ==
    \/ OnFinish \/ ResourcesLayout \/ DashboardPage
    \/ UsersList \/ BulkModal \/ UsersShow \/ BanModal \/ UsersEdit \/ UsersCreate
    \/ VideosList \/ VideosShow \/ VideosEdit \/ StreamsList \/ StreamsShow
    \/ ChatMessagesList \/ ReportsList
    \/ CategoriesList \/ CategoriesShow \/ CategoriesEdit \/ CategoriesCreate
    \/ TransactionsList \/ TransactionsShow \/ PayoutsList \/ PayoutsCreate \/ SubscriptionsList
    \/ TemplatesList \/ TemplatesEdit \/ TemplatesCreate \/ CreatorVerificationList
    \/ ReportsShow \/ CreatorVerificationShow \/ ChatMessagesShow \/ SubscriptionsShow
    \/ EmailProviders \/ EmailTemplates \/ EmailLog
    \/ StorageProviders \/ StorageBuckets \/ StorageDashboard \/ RoutingRulesPage
    \/ CreateEmailProvider \/ CreateEmailTemplate \/ CreateStorageProvider \/ CreateBucket

Next ==
    \/ Pages \/ Load \/ LoadRefused \/ TypeAddress
    \/ \E c \in calls : Serve(c) \/ Answer(c)
    \/ World

Spec == Init /\ [][Next]_vars

\* The browser ends every request, if only by giving it up.
Answered == \E c \in calls : Answer(c)
FairSpec == Spec /\ WF_vars(Answered)

-----------------------------------------------------------------------------
\* The modal of a bulk never stands over an empty selection: when an answer that comes
\* late empties it, whatever modal is up by then goes too.
BulkHasRows ==
    page.res = "users" /\ page.kind = "list" /\ page.modal # "none" => page.ticked # {}

\* Buttons drawn from an old status still only undo what has happened: a stream ends
\* only after it was live, and money goes back only for a payment that was completed.
EndsWereEarned ==
    /\ rows["streams"] = "ended" => "streams" \in been
    /\ rows["transactions"] = "refunded" => "transactions" \in been

\* A button that shows that it is waiting comes back, or its page was left.
BusyEnds == page.busy ~> ~page.busy
=============================================================================
