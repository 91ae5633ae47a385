-------------------------- MODULE AdminConsoleProof --------------------------
(***************************************************************************)
(* Theorems about AdminConsole, for all sets of users and all bounds.      *)
(*                                                                         *)
(* What the console knows of the server is old, so the invariant says of   *)
(* the page and of every request under way what they still have in common  *)
(* with the records: a page that shows a live stream, and a request to     *)
(* kill one, date from a time when it was live, and every request asks of  *)
(* a record only what can be asked of one of its kind.                     *)
(***************************************************************************)
EXTENDS AdminConsole, TLAPS

StreamStatuses == {"idle", "live", "ended"}
ReportStatuses == {"pending", "resolved", "dismissed"}
MoneyStatuses == {"pending", "completed", "failed", "refunded"}
RequestStatuses == {"pending", "approved", "rejected"}
UserOps == {"suspend", "role", "verify", "ban", "unban", "notes", "update"} \cup UserStatuses

RowsOK ==
    /\ rows \in [Records -> Statuses]
    /\ \A u \in Users : rows[u] \in UserStatuses
    /\ rows["streams"] \in StreamStatuses
    /\ rows["reports"] \in ReportStatuses
    /\ rows["transactions"] \in MoneyStatuses
    /\ rows["creator-verification"] \in RequestStatuses
    /\ rows["streams"] \in {"live", "ended"} => "streams" \in been
    /\ rows["transactions"] \in {"completed", "refunded"} => "transactions" \in been

Single(p) == p.res = "users" /\ p.kind \in {"show", "edit"}

PageOK(p, been_) ==
    /\ p \in PageTypes
    /\ p.res # "users" => p.id = p.res
    /\ Single(p) => p.id \in Users
    /\ p.seen = "live" => "streams" \in been_
    /\ p.res = "users" /\ p.kind = "list" /\ p.modal # "none" => p.ticked # {}

\* What may be asked of which record.
Asks(op, ids, been_) ==
    \/ ids \subseteq Users /\ op \in UserOps
    \/ ids = {} /\ op \in Ops
    \/ ids = {"streams"} /\ op = "stream ban"
    \/ ids = {"streams"} /\ op = "kill" /\ "streams" \in been_
    \/ ids = {"reports"} /\ op \in {"resolved", "dismissed"}
    \/ ids = {"transactions"} /\ op = "refund"
    \/ ids = {"creator-verification"} /\ op \in {"approve", "reject"}

CallOK(c, been_) ==
    /\ c \in CallTypes
    /\ Asks(c.op, c.ids, been_)
    /\ "untick" \in c.then => "close" \in c.then

ConsoleInv ==
    /\ token \in BOOLEAN
    /\ PageOK(page, been)
    /\ \A c \in calls : CallOK(c, been)
    /\ RowsOK
    /\ changes \in 0..MaxChanges
    /\ been \subseteq {"streams", "transactions"}

\* A step of the console alone.
Clicks ==
    /\ token' \in BOOLEAN
    /\ PageOK(page', been)
    /\ \A c \in calls' : CallOK(c, been)
    /\ UNCHANGED server

LEMMA ClicksKeeps ==
    ASSUME ConsoleInv, Clicks
    PROVE  ConsoleInv'
BY DEF ConsoleInv, Clicks, server, RowsOK

(***************************************************************************)
(* Sets of names.                                                          *)
(***************************************************************************)
LEMMA OpsOfUsers == UserOps \subseteq Ops
BY DEF UserOps, Ops, UserStatuses, Statuses, Modals

LEMMA NoUserIsATable ==
    ASSUME NEW u \in Users
    PROVE  u \notin {"users", "streams", "reports", "transactions", "creator-verification"}
BY UsersAreNoTables DEF Resources, Tables

LEMMA TablesAreRecords ==
    {"streams", "reports", "transactions", "creator-verification"} \subseteq Records
BY DEF Records, Tables

LEMMA InitInv == Init => ConsoleInv
<1> SUFFICES ASSUME Init PROVE ConsoleInv
  OBVIOUS
<1>1. PageOK(page, been)
  BY DEF Init, LoginPage, Mounted, PageOK, PageTypes, Single, Places, Kinds, Modals
<1>2. \A r \in Records : FirstStatus(r) \in Statuses
  BY DEF FirstStatus, Statuses, UserStatuses
<1>3. /\ \A u \in Users : FirstStatus(u) = "active"
      /\ FirstStatus("streams") = "idle"
      /\ \A r \in {"reports", "transactions", "creator-verification"} : FirstStatus(r) = "pending"
  BY NoUserIsATable DEF FirstStatus
<1>4. RowsOK
  BY <1>2, <1>3, TablesAreRecords
     DEF Init, RowsOK, Records, UserStatuses, StreamStatuses, ReportStatuses, MoneyStatuses,
         RequestStatuses
<1>5. token \in BOOLEAN /\ calls = {} /\ been \subseteq {"streams", "transactions"}
  BY DEF Init
<1>6. changes \in 0..MaxChanges
  BY MaxChangesIsNat DEF Init
<1> QED BY <1>1, <1>4, <1>5, <1>6 DEF ConsoleInv

(***************************************************************************)
(* Navigation.                                                             *)
(***************************************************************************)
LEMMA SilentOK ==
    ASSUME NEW c, CallOK(c, been)
    PROVE  CallOK(Silent(c), been) /\ CallOK(Unheard(c), been)
<1>1. c \in CallTypes /\ c.then \subseteq Effects
  BY DEF CallOK, CallTypes
<1>2. /\ Silent(c) \in CallTypes /\ Silent(c).op = c.op /\ Silent(c).ids = c.ids
      /\ "untick" \notin Silent(c).then
  BY <1>1 DEF Silent, CallTypes
<1>3. /\ Unheard(c) \in CallTypes /\ Unheard(c).op = c.op /\ Unheard(c).ids = c.ids
      /\ Unheard(c).then = {}
  BY <1>1 DEF Unheard, CallTypes
<1> QED BY <1>2, <1>3 DEF CallOK

LEMMA LeftOK ==
    ASSUME NEW cs, \A c \in cs : CallOK(c, been)
    PROVE  /\ \A c \in Left(cs) : CallOK(c, been)
           /\ \A c \in Unloaded(cs) : CallOK(c, been)
BY SilentOK DEF Left, Unloaded

LEMMA MountedOK ==
    ASSUME NEW res \in Places, NEW kind \in Kinds, NEW id \in Places \cup Users,
           res # "users" => id = res,
           res = "users" /\ kind \in {"show", "edit"} => id \in Users
    PROVE  PageOK(Mounted(res, kind, id), been)
BY DEF PageOK, PageTypes, Mounted, Single, Modals

LEMMA MountClicks ==
    ASSUME ConsoleInv, NEW p, PageOK(p, been), NEW cs \in SUBSET calls, Mount(p, cs),
           token' \in BOOLEAN, UNCHANGED server
    PROVE  Clicks
<1>1. \A c \in Left(cs) : CallOK(c, been)
  BY LeftOK DEF ConsoleInv
<1> QED BY <1>1 DEF Mount, Clicks

LEMMA PushClicks ==
    ASSUME ConsoleInv, NEW res \in Places, NEW kind \in Kinds, Push(res, kind),
           res = "users" => kind \in {"list", "create"}
    PROVE  Clicks
<1>1. PageOK(Mounted(res, kind, res), been)
  BY MountedOK
<1> QED BY <1>1, MountClicks DEF Push, Keeps, ConsoleInv

LEMMA PushUserClicks ==
    ASSUME ConsoleInv, NEW kind \in {"show", "edit"}, NEW u \in Users, PushUser(kind, u)
    PROVE  Clicks
<1>1. PageOK(Mounted("users", kind, u), been)
  BY MountedOK DEF Places, Resources, Kinds
<1> QED BY <1>1, MountClicks DEF PushUser, Keeps, ConsoleInv

LEMMA SignedOutClicks ==
    ASSUME ConsoleInv, NEW cs \in SUBSET calls, SignedOut(cs)
    PROVE  Clicks
<1>1. PageOK(LoginPage, been)
  BY MountedOK DEF LoginPage, Places, Kinds
<1> QED BY <1>1, MountClicks DEF SignedOut

LEMMA TypeAddressClicks ==
    ASSUME ConsoleInv, TypeAddress
    PROVE  Clicks
<1>1. PICK p \in {Mounted(n[1], n[2], n[1]) : n \in NoLink}
                 \cup {Mounted("users", "show", u) : u \in Users} : page' = p
  BY DEF TypeAddress
<1>2. \A n \in NoLink : n[1] \in Places /\ n[2] \in Kinds /\ n[1] # "users"
  BY DEF NoLink, Places, Resources, Tables, Plain, Kinds
<1>3. CASE p \in {Mounted(n[1], n[2], n[1]) : n \in NoLink}
  <2>1. PICK n \in NoLink : p = Mounted(n[1], n[2], n[1])
    BY <1>3
  <2> QED BY <1>1, <2>1, <1>2, MountedOK, LeftOK DEF TypeAddress, Keeps, Clicks, ConsoleInv
<1>4. CASE p \in {Mounted("users", "show", u) : u \in Users}
  <2>1. PICK u \in Users : p = Mounted("users", "show", u)
    BY <1>4
  <2>2. PageOK(p, been)
    BY <2>1, MountedOK DEF Places, Resources, Kinds
  <2> QED BY <1>1, <2>2, LeftOK DEF TypeAddress, Keeps, Clicks, ConsoleInv
<1> QED BY <1>3, <1>4

(***************************************************************************)
(* Changing the page, and sending.                                         *)
(***************************************************************************)
LEMMA OpensClicks ==
    ASSUME ConsoleInv, NEW modals \in SUBSET Modals, Opens(modals),
           page.res # "users" \/ page.kind # "list" \/ page.ticked # {}
    PROVE  Clicks
BY DEF Opens, Set, Keeps, Clicks, ConsoleInv, PageOK, PageTypes, Single

LEMMA CancelClicks ==
    ASSUME ConsoleInv, Cancel
    PROVE  Clicks
BY DEF Cancel, Set, Keeps, Clicks, ConsoleInv, PageOK, PageTypes, Single, Modals

LEMMA RefetchClicks ==
    ASSUME ConsoleInv, Refetch
    PROVE  Clicks
BY DEF Refetch, Set, Keeps, Clicks, ConsoleInv, PageOK, PageTypes, Single

LEMMA TickClicks ==
    ASSUME ConsoleInv, TickRows, page.modal = "none"
    PROVE  Clicks
BY DEF TickRows, Set, Keeps, Clicks, ConsoleInv, PageOK, PageTypes, Single

LEMMA NewCallOK ==
    ASSUME ConsoleInv, NEW op \in Ops, NEW ids \in SUBSET Records, Asks(op, ids, been),
           NEW via \in {"hook", "fetch"}, NEW then \in SUBSET Effects,
           "untick" \in then => "close" \in then
    PROVE  CallOK(Call(op, ids, via, then), been)
<1>1. page.res \in Places /\ token \in BOOLEAN
  BY DEF ConsoleInv, PageOK, PageTypes
<1> QED BY <1>1 DEF CallOK, CallTypes, Call

LEMMA SendClicks ==
    ASSUME ConsoleInv, NEW op \in Ops, NEW ids \in SUBSET Records, Asks(op, ids, been),
           NEW via \in {"hook", "fetch"}, NEW then \in SUBSET Effects,
           "untick" \in then => "close" \in then,
           Send(op, ids, via, then)
    PROVE  Clicks
<1>1. CallOK(Call(op, ids, via, then), been)
  BY NewCallOK
<1> QED BY <1>1 DEF Send, Keeps, Clicks, ConsoleInv

LEMMA SendBusyClicks ==
    ASSUME ConsoleInv, NEW op \in Ops, NEW ids \in SUBSET Records, Asks(op, ids, been),
           NEW then \in SUBSET Effects, "untick" \in then => "close" \in then,
           SendBusy(op, ids, then)
    PROVE  Clicks
<1>1. CallOK(Call(op, ids, "fetch", then), been)
  BY NewCallOK
<1>2. PageOK([page EXCEPT !.busy = TRUE], been)
  BY DEF ConsoleInv, PageOK, PageTypes, Single
<1> QED BY <1>1, <1>2 DEF SendBusy, Keeps, Clicks, ConsoleInv

\* Most requests are about no record whose status matters.
LEMMA SendPlainClicks ==
    ASSUME ConsoleInv, NEW op \in Ops, NEW via \in {"hook", "fetch"},
           NEW then \in SUBSET Effects, "untick" \notin then,
           Send(op, {}, via, then)
    PROVE  Clicks
BY SendClicks DEF Asks

LEMMA UserCallClicks ==
    ASSUME ConsoleInv, NEW op \in UserOps, NEW ids \in SUBSET Users,
           NEW via \in {"hook", "fetch"}, NEW then \in SUBSET Effects,
           "untick" \in then => "close" \in then,
           Send(op, ids, via, then)
    PROVE  Clicks
<1>1. op \in Ops /\ ids \in SUBSET Records
  BY OpsOfUsers DEF Records
<1>2. Asks(op, ids, been)
  BY DEF Asks
<1> QED BY <1>1, <1>2, SendClicks

(***************************************************************************)
(* The pages.                                                              *)
(***************************************************************************)
PlainOps == {"delete", "update", "create", "create user", "chat ban", "purge", "pay out",
             "cancel", "test", "sync", "health", "export"}

LEMMA PlainOpsAreOps == PlainOps \subseteq Ops
BY DEF PlainOps, Ops, Modals

LEMMA PlacesAre ==
    /\ Resources \subseteq Places
    /\ {"users", "videos", "streams", "chat-messages", "categories", "templates", "payouts",
        "subscriptions", "reports", "transactions", "creator-verification",
        "email/providers", "email/templates", "storage/providers", "storage/buckets"}
       \subseteq Resources
    /\ {"home", "login", "storage"} \subseteq Places
    /\ Kinds = {"list", "show", "edit", "create"}
BY DEF Places, Resources, Tables, Plain, Kinds

LEMMA LinksClick ==
    ASSUME ConsoleInv, NEW res \in Resources,
           \/ Push(res, "list") \/ Push(res, "create") \/ BackTo(res)
           \/ res # "users" /\ (Shows(res) \/ Edits(res))
    PROVE  Clicks
BY PushClicks, PlacesAre DEF BackTo, Shows, Edits

LEMMA FrameClicks ==
    ASSUME ConsoleInv, OnFinish \/ ResourcesLayout \/ DashboardPage
    PROVE  Clicks
<1>1. CASE OnFinish
  <2>1. PageOK(Mounted("users", "list", "users"), been)
    BY MountedOK, PlacesAre
  <2> QED BY <1>1, <2>1, MountClicks DEF OnFinish, Login
<1>2. CASE HandleMenuClick
  <2>1. MenuItems \subseteq Places
    BY PlacesAre DEF MenuItems
  <2> QED BY <1>2, <2>1, PushClicks, PlacesAre DEF HandleMenuClick
<1>3. CASE HandleLogout
  BY <1>3, SignedOutClicks DEF HandleLogout
<1>4. CASE DashboardPage
  BY <1>4, LinksClick, PlacesAre DEF DashboardPage
<1> QED BY <1>1, <1>2, <1>3, <1>4 DEF ResourcesLayout

LEMMA UsersListClicks ==
    ASSUME ConsoleInv, UsersList \/ BulkModal
    PROVE  Clicks
<1>1. page.ticked \in SUBSET Users /\ After \subseteq Effects
  BY DEF ConsoleInv, PageOK, PageTypes, After, Effects
<1>2. CASE HandleBulkAction
  <2>1. \E op \in {"suspend", "role", "verify"}, via \in {"hook", "fetch"} :
           Send(op, page.ticked, via, After)
    BY <1>2 DEF HandleBulkAction
  <2> QED BY <1>1, <2>1, UserCallClicks DEF UserOps, After
<1>3. CASE UsersList
  <2>1. page.modal = "none"
    BY <1>3 DEF UsersList, At
  <2>2. CASE HandleExportCSV
    <3>1. "export" \in Ops
      BY DEF Ops
    <3>2. {} \in SUBSET Effects /\ "untick" \notin {}
      OBVIOUS
    <3> QED BY <2>2, <3>1, <3>2, SendPlainClicks DEF HandleExportCSV
  <2>3. CASE \E u \in Users : PushUser("edit", u)
    BY <2>3, PushUserClicks
  <2>4. CASE page.ticked # {} /\ Opens({"ban", "role", "verify"})
    BY <2>4, OpensClicks DEF Modals
  <2> QED BY <1>3, <2>1, <2>2, <2>3, <2>4, RefetchClicks, TickClicks DEF UsersList
<1> QED BY <1>2, <1>3, CancelClicks DEF BulkModal

LEMMA UserPagesClick ==
    ASSUME ConsoleInv, UsersShow \/ BanModal \/ UsersEdit \/ UsersCreate
    PROVE  Clicks
<1>1. CASE UsersCreate
  BY <1>1, LinksClick, SendPlainClicks, PlainOpsAreOps, PlacesAre
     DEF UsersCreate, Form, PlainOps, Effects
<1>2. CASE BackTo("users") \/ Cancel
  BY <1>2, LinksClick, CancelClicks, PlacesAre
<1>3. CASE Single(page) /\ \E op \in UserOps, via \in {"hook", "fetch"},
                             then \in SUBSET {"leave", "close", "refetch"} :
                             Send(op, {page.id}, via, then)
  <2>1. {page.id} \in SUBSET Users
    BY <1>3 DEF ConsoleInv, PageOK
  <2> QED BY <1>3, <2>1, UserCallClicks DEF Effects
<1>4. CASE page.kind = "show" /\ Opens({"ban"})
  BY <1>4, OpensClicks DEF Modals
<1>5. ASSUME UsersShow PROVE Clicks
  <2>1. Single(page) /\ page.kind = "show"
    BY <1>5 DEF UsersShow, At, Single
  <2>2. CASE BanCard
    BY <2>1, <2>2, <1>3, <1>4 DEF BanCard, HandleUnban, UserOps
  <2>3. CASE HandleToggleVerify \/ HandleSaveNotes
    BY <2>1, <2>3, <1>3 DEF HandleToggleVerify, HandleSaveNotes, UserOps
  <2>4. CASE HandleFinishUser
    BY <2>1, <2>4, <1>3 DEF HandleFinishUser, UserOps
  <2> QED BY <1>5, <1>2, <2>2, <2>3, <2>4 DEF UsersShow
<1>6. CASE BanModal
  <2>1. Single(page)
    BY <1>6 DEF BanModal, In, Single
  <2> QED BY <1>6, <2>1, <1>2, <1>3 DEF BanModal, HandleBan, UserOps
<1>7. CASE UsersEdit
  <2>1. Single(page)
    BY <1>7 DEF UsersEdit, At, Single
  <2> QED BY <1>7, <2>1, <1>2, <1>3 DEF UsersEdit, HandleFinishEdit, ToggleVerifyEdit, UserOps
<1> QED BY <1>1, <1>5, <1>6, <1>7

LEMMA StreamPagesClick ==
    ASSUME ConsoleInv, StreamsList \/ StreamsShow
    PROVE  Clicks
<1>1. CASE StreamsList
  BY <1>1, RefetchClicks, LinksClick, PlacesAre DEF StreamsList
<1>2. CASE StreamsShow
  <2>1. page.res = "streams" /\ page.id = "streams"
    BY <1>2 DEF StreamsShow, At, In, ConsoleInv, PageOK
  <2>2. CASE HandleKillStream
    <3>1. Asks("kill", {page.id}, been)
      BY <2>1, <2>2 DEF HandleKillStream, Sees, Asks, ConsoleInv, PageOK
    <3>2. "kill" \in Ops /\ {page.id} \in SUBSET Records
      BY <2>1, TablesAreRecords DEF Ops
    <3>3. {} \in SUBSET Effects /\ "untick" \notin {}
      OBVIOUS
    <3> QED BY <2>2, <3>1, <3>2, <3>3, SendClicks DEF HandleKillStream
  <2>3. CASE HandleStreamBan
    <3>1. Asks("stream ban", {page.id}, been)
      BY <2>1 DEF Asks
    <3> QED BY <2>1, <2>3, <3>1, SendClicks, TablesAreRecords
            DEF HandleStreamBan, Ops, Effects
  <2>4. CASE Opens({"ban"})
    BY <2>1, <2>4, OpensClicks DEF Modals
  <2> QED BY <1>2, <2>2, <2>3, <2>4, LinksClick, CancelClicks, PlacesAre DEF StreamsShow
<1> QED BY <1>1, <1>2

LEMMA ContentPagesClick ==
    ASSUME ConsoleInv,
           \/ VideosList \/ VideosShow \/ VideosEdit \/ ChatMessagesList
           \/ CategoriesList \/ CategoriesShow \/ CategoriesEdit \/ CategoriesCreate
           \/ TemplatesList \/ TemplatesEdit \/ TemplatesCreate
    PROVE  Clicks
<1>1. CASE \E op \in {"delete", "update", "create", "chat ban", "purge"},
              via \in {"hook", "fetch"}, then \in SUBSET {"leave", "close", "refetch"} :
              Send(op, {}, via, then)
  BY <1>1, SendPlainClicks, PlainOpsAreOps DEF PlainOps, Effects
<1>2. CASE \E res \in Resources \ {"users"} :
              \/ Push(res, "list") \/ Push(res, "create") \/ BackTo(res)
              \/ Shows(res) \/ Edits(res)
  BY <1>2, LinksClick
<1>3. CASE VideosList \/ VideosShow \/ VideosEdit
  BY <1>1, <1>2, <1>3, RefetchClicks, PlacesAre
     DEF VideosList, VideosShow, VideosEdit, DeleteVideo, Deletes, Form
<1>4. CASE ChatMessagesList
  <2>1. CASE At("chat-messages", "list") /\ Opens({"ban", "purge"})
    BY <2>1, OpensClicks DEF At, Modals
  <2> QED BY <1>1, <1>2, <1>4, <2>1, RefetchClicks, CancelClicks, PlacesAre
          DEF ChatMessagesList, HandleChatBan, HandlePurgeStream, Deletes
<1>5. CASE CategoriesList \/ CategoriesShow \/ CategoriesEdit \/ CategoriesCreate
  BY <1>1, <1>2, <1>5, RefetchClicks, PlacesAre
     DEF CategoriesList, CategoriesShow, CategoriesEdit, CategoriesCreate, Deletes, Form
<1>6. CASE TemplatesList \/ TemplatesEdit \/ TemplatesCreate
  BY <1>1, <1>2, <1>6, RefetchClicks, PlacesAre
     DEF TemplatesList, TemplatesEdit, TemplatesCreate, Deletes, Form
<1> QED BY <1>3, <1>4, <1>5, <1>6

LEMMA DecisionPagesClick ==
    ASSUME ConsoleInv, ReportsList \/ CreatorVerificationList
    PROVE  Clicks
<1>1. CASE ReportsList
  <2>1. CASE HandleUpdateStatus
    <3>1. PICK s \in {"resolved", "dismissed"} : Send(s, {"reports"}, "fetch", {"refetch"})
      BY <2>1 DEF HandleUpdateStatus
    <3>2. Asks(s, {"reports"}, been) /\ s \in Ops
      BY DEF Asks, Ops, Statuses
    <3> QED BY <3>1, <3>2, SendClicks, TablesAreRecords DEF Effects
  <2> QED BY <1>1, <2>1, RefetchClicks, LinksClick, PlacesAre DEF ReportsList
<1>2. CASE CreatorVerificationList
  <2>1. CASE HandleAction
    <3>1. PICK op \in {"approve", "reject"} :
            Send(op, {"creator-verification"}, "hook", {"close", "refetch"})
      BY <2>1 DEF HandleAction
    <3>2. Asks(op, {"creator-verification"}, been) /\ op \in Ops
      BY DEF Asks, Ops, Modals
    <3> QED BY <3>1, <3>2, SendClicks, TablesAreRecords DEF Effects
  <2>2. CASE At("creator-verification", "list") /\ Opens({"approve", "reject"})
    BY <2>2, OpensClicks DEF At, Modals
  <2> QED BY <1>2, <2>1, <2>2, RefetchClicks, LinksClick, CancelClicks, PlacesAre
          DEF CreatorVerificationList
<1> QED BY <1>1, <1>2

LEMMA MoneyPagesClick ==
    ASSUME ConsoleInv,
           TransactionsList \/ TransactionsShow \/ PayoutsList \/ PayoutsCreate \/ SubscriptionsList
    PROVE  Clicks
<1>1. CASE TransactionsList \/ PayoutsList
  BY <1>1, RefetchClicks, LinksClick, PlacesAre DEF TransactionsList, PayoutsList
<1>2. CASE SubscriptionsList
  BY <1>2, RefetchClicks, LinksClick, SendPlainClicks, PlainOpsAreOps, PlacesAre
     DEF SubscriptionsList, HandleCancel, PlainOps, Effects
<1>3. CASE PayoutsCreate
  <2>1. Asks("pay out", {}, been) /\ "pay out" \in Ops
    BY PlainOpsAreOps DEF Asks, PlainOps
  <2>2. CASE HandleFinishPayout
    BY <2>1, <2>2, SendBusyClicks DEF HandleFinishPayout, Effects
  <2> QED BY <1>3, <2>2, LinksClick, PlacesAre DEF PayoutsCreate
<1>4. CASE TransactionsShow
  <2>1. Asks("refund", {"transactions"}, been) /\ "refund" \in Ops
    BY DEF Asks, Ops, Modals
  <2>2. CASE HandleRefund
    BY <2>1, <2>2, SendBusyClicks, TablesAreRecords DEF HandleRefund, Effects
  <2>3. CASE At("transactions", "show") /\ Opens({"refund"})
    BY <2>3, OpensClicks DEF At, Modals
  <2> QED BY <1>4, <2>2, <2>3, LinksClick, CancelClicks, PlacesAre DEF TransactionsShow
<1> QED BY <1>1, <1>2, <1>3, <1>4

LEMMA ServicePagesClick ==
    ASSUME ConsoleInv,
           \/ EmailProviders \/ EmailTemplates \/ EmailLog
           \/ StorageProviders \/ StorageBuckets \/ StorageDashboard \/ RoutingRulesPage
           \/ CreateEmailProvider \/ CreateEmailTemplate \/ CreateStorageProvider \/ CreateBucket
    PROVE  Clicks
<1>1. CASE \E op \in {"delete", "update", "create", "test", "sync", "health"},
              then \in SUBSET {"close", "refetch"} : Send(op, {}, "fetch", then)
  BY <1>1, SendPlainClicks, PlainOpsAreOps DEF PlainOps, Effects
<1>2. CASE EmailProviders \/ EmailTemplates \/ EmailLog
  BY <1>1, <1>2, RefetchClicks DEF EmailProviders, EmailTemplates, EmailLog, Filtered, Deletes
<1>3. CASE StorageProviders \/ StorageBuckets \/ StorageDashboard
  BY <1>1, <1>3, RefetchClicks
     DEF StorageProviders, StorageBuckets, StorageDashboard, Deletes, Tested
<1>4. CASE RoutingRulesPage
  <2>1. CASE At("storage/routing", "list") /\ (Opens({"new"}) \/ Opens({"edit"}))
    BY <2>1, OpensClicks DEF At, Modals
  <2> QED BY <1>1, <1>4, <2>1, RefetchClicks, CancelClicks DEF RoutingRulesPage, Deletes
<1>5. ASSUME NEW res, CreatePage(res) PROVE Clicks
  <2>1. Asks("create", {}, been) /\ "create" \in Ops
    BY PlainOpsAreOps DEF Asks, PlainOps
  <2> QED BY <1>5, <2>1, SendBusyClicks DEF CreatePage
<1> QED BY <1>2, <1>3, <1>4, <1>5
        DEF CreateEmailProvider, CreateEmailTemplate, CreateStorageProvider, CreateBucket

LEMMA NotFoundPagesClick ==
    ASSUME ConsoleInv,
           ReportsShow \/ CreatorVerificationShow \/ ChatMessagesShow \/ SubscriptionsShow
    PROVE  Clicks
BY LinksClick, PlacesAre
   DEF ReportsShow, CreatorVerificationShow, ChatMessagesShow, SubscriptionsShow, NotFound

LEMMA PagesClick ==
    ASSUME ConsoleInv, Pages
    PROVE  Clicks
BY FrameClicks, UsersListClicks, UserPagesClick, StreamPagesClick, ContentPagesClick,
   DecisionPagesClick, MoneyPagesClick, ServicePagesClick, NotFoundPagesClick DEF Pages

(***************************************************************************)
(* Loading and answers.                                                    *)
(***************************************************************************)
LEMMA LoadClicks ==
    ASSUME ConsoleInv, Load \/ LoadRefused
    PROVE  Clicks
<1>1. CASE Load
  <2>1. PICK s \in Loaded : page' = [page EXCEPT !.seen = s, !.fetching = FALSE]
    BY <1>1 DEF Load
  <2>2. s \in Statuses \cup {"there", "missing"} /\ (s = "live" => "streams" \in been)
    <3>1. CASE s \in {"there", "missing"}
      BY <3>1
    <3>2. CASE page.id \in Records /\ s = rows[page.id]
      <4>1. s \in Statuses
        BY <3>2 DEF ConsoleInv, RowsOK
      <4>2. s = "live" => "streams" \in been
        BY <3>2 DEF ConsoleInv, RowsOK, Records, Tables, UserStatuses, StreamStatuses,
                    ReportStatuses, MoneyStatuses, RequestStatuses
      <4> QED BY <4>1, <4>2
    <3> QED BY <2>1, <3>1, <3>2 DEF Loaded
  <2>3. PageOK(page', been)
    BY <2>1, <2>2 DEF ConsoleInv, PageOK, PageTypes, Single
  <2> QED BY <1>1, <2>3 DEF Load, Clicks, ConsoleInv
<1>2. CASE LoadRefused
  BY <1>2, SignedOutClicks DEF LoadRefused, OnError
<1> QED BY <1>1, <1>2

LEMMA AnswerClicks ==
    ASSUME ConsoleInv, NEW c \in calls, Answer(c)
    PROVE  Clicks
<1>1. CallOK(c, been) /\ PageOK(page, been) /\ token \in BOOLEAN
  BY DEF ConsoleInv
<1>2. c.then \subseteq Effects /\ c.to \in Places /\ ("untick" \in c.then => "close" \in c.then)
  BY <1>1 DEF CallOK, CallTypes
<1>3. CASE AnswerOk(c)
  <2>1. CASE Mount(Mounted(c.to, "list", c.to), calls \ {c})
    <3>1. PageOK(Mounted(c.to, "list", c.to), been)
      BY <1>2, MountedOK, PlacesAre
    <3> QED BY <1>1, <1>3, <2>1, <3>1, MountClicks DEF AnswerOk, Keeps
  <2>2. CASE page' = (IF c.here THEN Succeeded(c) ELSE page) /\ calls' = calls \ {c}
    <3>1. PageOK(Succeeded(c), been)
      <4> DEFINE p == IF c.via = "fetch" THEN NotBusy(TRUE) ELSE page
      <4>1. PageOK(p, been)
        BY <1>1 DEF NotBusy, PageOK, PageTypes, Single
      <4>2. p \in PageTypes /\ Succeeded(c) =
              [p EXCEPT !.modal = IF "close" \in c.then THEN "none" ELSE @,
                        !.ticked = IF "untick" \in c.then THEN {} ELSE @,
                        !.fetching = @ \/ "refetch" \in c.then]
        BY <4>1 DEF Succeeded, PageOK
      <4> HIDE DEF p
      <4>3. /\ Succeeded(c) \in PageTypes
            /\ Succeeded(c).modal = IF "close" \in c.then THEN "none" ELSE p.modal
            /\ Succeeded(c).ticked = IF "untick" \in c.then THEN {} ELSE p.ticked
            /\ Succeeded(c).res = p.res /\ Succeeded(c).kind = p.kind
            /\ Succeeded(c).id = p.id /\ Succeeded(c).seen = p.seen
        BY <4>2 DEF PageTypes, Modals
      <4> QED BY <1>2, <4>1, <4>3 DEF PageOK, Single
    <3> QED BY <1>1, <1>3, <2>2, <3>1 DEF AnswerOk, Keeps, Clicks, ConsoleInv
  <2> QED BY <1>3, <2>1, <2>2 DEF AnswerOk
<1>4. CASE AnswerFailed(c)
  <2>1. PageOK(NotBusy(FALSE), been)
    BY <1>1 DEF NotBusy, PageOK, PageTypes, Single
  <2> QED BY <1>1, <1>4, <2>1 DEF AnswerFailed, Keeps, Clicks, ConsoleInv
<1>5. CASE AnswerUnauthorized(c)
  BY <1>5, SignedOutClicks DEF AnswerUnauthorized, OnError
<1> QED BY <1>3, <1>4, <1>5 DEF Answer

(***************************************************************************)
(* The server and the rest of the world.                                   *)
(***************************************************************************)
\* What is known of old views only grows truer.
LEMMA LaterOK ==
    ASSUME ConsoleInv, been \subseteq been'
    PROVE  /\ PageOK(page, been')
           /\ \A c \in calls : CallOK(c, been')
BY DEF ConsoleInv, PageOK, CallOK, Asks

LEMMA AppliedOK ==
    ASSUME ConsoleInv, NEW op, NEW ids \in SUBSET Records, Asks(op, ids, been),
           rows' = Applied(op, ids), been' = been
    PROVE  RowsOK'
<1>1. RowsOK /\ "streams" \in Records /\ "reports" \in Records /\ "transactions" \in Records
      /\ "creator-verification" \in Records /\ Users \subseteq Records
  BY TablesAreRecords DEF ConsoleInv, Records
<1>2. \A r \in Records : rows'[r] = IF r \in ids THEN StatusAfter(op, rows[r]) ELSE rows[r]
  BY DEF Applied
<1>3. rows' \in [Records -> Statuses] <=> \A r \in Records : rows'[r] \in Statuses
  BY DEF Applied
<1>4. CASE ids \subseteq Users /\ op \in UserOps
  <2>1. \A r \in {"streams", "reports", "transactions", "creator-verification"} :
            rows'[r] = rows[r]
    BY <1>1, <1>2, <1>4, NoUserIsATable
  <2>2. \A u \in Users : StatusAfter(op, rows[u]) \in UserStatuses
    BY <1>1, <1>4 DEF RowsOK, StatusAfter, BanUser, UnbanUser, UserOps, UserStatuses, Statuses
  <2>3. \A u \in Users : rows'[u] \in UserStatuses
    BY <1>1, <1>2, <2>2 DEF RowsOK
  <2> QED BY <1>1, <1>3, <2>1, <2>3 DEF RowsOK, Records, Tables, Statuses
<1>5. CASE ids = {}
  <2>1. \A r \in Records : rows'[r] = rows[r]
    BY <1>2, <1>5
  <2> QED BY <1>1, <1>3, <2>1 DEF RowsOK
<1>6. ASSUME NEW t \in {"streams", "reports", "transactions", "creator-verification"},
             ids = {t}
      PROVE  /\ rows'[t] = StatusAfter(op, rows[t])
             /\ \A r \in Records : r # t => rows'[r] = rows[r]
             /\ \A u \in Users : rows'[u] = rows[u]
  BY <1>1, <1>2, <1>6, NoUserIsATable
<1>7. CASE ids = {"streams"} /\ op = "stream ban"
  <2>1. StatusAfter(op, rows["streams"]) = rows["streams"]
    BY <1>7 DEF StatusAfter, Statuses, UserStatuses
  <2> QED BY <1>1, <1>3, <1>6, <1>7, <2>1 DEF RowsOK
<1>8. CASE ids = {"streams"} /\ op = "kill" /\ "streams" \in been
  <2>1. StatusAfter(op, rows["streams"]) = "ended"
    BY <1>8 DEF StatusAfter, KillStream, Statuses, UserStatuses
  <2> QED BY <1>1, <1>3, <1>6, <1>8, <2>1 DEF RowsOK, StreamStatuses, Statuses
<1>9. CASE ids = {"reports"} /\ op \in {"resolved", "dismissed"}
  <2>1. StatusAfter(op, rows["reports"]) = op
    BY <1>9 DEF StatusAfter, Statuses
  <2> QED BY <1>1, <1>3, <1>6, <1>9, <2>1 DEF RowsOK, ReportStatuses, Statuses
<1>10. CASE ids = {"transactions"} /\ op = "refund"
  <2>1. StatusAfter(op, rows["transactions"]) = IssueRefund(rows["transactions"])
    BY <1>10 DEF StatusAfter, Statuses, UserStatuses
  <2> QED BY <1>1, <1>3, <1>6, <1>10, <2>1 DEF RowsOK, IssueRefund, MoneyStatuses, Statuses
<1>11. CASE ids = {"creator-verification"} /\ op \in {"approve", "reject"}
  <2>1. StatusAfter(op, rows["creator-verification"])
          \in {ApproveRequest(rows["creator-verification"]),
               RejectRequest(rows["creator-verification"])}
    BY <1>11 DEF StatusAfter, Statuses, UserStatuses
  <2> QED BY <1>1, <1>3, <1>6, <1>11, <2>1
          DEF RowsOK, ApproveRequest, RejectRequest, RequestStatuses, Statuses
<1> QED BY <1>4, <1>5, <1>7, <1>8, <1>9, <1>10, <1>11 DEF Asks

LEMMA ServeKeeps ==
    ASSUME ConsoleInv, NEW c \in calls, Serve(c)
    PROVE  ConsoleInv'
<1>1. CallOK(c, been) /\ c \in CallTypes /\ c.ids \in SUBSET Records /\ Asks(c.op, c.ids, been)
  BY DEF ConsoleInv, CallOK, CallTypes
<1> DEFINE d == [c EXCEPT !.served = TRUE]
<1>2. d \in CallTypes /\ d.op = c.op /\ d.ids = c.ids /\ d.then = c.then
  BY <1>1 DEF CallTypes
<1>3. CallOK(d, been)
  BY <1>1, <1>2 DEF CallOK
<1>4. \A e \in calls' : CallOK(e, been)
  BY <1>3 DEF Serve, ConsoleInv
<1>5. been' = been /\ changes' \in 0..MaxChanges /\ UNCHANGED <<token, page>>
  BY MaxChangesIsNat DEF Serve, server, Changed, ConsoleInv
<1>6. RowsOK'
  <2>1. CASE UNCHANGED server
    BY <2>1 DEF ConsoleInv, RowsOK, server
  <2>2. CASE rows' = Applied(c.op, c.ids)
    BY <1>1, <1>5, <2>2, AppliedOK
  <2> QED BY <2>1, <2>2 DEF Serve, Changed
<1> QED BY <1>4, <1>5, <1>6 DEF ConsoleInv

LEMMA WorldKeeps ==
    ASSUME ConsoleInv, World
    PROVE  ConsoleInv'
<1>1. /\ been \subseteq been' /\ been' \subseteq {"streams", "transactions"}
      /\ changes' \in 0..MaxChanges /\ UNCHANGED client
  <2> DEFINE Step == /\ changes < MaxChanges /\ changes' = changes + 1 /\ UNCHANGED client
                     /\ \E s \in SUBSET {"streams", "transactions"} : been' = been \cup s
  <2>1. ASSUME NEW op, NEW r, OthersDo(op, r) PROVE Step
    BY <2>1 DEF OthersDo, Changed
  <2>2. ASSUME NEW r, NEW old, NEW new \in {"idle", "live", "ended", "completed", "failed"},
               r \in {"streams", "transactions"}, Becomes(r, old, new)
        PROVE  Step
    BY <2>2 DEF Becomes, Changed
  <2>3. ASSUME NEW u \in Users, VerifyEmail(u) \/ UpdateEmail(u) PROVE Step
    BY <2>3 DEF VerifyEmail, UpdateEmail, Becomes, Changed
  <2>4. Step
    <3> HIDE DEF Step
    <3> QED BY <2>1, <2>2, <2>3 DEF World
  <2>5. changes \in 0..MaxChanges /\ been \subseteq {"streams", "transactions"}
    BY DEF ConsoleInv
  <2>6. changes' \in 0..MaxChanges
    BY <2>4, <2>5, MaxChangesIsNat
  <2> QED BY <2>4, <2>5, <2>6
<1>2. SUFFICES RowsOK'
  BY <1>1, LaterOK DEF ConsoleInv, client
<1>3. ASSUME NEW op, NEW r \in Records, Asks(op, {r}, been), OthersDo(op, r) PROVE RowsOK'
  BY <1>3, AppliedOK DEF OthersDo, Changed
<1>4. ASSUME NEW s \in {"idle", "live", "ended"}, NEW new \in {"live", "ended"},
             s = "live" <=> new = "ended", Becomes("streams", s, new)
      PROVE  RowsOK'
  <2>1. /\ rows' = [rows EXCEPT !["streams"] = new] /\ rows["streams"] = s
        /\ been' = been \cup (IF new = "live" THEN {"streams"} ELSE {})
    BY <1>4 DEF Becomes, Changed
  <2>2. \A u \in Users : rows'[u] = rows[u]
    BY <2>1, NoUserIsATable DEF ConsoleInv, RowsOK, Records
  <2> QED BY <1>4, <2>1, <2>2, TablesAreRecords DEF ConsoleInv, RowsOK, StreamStatuses, Statuses
<1>5. ASSUME NEW new \in {"completed", "failed"}, Becomes("transactions", "pending", new)
      PROVE  RowsOK'
  <2>1. /\ rows' = [rows EXCEPT !["transactions"] = new]
        /\ been' = been \cup (IF new = "completed" THEN {"transactions"} ELSE {})
    BY <1>5 DEF Becomes, Changed
  <2>2. \A u \in Users : rows'[u] = rows[u]
    BY <2>1, NoUserIsATable DEF ConsoleInv, RowsOK, Records
  <2> QED BY <1>5, <2>1, <2>2, TablesAreRecords DEF ConsoleInv, RowsOK, MoneyStatuses, Statuses
<1>6. CASE OthersDo("refund", "transactions")
  BY <1>3, <1>6, TablesAreRecords DEF Asks
<1>7. CASE \E op \in {"approve", "reject"} : OthersDo(op, "creator-verification")
  BY <1>3, <1>7, TablesAreRecords DEF Asks
<1>8. CASE \E u \in Users, s \in UserStatuses : OthersDo(s, u)
  <2>1. PICK u \in Users, s \in UserStatuses : OthersDo(s, u)
    BY <1>8
  <2>2. Asks(s, {u}, been) /\ u \in Records
    BY DEF Asks, UserOps, Records
  <2> QED BY <1>3, <2>1, <2>2
<1>9. CASE \E u \in Users : VerifyEmail(u) \/ UpdateEmail(u)
  <2>1. PICK u \in Users, s \in {"active", "pending"} : Becomes(u, rows[u], s)
    BY <1>9 DEF VerifyEmail, UpdateEmail
  <2>2. rows' = [rows EXCEPT ![u] = s] /\ been' = been
    BY <2>1 DEF Becomes, Changed
  <2>3. \A r \in Tables : rows'[r] = rows[r]
    BY <2>2, NoUserIsATable, TablesAreRecords DEF ConsoleInv, RowsOK, Records, Tables
  <2>4. \A v \in Users : rows'[v] \in {rows[v], s}
    BY <2>2 DEF ConsoleInv, RowsOK, Records
  <2> QED BY <2>1, <2>2, <2>3, <2>4, TablesAreRecords
          DEF ConsoleInv, RowsOK, Tables, UserStatuses, Statuses
<1> QED BY <1>4, <1>5, <1>6, <1>7, <1>8, <1>9 DEF World

LEMMA ConsoleInvariant == Spec => []ConsoleInv
<1>1. ConsoleInv /\ [Next]_vars => ConsoleInv'
  <2> SUFFICES ASSUME ConsoleInv, [Next]_vars PROVE ConsoleInv'
    OBVIOUS
  <2>1. CASE Pages \/ Load \/ LoadRefused \/ TypeAddress
    BY <2>1, PagesClick, LoadClicks, TypeAddressClicks, ClicksKeeps
  <2>2. CASE \E c \in calls : Serve(c) \/ Answer(c)
    BY <2>2, ServeKeeps, AnswerClicks, ClicksKeeps
  <2>3. CASE World
    BY <2>3, WorldKeeps
  <2>4. CASE UNCHANGED vars
    BY <2>4 DEF vars, ConsoleInv, RowsOK
  <2> QED BY <2>1, <2>2, <2>3, <2>4 DEF Next
<1> QED BY <1>1, InitInv, PTL DEF Spec

(***************************************************************************)
(* The theorems.                                                           *)
(***************************************************************************)
\* The console, its requests and the records keep their types.
THEOREM TypeCorrect == Spec => []TypeOK
<1>1. ConsoleInv => TypeOK
  BY DEF ConsoleInv, TypeOK, PageOK, CallOK, RowsOK
<1> QED BY <1>1, ConsoleInvariant, PTL

\* Whatever old views the buttons are drawn from, a stream ends only after it was live
\* and money goes back only for a payment that was completed.
THEOREM OnlyUndone == Spec => []EndsWereEarned
<1>1. ConsoleInv => EndsWereEarned
  BY DEF ConsoleInv, RowsOK, EndsWereEarned
<1> QED BY <1>1, ConsoleInvariant, PTL

\* For any number of users and requests, the modal of a bulk stands over a selection.
THEOREM BulksHaveRows == Spec => []BulkHasRows
<1>1. ConsoleInv => BulkHasRows
  BY DEF ConsoleInv, PageOK, BulkHasRows
<1> QED BY <1>1, ConsoleInvariant, PTL
=============================================================================
