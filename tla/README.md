# A TLA+ model of wiitoo

wiitoo is a streaming platform: a Go modular monolith (`cmd/wiitoo/main.go` mounts nine
services on one router over a shared Postgres pool and a Redis client) and three web
frontends: the viewer, the creators' studio and the admin console. This directory models
the parts of it where requests interleave, fail half-way or are answered out of order,
model-checks them with TLC on small instances and proves the most important properties
with TLAPS for every instance.

In the models of the services **one action is one statement**: every HTTP request is a
goroutine, the services open no SQL transactions, so what is atomic is one SQL statement,
one Redis command (or a `DEL` of several keys, or a script) or one call to a provider,
and the statements of different requests interleave freely. A statement has an outcome:

- `ok`;
- `err`: it had no effect, and its caller sees an error;
- `lost`: it took effect, but its caller sees an error (a dropped connection, the 30 s
  deadline the router puts on every request);
- `cut`, of the one pipeline (`INCR` and `EXPIRE` in `otp.go`): its first command took effect
  and its second did not.

A crash of the process between two statements is a request that takes no further step;
safety runs never assume that a request goes on.

In the models of the frontends **one action is one handler, one event or one answer**:
JavaScript runs a handler to its first `await`, and what follows an `await` runs when the
answer is there, on whatever page the tab shows by then. The server acts on a request
somewhere between the two, and the answer may be lost after it did.

## Inventory

| component | state it keeps | operations | hard behaviour | what makes it correct | status |
|---|---|---|---|---|---|
| Creator ledger and payouts (`services/payment`) | tables `transactions`, `creator_ledger`, `payouts` | `SendTip`, `ProcessPayout`, `AdminTriggerPayout`, `AdminIssueRefund` | read, then write of a balance in separate statements; half-done payouts | never pay out more than was earned; money neither appears nor vanishes | `CreatorLedger` |
| Payment providers (`pkg/payment`) | none (HTTP) | `SendPayout`, checkout, subscriptions, webhooks that only log | a lost answer | one transfer per payout row | `SendPayout` in `CreatorLedger` |
| One-time codes (`services/auth/.../otp.go`) | Redis keys of a user: code hash per purpose, attempts per code, codes per hour, resend cooldown | `GenerateOTP`, `VerifyOTP`, `CanResendOTP`, `MarkOTPResend` | check-then-increment; key expiry; ignored errors | guesses per code and codes per hour bounded; a code accepted once and for its purpose | `Otp` |
| Accounts (`services/auth`: `pg_user.go`, handlers, OAuth) | `users`, `user_ban_history`, `oauth_accounts` | register, verify, e-mail change, password reset, ban, unban, set status, OAuth callback | handlers that read a user, wait and write unconditionally; two-statement bans | a suspension lasts until it is lifted; ban records and status agree | `Account` |
| Sessions of the server (`auth.go`, `token.go`) | `refresh_tokens` | login, refresh, logout, revocation | tokens saved while a reset revokes | a reset ends the sessions it should | `Account` |
| Viewer: sign-in and session (`frontend/lib/auth-store.ts`, `app/auth`) | the persisted store, nine steps with their forms | register, verify, resend, login, logout, name check, redirect | answers that come late, twice, after a reload or not at all | a whole session or none; buttons come back | `AuthStore`, `AuthPage`, `ViewerSession` |
| Viewer: pages and player (`frontend/app`, `components`) | the route, menus, local page state, the player | the controls of every page; the media element's events | events that arrive after the button they contradict; late sign-in and sign-out | the player's buttons tell the truth in the end; no stuck spinner; no dead link | `Player`, `ViewerSite` |
| Admin console (`admin/src`) | the token, the page, the rows it loaded | every list, show, edit and create page, bulks, ban modals | pages drawn from old rows; callbacks after the page was left; several administrators | old buttons do no harm; waiting ends | `AdminApi`, `AdminConsole` |
| Studio app (`studio`) | fixed data | buttons without handlers | none | – | not modelled |
| Rate limiter (`auth/.../ratelimit.go`) | a sorted set in Redis per address; an in-memory limiter that nothing mounts | `checkLimit` (clock, then a Lua script) | the clock is read before the script; Redis failure; key expiry | never more than the limit per window | `RateWindow` |
| Live streams (`services/stream`) | `streams.status`, simulcast targets | start, end, MediaMTX webhooks, admin kill | webhooks lost or overtaken | the status says whether the stream is on air | `LiveStream` |
| Chat (`services/chat`) | rooms: stream → user → connection; messages | connect, type, post, disconnect, delete | reconnect before the old goroutine cleans up; a context that ends before its goroutine | a room lists who is there; what becomes of a message | `ChatRoom` |
| Videos (`services/video`, `pkg/videopipeline`) | `videos.status`, URLs | upload, processing, callback | every step after the upload fails (see the end) | a ready video stays ready | not modelled |
| E-mail (`services/email`, `pkg/email`) | table of providers, pool of senders | change, reload, test, send with fallback | reload during a send; two reloads | nothing is sent with half a pool; the pool becomes the table | `MailPool` |
| Storage (`services/storage`, `pkg/storage`) | provider map, routing rules, round-robin counters | reload, route | none that shows: uploads are placeholders | – | not modelled |
| Content, notifications (`services/content`, `services/notification`) | categories, reports, notifications | single-statement CRUD | none beyond the last write wins | – | not modelled |
| Job queue (`pkg/queue`) | none of its own | wrapper around asynq that no service enqueues to | – | – | not modelled |
| Gateway, configuration, middleware (`cmd`, `pkg`) | none | wiring, CORS, logging, deadline | the deadline is the outcome `lost` | – | not modelled |

How they interact: services share tables and Redis rather than calling each other. The
auth middleware and the rate limiter run before a handler; auth handlers call the OTP
service and the e-mail sender in sequence; payments, streams and videos are driven by
requests and by calls from outside (PayPal, MediaMTX, the video pipeline) that nothing
orders. The viewer and the console know the services only through the answers to their
requests. `PROJECT.json` lists the hazards of each at their line, and the properties that
cover each one or the reason why none does.

## Modules

| module | what it is |
|---|---|
| `CreatorLedger` | the detailed model of tips, payouts and the ledger |
| `EarningsAccount` | the abstract account: money is earned, and withdrawn up to what was earned |
| `MCCreatorLedger` | for TLC: symmetry, amounts of both signs, and the properties that sum over tips or count rows |
| `CreatorLedgerProof` | the theorems about `CreatorLedger` |
| `Otp`, `MCOtp`, `OtpProof` | one user's one-time codes; symmetry for TLC; the theorems |
| `Account`, `MCAccount`, `AccountProof` | one account with its bans, tokens and OAuth link; symmetry for TLC; the theorems |
| `AuthStore` | the viewer's session store, its requests and what the server does with them |
| `AuthPage`, `AuthPageProof` | the sign-in page over `AuthStore`; the theorems |
| `ViewerSession` | the abstract session: what the other pages see of it; `AuthPage` implements it |
| `Player`, `PlayerProof` | the video player over the media element; the lemmas about it |
| `ViewerSite`, `ViewerSiteProof` | the other pages of the viewer over `Player` and `ViewerSession`; the theorems |
| `AdminApi` | what the pages of the console share: mounting, requests, the server's records |
| `AdminConsole`, `AdminConsoleProof` | the pages of the console over `AdminApi`; the theorems |
| `ChatRoom`, `LiveStream`, `MailPool`, `RateWindow` | one chat room; one stream; the e-mail providers and their pool; one address at the rate limiter |
| `MCServices`, `ServicesProof` | these four for TLC, each alone; the theorems about them |

`ViewerSession` joins the two models of the viewer: `AuthPage`, with tokens, forms, requests
and the server, implements it (the run `auth_pages` and the theorem `Refinement`), and
`ViewerSite` is built on it, so that its pages meet every session that the detailed
model can produce, an answer that arrives on another page than the one that asked
included.

### CreatorLedger

| state | code |
|---|---|
| `ledger[c]` | the row of `creator_ledger`: `balance`, `lifetime_earnings`, `pending_payout`; an absent row reads as zeros, as `GetBalance` does |
| `txn[t]` | the status of a tip's row of `transactions` |
| `payout[r]` | status and amount of the `payouts` row a request writes |
| `paypal[p]` | what PayPal has sent for a request (outside `src/`) |
| `pc`, `creator`, `amount`, `debit` | the goroutine of a request: next statement and local variables |
| `credited`, `paid` | history: tips credited; per creator, what was debited for written `payouts` rows |
| `raced` | history: the creators who had two payouts under way at once |

`TipRecord` and `TipCredit` are the two statements of `SendTip` (an error of the second is
only logged). `PayoutRead`, `PayoutDeduct`, `PayoutInsert` and `PayoutSend` are
`ProcessPayout`, `ManualRead`, `ManualDeduct` and `ManualInsert` are `AdminTriggerPayout`,
`IssueRefund` is `AdminIssueRefund`, which leaves the ledger alone.

`RouteBindsCreator` says whether `ProcessPayout` gets a creator's id: the deployed route has
no `creatorId` parameter, so today it is `FALSE` and every payout is refused; the other runs
ask what `ProcessPayout` does once a caller supplies the id.

Two things the code leaves to its callers are in the model as they are in the code,
unrestricted. No handler, statement or migration refuses a negative amount
(`handler/payment.go:79`, `handler/admin.go:65`, no `CHECK` in the migrations), and nothing keeps
two payouts of a creator apart. Either breaks what the ledger promises, so the promises are
stated per creator: `Unsigned` are those to whom no negative tip or manual payout was sent,
`Careful` those of them who also had no two payouts under way at once. A property about them
says two things: that these are the *only* ways in which the promise is broken, whatever
fails and however requests interleave, and that what goes wrong for one creator harms no
other. `CreditsBacked`, `PayPalBacked` and `Conserved` need neither condition, and the bounds
that races respect need `Unsigned` only.

Not in the model: floating-point rounding (amounts are whole minor units and the fee is
truncated), currencies, the payouts' dates, listing and search.

### Otp

| state | code |
|---|---|
| `otp[p]` | the key `otp:<purpose>:<user>`; the code stands for its hash |
| `attempts[c]` | the key `otp:attempts:<purpose>:<user>:<hash>`, which contains the hash, so it belongs to a code |
| `rate` | the key `otp:rate:<user>`: its count, and whether it has a time to live |
| `cooldown` | the purposes whose cooldown key exists |
| `gen`, `ver` | the goroutines inside `GenerateOTP` and `VerifyOTP` |
| `drawn`, `issued`, `cuts`, `compared`, `accepted` | history: purpose of a code; codes returned and pipelines cut since the rate key appeared; comparisons; acceptances |

`CanResend` / `GenerateDirectly`, `CheckRate`, `StoreCode`, `ResetAttempts`, `CountCode`,
`MarkResend` are the Redis commands of generating a code (`ResendOTP` and `ResetRequest` look
at the cooldown, `Register` and `EmailChange` do not); `CountCode` is a pipeline that may be cut
between its `INCR` and its `EXPIRE`; `ReadCode`, `CheckAttempts`,
`CountFailure`, `DeleteCode` those of verifying one. The `Expire...` actions are Redis. That
two random codes differ is assumed; the lengths of the times to live are not modelled, only
that an attempts key written after its code outlives it.

### Account

One account; its row, and the rows other tables hold for it, are written by requests of
the visitor and of administrators.

| state | code |
|---|---|
| `user` | the row of `users`: `status`, `email_verified_at`, `email`, `password_hash` (a number) |
| `linked` | the row of `oauth_accounts` for the provider's identity |
| `ban[r]` | the row of `user_ban_history` that request `r` inserted |
| `token[r]` | the row of `refresh_tokens` that `r` saved, with the password it was saved under |
| `issued` | a client holds an access token of the account |
| `at`, `kind`, `email`, `seen` | the goroutine of a request: next statement, which handler, the address it names, the row it read at its start |
| `wrote`, `lastBan`, `settled` | history: the password a reset set; the ban or unban that began last, and whether it ended after all others |

Handlers and their statements: `Register`, `Create`; `Login`; `Verify` (`Verify`, `VerifyEmail`,
`Reread`); `Logout`; `RefreshTokens`; `ResetConfirm` (`UpdatePassword`, `RevokeSessions`);
`EmailChangeConfirm`; the OAuth callback (`HandleCallback`, `FindUser`, `CreateOAuthAccount`, and
what is only logged); `BanUser` / `SuspendUser` and `UnbanUser` / `LiftSuspension` in two
statements each; `AdminUpdateUser`. Those that issue tokens end in `SaveRefreshToken`.

Whether a code is accepted is the matter of `Otp`: here it may be or not, in the step that
reads the row. Creator-verification requests are not modelled; their approval writes the
user's role in a second statement, which grants the role even for a request that was
rejected meanwhile (`pg_user.go`, `ApproveCreatorVerification`).

`AdminIdKnown` says whether an admin handler finds the id of the administrator. The
deployed router puts `pkg/middleware` before the handlers (`cmd/wiitoo/main.go:80`), whose
context key has another type than the one `middleware.GetUserID` of the auth service reads
(`handler/admin.go:134`); the handlers then use `"unknown"`, which the UUID columns `banned_by`
and `reviewed_by` (migrations 018 and 019) refuse. So today it is `FALSE`, and every ban,
approval and rejection fails, although the id is "set by auth middleware"
(`admin.go:133`). The runs set it to `TRUE`, which asks what the code does once the id is
there; the theorems hold for both. `BulkUpdateStatus` with a reason inserts a ban by `"system"`
and fails in the same way, after it has written the status.

### AuthStore and AuthPage

| state | code |
|---|---|
| `store` | the zustand store: user, both tokens (each named by its account), `isAuthenticated`, `pendingEmail`, `isLoading` |
| `calls[s]` | a request under way: its operation and address, where its continuation goes, whether the server has acted, and what is left of its caller: the page, the tab, nothing |
| `accounts` | the server: an address has no account, a pending or an active one |
| `route`, `ctx`, `form` | the path; the context of the sign-in page (step, `?redirect`, address); the state of the step's component |
| `mine` | history: the addresses whose registration this page saw accepted |

An asynchronous function of the store is two actions: `Sends...` with what it sets at
once (`Sending`), and `...Answered` with what it sets afterwards. `Serve` and `Lost` are the network and the
server. A reload or a hard navigation keeps what zustand persists and drops the rest and
the callers of all requests. The timed waits of the page are requests to nobody. The steps
of a password reset make no call at all (`app/auth/page.tsx:1184`), and the store's
`refreshSession` and `setPendingEmail` are never called.

### Player and ViewerSite

The record `player` holds two machines: the media element (`paused`, `ready`, `failed` and the
queue `events` of what it has announced) and the component (`playing`, `isLoading`,
`showControls`, `hideTimer`, `pointer`), which knows only the events it has handled. The buttons
act on what the component believes, the keyboard of the watch page acts on the element.

| state of `ViewerSite` | code |
|---|---|
| `route`, `session` | the page; the session as `ViewerSession` has it |
| `open` | the header's open menus |
| `local` | the state of the page: its feed, list, kind of category, modal, `creatorMode`, the label "Saved" and its timers |
| `below`, `mini` | below the player: like state and count, share modal; whether the mini player shows |
| `isChatOpen` | the store of `lib/store.ts`, which outlives pages |
| `switched` | history: dislikes turned into likes |

A page is the disjunction of what its controls call; what is not drawn or disabled is a
guard. Left out: full screen, volume and positions; switches that change only their own
look (follow, save, expand, reactions, sort, the "Copied" label); touch. The mini player is
a second player of its own of which only the presence is kept.

### AdminApi and AdminConsole

| state | code |
|---|---|
| `token` | `access_token` in the local storage |
| `page` | the mounted page: resource, kind, the status it loaded last, ticked rows, modal, whether its button waits |
| `calls` | the requests under way: operation, rows, by hook or by fetch, what follows the answer |
| `rows` | the server: the status of every record |
| `changes`, `been` | how often a status has changed (the bound); history: streams that were live, payments that were completed |

The callbacks of refine's hooks are dropped with the page, and a 401 signs out; what
follows a bare `fetch` runs wherever the tab is by then. `World` is everyone else: services,
other administrators (their forms, bulks and buttons), and the owners of accounts, whose
verification makes any account active and whose change of address makes it pending, also a
deleted or suspended one (`VerifyEmail`, `UpdateEmail`). One record stands for each table except users, of
whom several can be ticked. Left out: roles, notes, the verified flag and the ban history
(fields no button depends on); a deletion shows only as a missing record; two equal
requests under way count as one; the cache of React Query, which makes pages older than the
model's at most in the way the model has them already. `AdminIdKnown` is as in `Account`.

What the console's pages cannot do, as the model has it: `reports/[id]`,
`creator-verification/[id]`, `chat-messages/[id]`, `payouts/[id]` and `subscriptions/[id]` ask for
routes the services do not have and never load; so does the `warn` action; `users/create`
always fails; the `edit.tsx` files of e-mail and storage are no routes; `users/[id]` is reached
only by its address; the server ignores the Suspended switch of a user's form; the menu
marks always `/` (`resources/layout.tsx:125`); a bulk verification takes any answer as success.
The show pages of e-mail and storage are not modelled.

### ChatRoom, LiveStream, MailPool, RateWindow

| state | code |
|---|---|
| `clients`, `room` | `s.clients[streamID]`, and whether the map has the entry |
| `conn[c]` | a WebSocket, its goroutine: stage, the viewer, whether the handler's context lives, whether Redis has the subscription, the message being passed on |
| `post`, `heard`, `chatTable` | how a message was sent; who received it; `chat_messages` |
| `status` | `streams.status` of one row |
| `onAir`, `hooks` | MediaMTX: whether the stream is published; the webhooks on their way |
| `stopped`, `disturbed` | history: an end or a kill since it was last live; a webhook lost or overtaken |
| `table`, `pool` | `email_providers` and `multi.senders`: per provider a version, 0 for none |
| `changer`, `mail` | requests that change a provider and reload; requests that send |
| `reads`, `poolRead`, `unread` | history: reads of the list, the one the pool is from, a change no reload has followed |
| `zset`, `expiry`, `request` | the sorted set of an address, when its key expires, the requests with the clock they read |
| `admitted` | history: the stamps added to the set, and when Redis added them |

The loop of a chat connection runs in a goroutine and keeps `r.Context()`, which `net/http`
cancels when the handler returns, that is at once (`chat.go:82`, `:94`, `:130`): from then on
its Redis and Postgres commands fail, and nobody looks at their errors. Webhooks are one
`curl` each (`mediamtx.yml:45`): they may be lost or overtake each other, and are not
repeated. A provider's name, configuration, priority and weight are its version; the lock
is the service's `RWMutex`, with waiting writers ahead of new readers. A tick of `RateWindow` is
a nanosecond, as in the stamps; the window is a parameter, and so is short enough for TLC to
check. A script may run any time after the clock was read, and its answer may be lost: the
request then goes on unchecked, although its stamp was added. `EXPIRE` counts whole seconds,
which the windows configured are. Left out: that Redis keeps scores as doubles, and that a
clock may be set back.

## Runs

| run | shows | bounds |
|---|---|---|
| `ledger` | tips, payouts and manual payouts interleaved statement by statement, amounts of both signs, statements that fail or lose their answer: types; `NoOverpay`, `OverdrawnOnlyByRaces`, `DebitsBecomePending` and that the ledger implements `EarningsAccount`, for creators without races and negative amounts; `LedgerBounded` and `PaidPerRow` for those without negative amounts; `CreditsBacked`, `PayPalBacked` and `Conserved` for all | 2 creators, 2 tips, 2 payouts, 1 manual payout, amounts 60 and −60; 715,050 states up to symmetry |
| `ledger_tip_uncredited` | violated: a tip answered with success was credited | |
| `ledger_manual_overdraw` | violated by two manual payouts at once: a balance is never negative | 2 manual payouts |
| `ledger_payout_route` | violated on the deployed route: a payout is refused only below the threshold | |
| `otp_codes` | `GuessesBounded`, `SingleUse` while two verifications race the generation of a code and the expiry of keys | 2 purposes, 2 codes, 1 generating request, 2 verifying, 1 attempt |
| `otp_rate` | types, `RateBounded`, `LockedForCause` and `LockoutEnds` with failing commands and cut pipelines | 1 purpose, 3 codes, 2 generating requests, limit 1; 63,705 states |
| `accounts` | types; `BansSettled`, `ResetEndsSessions`, `LetInIsLinked`, `BlockEnds` with failing statements | 3 requests of any kind, 2 addresses; 93,376 states |
| `auth_pages` | `SessionWhole`, `CodeEarned`; that the page implements `ViewerSession`; `RequestsEnd`, `SignedInLeaves` | 2 addresses, one of them registered, 1 gated route, 2 requests under way; 220,190 states |
| `site` | types, `MediaInSync`, `NothingStaysUp`, `LikesCounted` | 2 undelivered events, count off by 2, 2 timers; 1.7 million states |
| `admin` | types, `EndsWereEarned`, `BulkHasRows`, `BusyEnds` | 1 user, 1 request under way, 2 changes of a status; 686,500 states |
| `services` | types; `ViewersCounted`; `LiveIsOnAir`; `PoolWhole`; `WindowBounded` | 3 connections of 2 viewers, 1 message; 3 publications; 2 providers, 2 changes at once, 2 sends, 3 versions; 4 requests, 2 per window of 4 ticks, 5 ticks; 1.4 million states up to symmetry |
| `chat_typed` | violated: what is read from a connection is published to every subscriber and saved | 1 viewer, 2 connections, 1 message, stores that do not fail |

Why the bounds are enough to meet the interesting cases:

- A tip of 60 at a fee of 10 % puts the balance above the threshold of 50, and two of them
  above a manual amount of 60; a payout, a second payout and a manual payout are all the
  writers that can stand between a read and its write, and a tip or a manual payout of −60 is
  every use of a negative amount. The second creator shows that a race harms nobody else.
- Two codes let a fresh one replace one that is being verified, and `GuessesBounded` is
  tight: with one less, TLC finds the run that reaches it. In `otp_rate` the limit is 1
  and three codes can be drawn, so one code more than `RateBounded` allows could be issued.
- Three requests are a ban and an unban that interleave with a third that writes the
  status, or a login, a reset and a change of address.
- Two requests of the viewer are one that is answered late and the one its page has sent
  since; the unregistered address can be registered, verified and signed in.
- Two undelivered events are the pair an impatient visitor makes, pause and play, with the
  buttons still showing what was before both.
- Three connections of two viewers are an old one, its replacement and somebody else; three
  publications let two webhooks be under way after a finished one; two reloads can install
  their lists in either order; four requests at a limit of two leave room for two too many. The window of four ticks
  leaves room for scripts that run late and stamps that collide; allowing a stretch two ticks
  longer than `WindowBounded` does, TLC finds a third request in it.
- One request and two changes in the console are an old page, what changed under it, and
  what its button does then. The theorems cover any number.

A request id is used once, and codes are finite: these bounds end every behaviour of the
service models, which is why deadlock is not checked there (a server without requests is
idle, not stuck). The frontends are checked for deadlock.

Each property is guarded by a mutant: an operator next to the definition it replaces that
changes it as a slip in the code would, under which TLC finds the property violated
(`PROJECT.json`, "mutants").

### Fairness

- `otp_rate` assumes that a generating request which has *started* is run to its end, as a
  goroutine is, and that Redis expires a key that has a time to live. It assumes nothing
  about clients and nothing about failing commands.
- `auth_pages` assumes that a request under way ends, if only because the browser gives it
  up, and that the effect which leads a signed-in visitor away from the page runs.
- `admin` assumes that a request under way ends.
- The other runs assume nothing.

### What the violated runs mean

- A tip whose ledger upsert fails is answered as completed and never credited
  (`payment.go:131`), against "Platform credits creator's internal balance ledger"
  (`ARCHITECTURE.md:103`).
- Two manual payouts read one balance and both deduct (`payment.go:385`), against "Deduct
  from ledger if there's balance" (`payment.go:384`).
- `POST /ledger/payout` never passes a creator's id (`services/payment/api/service.go:40`),
  against `README.md:119` and `README.md:146`.
- What is typed into a chat connection is neither published nor saved once the handler has
  returned (`chat.go:131`), against "`GET /ws/{streamId}` — WebSocket connection for real-time
  chat" (`README.md:122`) and "WebSocket real-time, Redis pub/sub fan-out, history, timeout/ban,
  message persistence" (`ARCHITECTURE.md:181`); only posts are. `TypedIsLost` states the cause.

Not runs, but seen in the models:

- Concurrent guesses compare a code more than three times (`otp.go:197`), against
  "3 attempts per OTP" (`ARCHITECTURE.md:132`). `GuessesBounded` says how many it can be.
- With a bound route, two calls of `ProcessPayout` at once pay one balance twice: `NoOverpay`
  stated for all creators fails, and the factor of `PaidPerRow` is needed.
- Negative amounts are accepted: a negative tip takes from a creator what may be paid out
  already, a negative manual payout raises the balance above the earnings and lowers
  `pending_payout`. `NoOverpay`, `LedgerBounded` and the refinement fail for such creators.
- A pipeline that is cut between `INCR` and `EXPIRE` (`otp.go:174`) leaves a rate key without a
  time to live; if all that counted were cut, the user gets no code any more. `LockedForCause`
  says that it takes as many as the hourly limit, since any later pipeline that runs to its
  end gives the key its time again.
- No statement updates a `payouts` row after PayPal was called, so it stays `pending` although
  `model/payment.go:51` lists `processing`, `completed` and `failed`.
- Tips credited between the read and the deduction of `ProcessPayout` are moved to
  `pending_payout` without being paid.
- A refresh token is saved as a bcrypt hash and looked up by another, freshly salted one
  (`service/auth.go:122`), so no refresh ever succeeds, against "access+refresh with rotation"
  (`ARCHITECTURE.md:179`). `RefreshTokens` of `Account` has only the refusal.
- Bans, approvals and rejections always fail on the deployed router (`AdminIdKnown`, above).
- `Verify` reads the user again by the address of the request; if the address was changed
  meanwhile it finds none, and goes on with a nil user.
- Codes belong to a user, not to an address: `EmailChangeConfirm` writes the address of the
  confirming request, whatever address the codes were mailed about.
- Answers to checks of a user name are taken in the order they arrive
  (`app/auth/page.tsx:420`): an old one can decide about a newer name.
- Chat bans and time-outs are written to Redis and to a table no migration creates, and
  nothing reads them; the same holds of bans from streaming.
- A late `publish` makes an ended or killed stream live again, and no webhook corrects it
  until the publisher stops. The hooks call `http://stream:8085`, which the compose file does
  not have.
- A reload of the e-mail providers may install an older list than the one before it, which
  then stays; and a failed reload after a change is only logged.
- The limit per user never applies: `RateLimit` runs before `Authenticate`.
- A deleted account comes back in many ways: a verification or a change of address that read it
  before, the profile form, which sends the status its page has loaded whether or not it was
  touched (`users/[id]/page.tsx:377`), a bulk. No property about deleted accounts holds.

## Proofs

All proof modules prove every obligation; the assumptions are the named `ASSUME`s of the
components (amounts are integers, limits are naturals, the fee is a percentage, ids of different
requests differ, the requests that generate or verify a code are finitely many, the bounds
are naturals, no user has the name of a table). A theorem that needs more says so in its own
`ASSUME`: which faults do not occur, or what the deployed router does.

`CreatorLedgerProof`:

- `TypeCorrect`. `TypeOK` is not inductive: a request that has started has a creator and an
  amount a client sends, and a payout goes on only above the threshold. `LocalsOK` adds that;
  the only arithmetic is `NetIsInt`.
- `Bounded` (`LedgerBounded`) and `EarningsConserved` (`Conserved`). Each rests on one lemma per
  ledger-writing action (`TipCreditEffect`, `PayoutDeductEffect`, `ManualDeductEffect`);
  `LedgerBounded` also needs that the earnings of an `Unsigned` creator are natural
  (`NetIsNat`), `Conserved` that a payout remembers its deduction.
- `SentOnceForARow` (`PayPalBacked`): before the call nothing was sent, and a request about
  to send has its row.
- `NeverOverpaid` (`NoOverpay`), `NeverOverdrawn` (`OverdrawnOnlyByRaces`), `DebitsArePending` and
  `Refinement`. `NoOverpay` alone is not inductive: it says nothing of the request between its
  read and its INSERT. `CarefulInv` adds that of a creator not in `raced` at most one request
  is under way, and, for the `Careful` ones, that what it read is still covered by the balance
  and what it debited by the earnings not yet paid. Nobody becomes careful again (`CausesStay`),
  so a step is looked at only for those who are careful after it. The refinement then maps
  a credit to `Credit`, the INSERT of a payouts row to `Debit`, the step by which a creator
  stops being careful, and every later change of that creator's row, to `Spoil`, and every
  other step to a stutter.
- `CreditsAreBacked` (`CreditsBacked`) holds for every interleaving and fault. Its sum is a
  recursive function of a choice of elements; `SumIsTotal` shows that it counts the pairs of a
  tip and one of its cents, by a smallest set of tips on which the two would differ, so that
  the cardinality theorems apply. `CreditInv` adds that a credited tip is done, keeps its
  creator and amount, and has its row.
- `TipsCredited` and `RefusalsAreDeserved` give the causes of two of the violated runs: the
  properties hold if no statement fails without effect (`"err" \notin Faults`), and if the
  route binds the creator and nothing fails.
- `RacesPayPerRow` (`PaidPerRow`) says what is left when payouts race, which nothing prevents:
  what was paid to a creator is at most all they ever earned, once per payouts row. `RaceInv`
  adds that what a request is about to take is at most the earnings, which never fall while
  no amount is negative. TLC finds the second payment, so the factor is needed.

`OtpProof`:

- `TypeCorrect`.
- `RateLimited` (`RateBounded`): a request between `CheckRate` and `CountCode` is in the
  *window*; the count plus the size of the window stays below the limit plus the number of
  requests, because a request enters only when the count is below the limit.
- `LockoutNeedsCuts` (`LockedForCause`), for any faults: a rate key without a time to live was
  counted by cut pipelines only (`CutsInv`).
- `PurposesKept` (`PurposeKept`): the purpose of a code is known to the request that stores
  it and to every request that has read it.
- `CodesInv`, for the next two: a code not stored yet is in the hand of at most one
  generating request, and nothing has happened to it; once it is gone it is never stored
  again. A step is about at most one code and leaves the others alone (`LeftAlone`), up to
  expiry.
- `CodesAreSingleUse` (`SingleUse`), if no command fails without effect: while a code is
  stored nobody has accepted it, and its uses together with the requests that have read it
  are at most the requests (`Used`). The answer of the DEL may be lost; its effect may not, or
  the code stays.
- `FewGuesses` (`GuessesBounded`), if no command fails: while a code is stored, what was
  compared since its counter last started is at most the count and the comparisons not
  counted yet, together a round; it starts over once, when `GenerateOTP` writes its 0
  (`Guessed`). After the code is gone only those who had read it go on, whatever the counter
  says. A failed GET reads the counter as 0, and a failed INCR leaves a wrong guess
  uncounted; neither has a bound, which is why faults are excluded here.

`AccountProof`: `TypeCorrect`, `BansSettle`, `ResetsEndSessions`, `LetInAreLinked`, `BlocksEnd`, for any
number of requests. The inductive invariant `IInv` is the conjunction of

- `StagesOK`: what the stage of a request says of its kind and of the row it has read;
- `PasswordsOK`: passwords only grow, and none is set before there is an account, so a reset
  has written the current password or an older one;
- `BanOrder`: between its two statements the ban or unban that began last knows what the
  records say: a ban its own active row, an unban that no row is active;

and of the properties. Most actions write none of the tables a part speaks of; they are
`Quiet` steps, and one lemma does for all of them. `DeployedBansFail` and `DeployedSuspensions`
assume that no handler finds the administrator's id, as on the deployed router: every ban
then has failed without a record (`BansFail`), and an account becomes suspended only by the
form that sets any status (`SuspendedByForm`).

`AuthPageProof`: `TypeCorrect`, `SessionIsWhole`, `CodeAfterRegistration` and
`Refinement`. `AuthInv` adds to the store's own consistency (`StoreOK`) what a request under way
knows of the server (`CallsOK`): since the accounts only move from none to pending to
active, what was true of an address when the server served the request is still true
when its answer arrives, however late. The refinement describes a step by what it does to three sets: the
session, the sign-ins under way, the sign-outs under way; each handler falls under one
of the abstract actions or a stutter.

`ViewerSiteProof`, over the lemmas of `PlayerProof`: `TypeCorrect`, `PlayerInSync`,
`SpinnerAndControlsEnd`, `LikesAdd`, `LabelsEnd`, `NoOtherDeadEnds`. Every step of the site is of one of four
kinds (a page arrives, the page changes, the player plays, only menus and session shift),
and `SiteInv` is preserved by each kind. For the player, `MediaInSync` speaks of an empty queue
only, so it is generalised to what the component will believe once the queue is
delivered, and the spinner to what is left in the queue. `TypeOK` needs `LikesCounted`: a like
can be taken back only from a count that contains it. `LabelEnds` and `DeadEndsKnown` are
proved and not properties of the run.

`AdminConsoleProof`: `TypeCorrect`, `OnlyUndone`, `BulksHaveRows`. `ConsoleInv`
adds what a page may hold (`PageOK`: a modal of a bulk stands over ticked rows), what a
request may ask (`CallOK`: a request for a change was sent by a control of its own
resource) and what a status says of the past (`RowsOK`). Clicks, the server and the world
write disjoint parts of the state, and each is one lemma.

`ServicesProof`, for any number of connections, messages, publications, providers, requests,
any rate and window:

- `RoomCountsViewers` (`ViewersCounted`) and `TypedNeverArrives` (`TypedIsLost`): `RoomInv` adds
  that a connection has its viewer exactly from its registration on; `MessageInv` that what a
  goroutine carries was typed, and late only if its context is gone.
- `StatusFollowsAir` (`LiveIsOnAir`): while nothing is lost or overtaken, the webhooks under way
  alternate, the last one says whether the stream is on air, and none that says `publish`
  is next while the status is live.
- `PoolIsWhole` (`PoolWhole`): while a list is installed nobody sends and nobody else installs,
  the pool is the part of the list added so far, and the list read last is the table unless
  something changed since.
- `RateHolds` (`WindowBounded`), however late scripts run. A stamp added at most some time late
  stays in the sorted set, and the key lives, until the clock is a window past it
  (`AdmittedInv`): no script purges more than is a window older than its own stamp, and the key
  is given a whole window when the member is added. So the script that adds the last stamp of
  a stretch has counted the others (`StretchInv`).
- `RefusalsHaveCause` (`RefusedForCause`) is the other side: all the sorted set holds are
  stamps of requests that were added (`CauseInv`), so a refusal has as many of them behind it,
  in its window or after it, as the rate allows. The stamps count, not the requests: two of
  the same nanosecond are one member, as in the code.
- `EachRunsAlone`: a behaviour of the four together is one of each alone. `ServicesTyped`
  (`ServicesTypeOK`) follows from it.

Proved and not properties of a run: `TypedIsLost`, `RefusedForCause`, `PurposeKept`, `LabelEnds`,
`DeadEndsKnown`, `BansFail` and `SuspendedByForm`; TLC found them to hold on the runs' instances
(with `AdminIdKnown = FALSE` where they ask for it) before they were proved. `TipCredited` and
`RefusedOnlyBelowThreshold` are properties of violated runs only.

Only model-checked: the liveness properties `LockoutEnds`, `RequestsEnd`,
`SignedInLeaves` and `BusyEnds`. Liveness under fairness needs `ENABLED`, which is out of the
prover's reach.

## Not modelled

- The studio is fixed data behind buttons without handlers. Content, notifications, the job
  queue and the gateway have no behaviour beyond single statements and wiring.
- Videos: `RequestUpload` leaves columns NULL that `GetByID` scans into strings
  (`services/video/internal/repository/video.go:34`), so confirming an upload, processing it and
  the callback all fail. A model of them would be of code that cannot run. (The console's
  update writes the field `visibility` into `status`.)
- Storage: providers and rules are kept and reloaded, but the upload handlers are
  placeholders and nothing asks the manager or the router; a reload of the rules discards
  what it has read.
- Never used, and left out: `SendRoundRobin`, `SetStrategy`, `CustomRateLimit`,
  `InMemoryRateLimiter`, `GetViewerCount`, `providerMap`.

The runs and properties are kept to as many as one can afford to repeat on every change.

Every invariant and action property of a passing run is proved. Still to be stated: the safe
half of the liveness properties, that a request which has not ended has a step to take and
that each of its steps brings it nearer to its end, without `ENABLED`.
