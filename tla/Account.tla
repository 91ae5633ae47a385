------------------------------- MODULE Account -------------------------------
(***************************************************************************)
(* One account of the auth service: its row of the table users, its bans,  *)
(* its refresh tokens and its link to an OAuth provider, and the requests  *)
(* of the visitor and of the administrators that read and write them.      *)
(*                                                                         *)
(* As in CreatorLedger one action is one SQL statement; the statements of  *)
(* different requests interleave, each may fail ("err") or take effect     *)
(* although its request sees an error ("lost").  A handler goes on with    *)
(* what it read at its start.  Whether a one-time code is accepted is the  *)
(* matter of Otp: here it may be or not, in the step that reads the row.   *)
(* Requests that only ask for a code write none of these tables.           *)
(***************************************************************************)
EXTENDS Integers

CONSTANTS
    Requests,       \* each id is used once
    Emails,         \* the addresses the account may have
    Home,           \* the address it is created with, which the provider vouches for
    Faults,         \* the faulty outcomes a statement may have
    AdminIdKnown,   \* does a handler find the administrator's id in the request's context?
    NoRequest

ASSUME HomeIsEmail     == Home \in Emails
ASSUME FaultsAreKnown  == Faults \subseteq {"err", "lost"}
ASSUME FlagIsBoolean   == AdminIdKnown \in BOOLEAN
ASSUME NoRequestIsNone == NoRequest \notin Requests

VARIABLES
    user,       \* users: the account's row, its status "none" while there is no row
    linked,     \* oauth_accounts: the provider's identity has a row
    ban,        \* user_ban_history: the row a request wrote
    token,      \* refresh_tokens: the row a request wrote
    issued,     \* an access token of the account is with a client
    at,         \* where a request stands: the statement it runs next, or how it ended
    kind,       \* which request it is
    email,      \* the address it names
    seen,       \* the row as it read it
    wrote,      \* history: the password that a reset has set
    lastBan,    \* history: the ban or unban that was the last to begin
    settled     \* history: it has ended after all the others, and the status was left alone

request == <<at, kind, email, seen>>
vars == <<user, linked, ban, token, issued, request, wrote, lastBan, settled>>

Outcomes == {"ok"} \cup Faults
Applied(o) == o # "err"

\* Passwords are counted: a reset sets the next one.
NoUser == [status |-> "none", verified |-> FALSE, email |-> Home, password |-> 0]
Created == [NoUser EXCEPT !.status = "pending"]
Verified == [NoUser EXCEPT !.status = "active", !.verified = TRUE]
NoToken == [status |-> "none", saved |-> 0]

\* Observed from before there is an account, or with one of long ago.
Init ==
    /\ \/ user = NoUser /\ issued = FALSE
       \/ user = Verified /\ issued = TRUE
    /\ linked = FALSE
    /\ ban = [r \in Requests |-> "none"]
    /\ token = [r \in Requests |-> NoToken]
    /\ at = [r \in Requests |-> "idle"]
    /\ kind = [r \in Requests |-> "none"]
    /\ email = [r \in Requests |-> Home]
    /\ seen = [r \in Requests |-> NoUser]
    /\ wrote = [r \in Requests |-> 0]
    /\ lastBan = NoRequest
    /\ settled = FALSE

(***************************************************************************)
(* Steps of a request.                                                     *)
(***************************************************************************)
Exists == user.status # "none"
Blocked == {"suspended", "deleted"}

Goes(r, stage) ==
    /\ at' = [at EXCEPT ![r] = stage]
    /\ UNCHANGED <<kind, email, seen>>
GoesOn(r, o, stage) == Goes(r, IF o = "ok" THEN stage ELSE "failed")

\* The first statement of a request of kind k that names the address e, and the row
\* it has read.
Begins(r, k, e, row, stage) ==
    /\ at[r] = "idle"
    /\ at' = [at EXCEPT ![r] = stage]
    /\ kind' = [kind EXCEPT ![r] = k]
    /\ email' = [email EXCEPT ![r] = e]
    /\ seen' = [seen EXCEPT ![r] = row]

FindByEmail(e) == IF Exists /\ user.email = e THEN user ELSE NoUser

tables == <<user, linked, ban, token, issued, wrote, lastBan, settled>>

\* A read that fails, or finds what lets the handler go no further, ends the request.
Reads(r, k, e, Fits, stage) ==
    LET row == FindByEmail(e)
    IN  /\ \/ Fits /\ Begins(r, k, e, row, stage)
           \/ Begins(r, k, e, row, "refused")
        /\ UNCHANGED tables

Writes(row) == user' = row /\ UNCHANGED <<linked, ban, token, issued, wrote, lastBan>>
\* Writers of the status other than bans and unbans.
SetsStatus(o, row) ==
    IF Applied(o) THEN Writes(row) /\ settled' = FALSE ELSE UNCHANGED tables

(***************************************************************************)
(* Tokens.                                                                 *)
(***************************************************************************)
\* GenerateTokens: the answer with the access token follows the INSERT.
SaveRefreshToken(r) ==
    /\ at[r] = "save"
    /\ \E o \in Outcomes :
        /\ token' = IF Applied(o)
                    THEN [token EXCEPT ![r] = [status |-> "live", saved |-> user.password]]
                    ELSE token
        /\ issued' = (issued \/ o = "ok")
        /\ GoesOn(r, o, "done")
    /\ UNCHANGED <<user, linked, ban, wrote, lastBan, settled>>

RevokeAll ==
    [q \in Requests |-> IF token[q].status = "live" THEN [token[q] EXCEPT !.status = "revoked"]
                                                    ELSE token[q]]
RevokeAllUserRefreshTokens(o) ==
    /\ token' = IF Applied(o) THEN RevokeAll ELSE token
    /\ UNCHANGED <<user, linked, ban, issued, wrote, lastBan, settled>>

Logout(r) ==
    /\ issued
    /\ \E o \in Outcomes :
        /\ RevokeAllUserRefreshTokens(o)
        /\ Begins(r, "logout", Home, NoUser, IF o = "ok" THEN "done" ELSE "failed")

\* RefreshTokens looks a token up by a hash of its own: bcrypt salts each hash anew, so
\* none is ever found, and the rotation that would follow is never reached.
RefreshTokens(r) ==
    /\ \E q \in Requests : token[q].status # "none"
    /\ Begins(r, "refresh", Home, NoUser, "refused")
    /\ UNCHANGED tables

(***************************************************************************)
(* Register, Login, Verify.                                                *)
(***************************************************************************)
Register(r) == Reads(r, "register", Home, ~Exists, "create")

\* A second row of the address is refused by the table; the row of another account, once
\* this one has changed its address, is not this one's.
Create(r) ==
    /\ at[r] = "create"
    /\ \E o \in Outcomes :
        IF Exists THEN Goes(r, "failed") /\ UNCHANGED tables
        ELSE /\ SetsStatus(o, Created)
             /\ GoesOn(r, o, IF kind[r] = "oauth" THEN "link" ELSE "done")

Login(r) ==
    \E e \in Emails :
        LET row == FindByEmail(e)
        IN  Reads(r, "login", e, row.verified /\ row.status \notin Blocked, "save")

\* Mutant: the handler does not ask whether the address is verified.
VerifiesAgain(r) == \E e \in Emails : Reads(r, "verify", e, FindByEmail(e) # NoUser, "verify")

Verify(r) ==
    \E e \in Emails :
        LET row == FindByEmail(e)
        IN  Reads(r, "verify", e, row # NoUser /\ ~row.verified, "verify")

\* An OAuth callback goes on when this fails; one that created the account reads it again.
VerifyEmail(r) ==
    /\ at[r] = "verify"
    /\ \E o \in Outcomes :
        /\ SetsStatus(o, [user EXCEPT !.verified = TRUE, !.status = "active"])
        /\ IF kind[r] = "verify" THEN GoesOn(r, o, "reread")
           ELSE Goes(r, IF seen[r] = NoUser THEN "reread" ELSE "save")

\* Verify asks for the address again, and uses the row without looking whether there is
\* one; the callback asks for the id.
Reread(r) ==
    /\ at[r] = "reread"
    /\ \/ Goes(r, "failed")
       \/ Goes(r, IF kind[r] = "verify" /\ FindByEmail(email[r]) = NoUser THEN "panic" ELSE "save")
    /\ UNCHANGED tables

(***************************************************************************)
(* ResetConfirm and EmailChangeConfirm.                                    *)
(***************************************************************************)
ResetConfirm(r) ==
    \E e \in Emails : Reads(r, "reset", e, FindByEmail(e) # NoUser, "password")

\* Mutant: the sessions are left alone.
KeepsSessions(r) ==
    /\ at[r] = "password"
    /\ user' = [user EXCEPT !.password = @ + 1]
    /\ wrote' = [wrote EXCEPT ![r] = user.password + 1]
    /\ Goes(r, "done")
    /\ UNCHANGED <<linked, ban, token, issued, lastBan, settled>>

UpdatePassword(r) ==
    /\ at[r] = "password"
    /\ \E o \in Outcomes :
        /\ IF Applied(o)
           THEN /\ user' = [user EXCEPT !.password = @ + 1]
                /\ wrote' = [wrote EXCEPT ![r] = user.password + 1]
           ELSE UNCHANGED <<user, wrote>>
        /\ GoesOn(r, o, "revoke")
    /\ UNCHANGED <<linked, ban, token, issued, lastBan, settled>>

\* Its error is only logged.
RevokeSessions(r) ==
    /\ at[r] = "revoke"
    /\ \E o \in Outcomes :
        /\ RevokeAllUserRefreshTokens(o)
        /\ Goes(r, IF o = "ok" THEN "done" ELSE "warned")

\* Behind both codes: one UPDATE by id, for an address nobody else has.
EmailChangeConfirm(r) ==
    /\ issued
    /\ \E e \in Emails, o \in Outcomes :
        /\ SetsStatus(o, [user EXCEPT !.email = e, !.verified = FALSE, !.status = "pending"])
        /\ Begins(r, "confirm", e, NoUser, IF o = "ok" THEN "done" ELSE "failed")

(***************************************************************************)
(* HandleCallback: by the link, by the provider's address, or a new        *)
(* account.  An existing account's status is not looked at.                *)
(***************************************************************************)
HandleCallback(r) ==
    /\ \/ Begins(r, "oauth", Home, NoUser, "failed")
       \/ /\ linked
          /\ Begins(r, "oauth", Home, user, "save")
       \/ /\ ~linked
          /\ Begins(r, "oauth", Home, NoUser, "find")
    /\ UNCHANGED tables

FindUser(r) ==
    /\ at[r] = "find"
    /\ at' = [at EXCEPT ![r] = IF FindByEmail(Home) = NoUser THEN "create" ELSE "link"]
    /\ seen' = [seen EXCEPT ![r] = FindByEmail(Home)]
    /\ UNCHANGED <<kind, email, tables>>

\* Mutant: the error is only logged.
LinkErrorLogged(r) ==
    /\ at[r] = "link"
    /\ \E o \in Outcomes :
        /\ linked' = (linked \/ Applied(o))
        /\ Goes(r, IF seen[r].verified THEN "save" ELSE "verify")
    /\ UNCHANGED <<user, ban, token, issued, wrote, lastBan, settled>>

CreateOAuthAccount(r) ==
    /\ at[r] = "link"
    /\ \E o \in Outcomes :
        /\ linked' = (linked \/ Applied(o))
        /\ GoesOn(r, o, IF seen[r].verified THEN "save" ELSE "verify")
    /\ UNCHANGED <<user, ban, token, issued, wrote, lastBan, settled>>

(***************************************************************************)
(* The administrators.                                                     *)
(***************************************************************************)
InBan(r) == at[r] \in {"suspend", "lift"}

\* The first of the two statements of a ban or unban, and the second.
BanBegins(r, k, o, rows, stage) ==
    /\ Exists
    /\ IF Applied(o) THEN ban' = rows /\ lastBan' = r /\ settled' = FALSE
                     ELSE UNCHANGED <<ban, lastBan, settled>>
    /\ Begins(r, k, Home, NoUser, IF o = "ok" THEN stage ELSE "failed")
    /\ UNCHANGED <<user, linked, token, issued, wrote>>

BanEnds(r, stage, status) ==
    /\ at[r] = stage
    /\ \E o \in Outcomes :
        /\ user' = IF Applied(o) THEN [user EXCEPT !.status = status] ELSE user
        /\ settled' = (o = "ok" /\ lastBan = r /\ \A q \in Requests \ {r} : ~InBan(q))
        /\ GoesOn(r, o, "done")
    /\ UNCHANGED <<linked, ban, token, issued, wrote, lastBan>>

\* banned_by refers to a user: without the administrator's id the INSERT fails.
BanUser(r) ==
    \E o \in Outcomes :
        BanBegins(r, "ban", IF AdminIdKnown THEN o ELSE "err", [ban EXCEPT ![r] = "active"], "suspend")

\* Mutant: a status of its own.
BansUser(r) == BanEnds(r, "suspend", "banned")

SuspendUser(r) == BanEnds(r, "suspend", IF user.status = "deleted" THEN "deleted" ELSE "suspended")

\* Mutant: one ban of several is taken back.
UnbansOne(r) ==
    \E q \in Requests, o \in Outcomes :
        ban[q] = "active" /\ BanBegins(r, "unban", o, [ban EXCEPT ![q] = "removed"], "lift")

UnbanUser(r) ==
    \E o \in Outcomes :
        BanBegins(r, "unban", o,
                  [q \in Requests |-> IF ban[q] = "active" THEN "removed" ELSE ban[q]], "lift")

LiftSuspension(r) ==
    BanEnds(r, "lift", IF user.status = "suspended" THEN "active" ELSE user.status)

\* AdminUpdateUser, BulkUpdateStatus (whose INSERT of bans by "system" fails) and
\* AdminSoftDelete.
StatusesToSet == {"active", "suspended", "pending", "deleted"}
AdminUpdateUser(r) ==
    /\ Exists
    /\ \E s \in StatusesToSet, o \in Outcomes :
        /\ SetsStatus(o, [user EXCEPT !.status = s])
        /\ Begins(r, "set", Home, NoUser, IF o = "ok" THEN "done" ELSE "failed")

-----------------------------------------------------------------------------
Visitor(r) ==
    \/ Register(r) \/ Create(r) \/ Login(r) \/ Verify(r) \/ VerifyEmail(r) \/ Reread(r)
    \/ SaveRefreshToken(r) \/ Logout(r) \/ RefreshTokens(r)
    \/ ResetConfirm(r) \/ UpdatePassword(r) \/ RevokeSessions(r) \/ EmailChangeConfirm(r)
    \/ HandleCallback(r) \/ FindUser(r) \/ CreateOAuthAccount(r)

Administrator(r) ==
    \/ BanUser(r) \/ SuspendUser(r) \/ UnbanUser(r) \/ LiftSuspension(r) \/ AdminUpdateUser(r)

Next == \E r \in Requests : Visitor(r) \/ Administrator(r)
Spec == Init /\ [][Next]_vars
-----------------------------------------------------------------------------
Statuses == {"none", "pending", "active", "suspended", "deleted"}
Rows == [status : Statuses, verified : BOOLEAN, email : Emails, password : Nat]
Tokens == [status : {"none", "live", "revoked"}, saved : Nat]
Stages == {"idle", "create", "verify", "reread", "save", "password", "revoke", "find", "link",
           "suspend", "lift", "done", "refused", "failed", "warned", "panic"}
Kinds == {"none", "register", "login", "verify", "logout", "refresh", "reset", "confirm", "oauth",
          "ban", "unban", "set"}

TypeOK ==
    /\ user \in Rows
    /\ linked \in BOOLEAN /\ issued \in BOOLEAN /\ settled \in BOOLEAN
    /\ ban \in [Requests -> {"none", "active", "removed"}]
    /\ token \in [Requests -> Tokens]
    /\ at \in [Requests -> Stages]
    /\ kind \in [Requests -> Kinds]
    /\ email \in [Requests -> Emails]
    /\ seen \in [Requests -> Rows]
    /\ wrote \in [Requests -> Nat]
    /\ lastBan \in Requests \cup {NoRequest}

\* Bans and unbans write the record first and the status second.  However the statements
\* of several of them interleave and fail: once the one that began last has ended well
\* after all the others, and nothing else has written the status, the account is
\* suspended exactly if it has an active ban (or it was deleted).
BansSettled ==
    settled =>
        \/ user.status = "deleted"
        \/ user.status = "suspended" <=> \E r \in Requests : ban[r] = "active"

\* A session that was saved before a password reset is over when the reset has been
\* answered and could revoke: only a login that had read the old password and saves its
\* token later outlives it.
ResetEndsSessions ==
    \A q, r \in Requests :
        (kind[q] = "reset" /\ at[q] = "done" /\ token[r].status = "live")
            => token[r].saved >= wrote[q]

\* A suspension or deletion ends by an administrator's word, by a change of the address,
\* or by a verification that read the account while its address was unverified; the
\* lifting of a ban does not bring a deleted account back.
BlockEnds ==
    [][\A b \in Blocked :
        (user.status = b /\ user'.status \notin {b, "deleted"}) =>
            \E r \in Requests :
                /\ at'[r] # at[r]
                /\ \/ kind'[r] \in {"set", "confirm"}
                   \/ kind'[r] = "unban" /\ b = "suspended"
                   \/ at[r] = "verify" /\ ~seen[r].verified]_vars

\* An OAuth callback that lets its visitor in leaves the provider's identity linked,
\* so that the next one finds the account, whatever statement of another has failed.
LetInIsLinked ==
    \A r \in Requests : (kind[r] = "oauth" /\ token[r].status # "none") => linked
=============================================================================
