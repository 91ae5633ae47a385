---------------------------- MODULE AccountProof ----------------------------
(***************************************************************************)
(* Proofs about Account, for any number of requests and addresses, with    *)
(* and without faults, whether or not the administrator's id is known.     *)
(***************************************************************************)
EXTENDS Account, TLAPS

\* What a request's stage says of it.
StagesOK ==
    \A r \in Requests :
        /\ at[r] = "password" => Exists
        /\ kind[r] = "reset" => at[r] \in {"password", "revoke", "done", "refused", "failed", "warned"}
        /\ at[r] = "lift" => kind[r] = "unban"
        /\ at[r] = "verify" => ~seen[r].verified
        /\ token[r].status # "none" => at[r] \in {"done", "failed"}
        /\ (kind[r] = "oauth" /\ at[r] \in {"verify", "reread", "save"}) => linked

\* Passwords only grow, and none is set before there is an account.
PasswordsOK ==
    /\ ~Exists => user.password = 0
    /\ \A r \in Requests : wrote[r] <= user.password /\ (~Exists => wrote[r] = 0)

\* Between its two statements the last ban knows what the records say.
BanOrder ==
    \A r \in Requests :
        lastBan = r =>
            /\ at[r] = "suspend" => ban[r] = "active"
            /\ at[r] = "lift" => \A q \in Requests : ban[q] # "active"

IInv ==
    /\ TypeOK
    /\ StagesOK
    /\ PasswordsOK
    /\ BanOrder
    /\ BansSettled
    /\ ResetEndsSessions
    /\ LetInIsLinked

-----------------------------------------------------------------------------
LEMMA InitOK == Init => IInv
<1>. SUFFICES ASSUME Init PROVE IInv
  OBVIOUS
<1>0. NoUser \in Rows /\ NoToken \in Tokens
  BY HomeIsEmail DEF NoUser, NoToken, Rows, Tokens, Statuses
<1>a. NoUser.password = 0
  BY DEF NoUser
<1>b. Verified \in Rows /\ Verified.password = NoUser.password
  BY <1>0 DEF Verified, Rows, Statuses
<1>1. user \in Rows /\ NoUser \in Rows /\ NoToken \in Tokens
  BY <1>0, <1>b DEF Init
<1>2. TypeOK
  BY <1>1, HomeIsEmail DEF Init, TypeOK, Stages, Kinds
<1>3. StagesOK /\ BanOrder /\ BansSettled /\ ResetEndsSessions /\ LetInIsLinked
  BY NoRequestIsNone
  DEF Init, StagesOK, BanOrder, BansSettled, ResetEndsSessions, LetInIsLinked, NoToken
<1>c. user.password = 0 /\ wrote = [r \in Requests |-> 0]
  BY <1>a, <1>b DEF Init
<1>4. PasswordsOK
<2>1. ASSUME NEW r \in Requests PROVE wrote[r] = 0
  BY <1>c
<2>2. 0 <= 0
  OBVIOUS
<2>3. ASSUME NEW r \in Requests PROVE wrote[r] <= user.password
  BY <1>c, <2>1, <2>2
<2>4. ~Exists => user.password = 0
  BY <1>c
<2>. QED
  BY <2>1, <2>3, <2>4 DEF PasswordsOK
<1>. QED
  BY <1>2, <1>3, <1>4 DEF IInv

-----------------------------------------------------------------------------
(***************************************************************************)
(* The shapes of a step: a request begins or goes on, and most steps leave *)
(* passwords, bans and the tokens in force alone.                          *)
(***************************************************************************)
Moved(r, k, e, row, s) ==
    /\ at' = [at EXCEPT ![r] = s]
    /\ kind' = [kind EXCEPT ![r] = k]
    /\ email' = [email EXCEPT ![r] = e]
    /\ seen' = [seen EXCEPT ![r] = row]

LEMMA BeginsMoves ==
    ASSUME NEW r, NEW k, NEW e, NEW row, NEW s, Begins(r, k, e, row, s)
    PROVE  Moved(r, k, e, row, s) /\ at[r] = "idle"
  BY DEF Begins, Moved

LEMMA GoesMoves ==
    ASSUME TypeOK, NEW r \in Requests, NEW s, Goes(r, s)
    PROVE  /\ Moved(r, kind[r], email[r], seen[r], s)
           /\ kind[r] \in Kinds /\ email[r] \in Emails /\ seen[r] \in Rows
<1>1. \A f : f \in [Requests -> Kinds] => [f EXCEPT ![r] = f[r]] = f
  OBVIOUS
<1>2. \A f : f \in [Requests -> Emails] => [f EXCEPT ![r] = f[r]] = f
  OBVIOUS
<1>3. \A f : f \in [Requests -> Rows] => [f EXCEPT ![r] = f[r]] = f
  OBVIOUS
<1>. QED
  BY <1>1, <1>2, <1>3 DEF Goes, Moved, TypeOK

\* A read writes no table, and goes on only with what fits.
LEMMA ReadStep ==
    ASSUME NEW r, NEW k, NEW e, NEW Fits, NEW stage, Reads(r, k, e, Fits, stage)
    PROVE  /\ UNCHANGED tables
           /\ \E s \in {stage, "refused"} :
                  (s = "refused" \/ Fits) /\ Begins(r, k, e, FindByEmail(e), s)
  BY DEF Reads

LEMMA RowsRead ==
    ASSUME TypeOK, NEW e \in Emails
    PROVE  FindByEmail(e) \in Rows /\ NoUser \in Rows /\ user \in Rows
<1>1. NoUser \in Rows
  BY HomeIsEmail DEF NoUser, Rows, Statuses
<1>. QED
  BY <1>1 DEF TypeOK, FindByEmail

\* What a request must satisfy where it goes.
Allowed(k, row, s) ==
    /\ s = "password" => Exists'
    /\ k = "reset" => s \in {"password", "revoke", "done", "refused", "failed", "warned"}
    /\ (k = "reset" /\ s = "done") => token' = RevokeAll
    /\ s = "verify" => ~row.verified
    /\ (k = "oauth" /\ s \in {"verify", "reread", "save"}) => linked'

Quiet ==
    /\ Exists => Exists'
    /\ user'.password = user.password /\ wrote' = wrote
    /\ linked => linked'
    /\ token' = token \/ token' = RevokeAll
    /\ ban' = ban /\ lastBan' = lastBan
    /\ settled' => settled /\ user'.status = user.status

LEMMA RevokedTokens ==
    ASSUME TypeOK, NEW r \in Requests
    PROVE  /\ RevokeAll[r].status # "live"
           /\ RevokeAll[r].status # "none" <=> token[r].status # "none"
           /\ RevokeAll \in [Requests -> Tokens]
<1>1. ASSUME NEW q \in Requests
      PROVE  /\ RevokeAll[q].status # "live"
             /\ RevokeAll[q].status # "none" <=> token[q].status # "none"
             /\ RevokeAll[q] \in Tokens
  BY <1>1 DEF RevokeAll, TypeOK, Tokens
<1>. QED
  BY <1>1 DEF RevokeAll

LEMMA QuietStep ==
    ASSUME IInv, NEW r \in Requests, NEW k, NEW e, NEW row, NEW s,
           Moved(r, k, e, row, s), Allowed(k, row, s), Quiet,
           at[r] \notin {"done", "failed"}, s \notin {"suspend", "lift"}
    PROVE  /\ StagesOK' /\ PasswordsOK' /\ BanOrder'
           /\ BansSettled' /\ ResetEndsSessions' /\ LetInIsLinked'
<1>. USE DEF IInv
<1>1. \A q \in Requests :
        /\ token'[q].status # "none" <=> token[q].status # "none"
        /\ token'[q] = token[q] \/ token'[q].status # "live"
  BY RevokedTokens DEF Quiet
<1>2. \A q \in Requests :
        /\ at'[q] = IF q = r THEN s ELSE at[q]
        /\ kind'[q] = IF q = r THEN k ELSE kind[q]
        /\ seen'[q] = IF q = r THEN row ELSE seen[q]
  BY DEF Moved, TypeOK
<1>3. token[r].status = "none"
  BY DEF StagesOK
<1>4. StagesOK'
  BY <1>1, <1>2, <1>3 DEF StagesOK, Allowed, Quiet
<1>5. PasswordsOK'
  BY DEF PasswordsOK, Quiet
<1>6. BanOrder'
  BY <1>2 DEF BanOrder, Quiet
<1>7. BansSettled'
  BY DEF BansSettled, Quiet
<1>8. ResetEndsSessions'
<2>1. CASE k = "reset" /\ s = "done"
  BY <2>1, RevokedTokens DEF ResetEndsSessions, Allowed
<2>2. CASE ~(k = "reset" /\ s = "done")
  BY <1>1, <1>2, <2>2 DEF ResetEndsSessions, Quiet
<2>. QED
  BY <2>1, <2>2
<1>9. LetInIsLinked'
  BY <1>1, <1>2, <1>3 DEF LetInIsLinked, Quiet
<1>. QED
  BY <1>4, <1>5, <1>6, <1>7, <1>8, <1>9

\* The types of the columns of a request.
LEMMA MovedType ==
    ASSUME TypeOK, NEW r \in Requests, NEW k \in Kinds, NEW e \in Emails, NEW row \in Rows,
           NEW s \in Stages, Moved(r, k, e, row, s)
    PROVE  /\ at' \in [Requests -> Stages] /\ kind' \in [Requests -> Kinds]
           /\ email' \in [Requests -> Emails] /\ seen' \in [Requests -> Rows]
  BY DEF Moved, TypeOK

TablesOK ==
    /\ user \in Rows
    /\ linked \in BOOLEAN /\ issued \in BOOLEAN /\ settled \in BOOLEAN
    /\ ban \in [Requests -> {"none", "active", "removed"}]
    /\ token \in [Requests -> Tokens]
    /\ wrote \in [Requests -> Nat]
    /\ lastBan \in Requests \cup {NoRequest}

\* A quiet step, from where it goes and what the tables hold after it.
LEMMA QuietKeeps ==
    ASSUME IInv, NEW r \in Requests, NEW k \in Kinds, NEW e \in Emails, NEW row \in Rows,
           NEW s \in Stages, Moved(r, k, e, row, s), Allowed(k, row, s), Quiet, TablesOK',
           at[r] \notin {"done", "failed"}, s \notin {"suspend", "lift"}
    PROVE  IInv'
<1>1. TypeOK'
  BY MovedType DEF IInv, TypeOK, TablesOK
<1>. QED
  BY <1>1, QuietStep DEF IInv

LEMMA TablesTyped == ASSUME TypeOK PROVE TablesOK
  BY DEF TypeOK, TablesOK

LEMMA TablesLeft ==
    ASSUME TypeOK, UNCHANGED tables
    PROVE  TablesOK' /\ Quiet /\ (Exists <=> Exists')
  BY DEF TypeOK, TablesOK, Quiet, tables, Exists

LEMMA StatusSet ==
    ASSUME TypeOK, NEW o, NEW row \in Rows, SetsStatus(o, row),
           row.password = user.password, row.status # "none"
    PROVE  TablesOK' /\ Quiet /\ (Exists => Exists')
<1>1. CASE UNCHANGED tables
  BY <1>1, TablesLeft
<1>2. CASE Writes(row) /\ settled' = FALSE
  BY <1>2 DEF TypeOK, TablesOK, Quiet, Exists, Writes
<1>. QED
  BY <1>1, <1>2 DEF SetsStatus

LEMMA TokensRevoked ==
    ASSUME TypeOK, NEW o, RevokeAllUserRefreshTokens(o)
    PROVE  TablesOK' /\ Quiet /\ (Exists <=> Exists')
<1>1. \A q \in Requests : RevokeAll \in [Requests -> Tokens]
  BY RevokedTokens
<1>2. RevokeAll \in [Requests -> Tokens]
<2>1. ASSUME NEW q \in Requests PROVE RevokeAll[q] \in Tokens
  BY <2>1, <1>1 DEF RevokeAll
<2>. QED
  BY <2>1 DEF RevokeAll
<1>. QED
  BY <1>2 DEF TypeOK, TablesOK, Quiet, RevokeAllUserRefreshTokens, Exists

-----------------------------------------------------------------------------
(***************************************************************************)
(* The actions.  First the requests' first statements.                     *)
(***************************************************************************)
LEMMA ReadKeeps ==
    ASSUME IInv, NEW r \in Requests, NEW k \in Kinds, NEW e \in Emails, NEW Fits,
           NEW stage \in Stages \ {"suspend", "lift"}, Reads(r, k, e, Fits, stage),
           Fits => Allowed(k, FindByEmail(e), stage)
    PROVE  IInv'
<1>1. PICK s \in {stage, "refused"} :
          (s = "refused" \/ Fits) /\ Begins(r, k, e, FindByEmail(e), s)
  BY ReadStep
<1>2. Moved(r, k, e, FindByEmail(e), s) /\ at[r] = "idle"
  BY <1>1, BeginsMoves
<1>3. Allowed(k, FindByEmail(e), s)
  BY <1>1 DEF Allowed
<1>4. s \in Stages /\ s \notin {"suspend", "lift"}
  BY DEF Stages
<1>5. TablesOK' /\ Quiet
  BY ReadStep, TablesLeft DEF IInv
<1>. QED
  BY <1>2, <1>3, <1>4, <1>5, QuietKeeps, RowsRead DEF IInv

LEMMA ReadActions ==
    ASSUME IInv, NEW r \in Requests,
           Register(r) \/ Login(r) \/ Verify(r) \/ ResetConfirm(r)
    PROVE  IInv'
<1>. USE DEF Kinds, Stages
<1>0. \A e : FindByEmail(e) # NoUser => Exists
  BY DEF FindByEmail
<1>1. CASE Register(r)
  BY <1>1, ReadKeeps, HomeIsEmail DEF Register, Allowed
<1>2. CASE Login(r)
<2>1. PICK e \in Emails :
          Reads(r, "login", e, FindByEmail(e).verified /\ FindByEmail(e).status \notin Blocked, "save")
  BY <1>2 DEF Login
<2>. QED
  BY <2>1, ReadKeeps DEF Allowed
<1>3. CASE Verify(r)
<2>1. PICK e \in Emails :
          Reads(r, "verify", e, FindByEmail(e) # NoUser /\ ~FindByEmail(e).verified, "verify")
  BY <1>3 DEF Verify
<2>. QED
  BY <2>1, ReadKeeps DEF Allowed
<1>4. CASE ResetConfirm(r)
<2>1. PICK e \in Emails : Reads(r, "reset", e, FindByEmail(e) # NoUser, "password")
  BY <1>4 DEF ResetConfirm
<2>2. UNCHANGED tables
  BY <2>1, ReadStep
<2>3. Exists <=> Exists'
  BY <2>2, TablesLeft DEF IInv
<2>. QED
  BY <2>1, <2>3, <1>0, ReadKeeps DEF Allowed
<1>. QED
  BY <1>1, <1>2, <1>3, <1>4

LEMMA BeginKeeps ==
    ASSUME IInv, NEW r \in Requests, NEW k \in Kinds, NEW e \in Emails, NEW row \in Rows,
           NEW s \in Stages \ {"suspend", "lift"}, Begins(r, k, e, row, s),
           Allowed(k, row, s), Quiet, TablesOK'
    PROVE  IInv'
  BY BeginsMoves, QuietKeeps

LEMMA BeginActions ==
    ASSUME IInv, NEW r \in Requests,
           Logout(r) \/ RefreshTokens(r) \/ EmailChangeConfirm(r) \/ HandleCallback(r)
               \/ AdminUpdateUser(r)
    PROVE  IInv'
<1>. USE DEF Kinds, Stages
<1>0. NoUser \in Rows /\ user \in Rows /\ TypeOK
  BY RowsRead, HomeIsEmail DEF IInv
<1>1. CASE Logout(r)
<2>1. PICK o \in Outcomes :
          /\ RevokeAllUserRefreshTokens(o)
          /\ Begins(r, "logout", Home, NoUser, IF o = "ok" THEN "done" ELSE "failed")
  BY <1>1 DEF Logout
<2>2. TablesOK' /\ Quiet
  BY <1>0, <2>1, TokensRevoked
<2>. QED
  BY <1>0, <2>1, <2>2, BeginKeeps, HomeIsEmail DEF Allowed
<1>2. CASE RefreshTokens(r)
<2>1. TablesOK' /\ Quiet
  BY <1>0, <1>2, TablesLeft DEF RefreshTokens
<2>. QED
  BY <1>0, <1>2, <2>1, BeginKeeps, HomeIsEmail DEF Allowed, RefreshTokens
<1>3. CASE EmailChangeConfirm(r)
<2>1. PICK e \in Emails, o \in Outcomes :
          /\ SetsStatus(o, [user EXCEPT !.email = e, !.verified = FALSE, !.status = "pending"])
          /\ Begins(r, "confirm", e, NoUser, IF o = "ok" THEN "done" ELSE "failed")
  BY <1>3 DEF EmailChangeConfirm
<2>2. LET row == [user EXCEPT !.email = e, !.verified = FALSE, !.status = "pending"]
      IN  row \in Rows /\ row.password = user.password /\ row.status # "none"
  BY <1>0 DEF Rows, Statuses
<2>3. TablesOK' /\ Quiet
  BY <1>0, <2>1, <2>2, StatusSet
<2>. QED
  BY <1>0, <2>1, <2>3, BeginKeeps DEF Allowed
<1>4. CASE HandleCallback(r)
<2>1. TablesOK' /\ Quiet /\ linked' = linked
  BY <1>0, <1>4, TablesLeft DEF HandleCallback, tables
<2>2. PICK row \in {NoUser, user}, s \in {"failed", "save", "find"} :
          Begins(r, "oauth", Home, row, s) /\ (s = "save" => linked)
  BY <1>4 DEF HandleCallback
<2>. QED
  BY <1>0, <2>1, <2>2, BeginKeeps, HomeIsEmail DEF Allowed
<1>5. CASE AdminUpdateUser(r)
<2>1. PICK status \in StatusesToSet, o \in Outcomes :
          /\ SetsStatus(o, [user EXCEPT !.status = status])
          /\ Begins(r, "set", Home, NoUser, IF o = "ok" THEN "done" ELSE "failed")
  BY <1>5 DEF AdminUpdateUser
<2>2. LET row == [user EXCEPT !.status = status]
      IN  row \in Rows /\ row.password = user.password /\ row.status # "none"
  BY <1>0 DEF Rows, Statuses, StatusesToSet
<2>3. TablesOK' /\ Quiet
  BY <1>0, <2>1, <2>2, StatusSet
<2>. QED
  BY <1>0, <2>1, <2>3, BeginKeeps, HomeIsEmail DEF Allowed
<1>. QED
  BY <1>1, <1>2, <1>3, <1>4, <1>5

-----------------------------------------------------------------------------
(***************************************************************************)
(* The later statements that are quiet.                                    *)
(***************************************************************************)
LEMMA GoKeeps ==
    ASSUME IInv, NEW r \in Requests, NEW s \in Stages \ {"suspend", "lift"}, Goes(r, s),
           Allowed(kind[r], seen[r], s), Quiet, TablesOK', at[r] \notin {"done", "failed"}
    PROVE  IInv'
<1>1. TypeOK
  BY DEF IInv
<1>. QED
  BY <1>1, GoesMoves, QuietKeeps

LEMMA GoActions ==
    ASSUME IInv, NEW r \in Requests,
           Create(r) \/ VerifyEmail(r) \/ Reread(r) \/ RevokeSessions(r) \/ FindUser(r)
               \/ CreateOAuthAccount(r)
    PROVE  IInv'
<1>. USE DEF Stages
<1>0. NoUser \in Rows /\ user \in Rows /\ TypeOK /\ StagesOK
  BY RowsRead, HomeIsEmail DEF IInv
<1>1. CASE Create(r)
<2>1. PICK s \in {"failed", "link", "done"} : Goes(r, s)
  BY <1>1 DEF Create, GoesOn
<2>2. Allowed(kind[r], seen[r], s) /\ at[r] = "create"
  BY <1>0, <1>1 DEF Allowed, StagesOK, Create
<2>3. CASE UNCHANGED tables
  BY <1>0, <2>1, <2>2, <2>3, GoKeeps, TablesLeft
<2>4. CASE ~Exists /\ \E o \in Outcomes : SetsStatus(o, Created)
<3>1. Created \in Rows /\ Created.password = NoUser.password /\ Created.status = "pending"
  BY <1>0 DEF Created, Rows, Statuses
<3>2. user.password = 0 /\ NoUser.password = 0
  BY <2>4 DEF IInv, PasswordsOK, NoUser
<3>3. TablesOK' /\ Quiet
  BY <1>0, <2>4, <3>1, <3>2, StatusSet
<3>. QED
  BY <2>1, <2>2, <3>3, GoKeeps
<2>. QED
  BY <1>1, <2>3, <2>4 DEF Create
<1>2. CASE VerifyEmail(r)
<2>1. PICK o \in Outcomes :
          SetsStatus(o, [user EXCEPT !.verified = TRUE, !.status = "active"])
  BY <1>2 DEF VerifyEmail
<2>2. PICK s \in {"failed", "reread", "save"} : Goes(r, s)
  BY <1>2 DEF VerifyEmail, GoesOn
<2>3. LET row == [user EXCEPT !.verified = TRUE, !.status = "active"]
      IN  row \in Rows /\ row.password = user.password /\ row.status # "none"
  BY <1>0 DEF Rows, Statuses
<2>4. TablesOK' /\ Quiet
  BY <1>0, <2>1, <2>3, StatusSet
<2>5. Allowed(kind[r], seen[r], s) /\ at[r] = "verify"
  BY <1>0, <1>2, <2>4 DEF Allowed, StagesOK, VerifyEmail, Quiet
<2>. QED
  BY <2>2, <2>4, <2>5, GoKeeps
<1>3. CASE Reread(r)
<2>1. PICK s \in {"failed", "panic", "save"} : Goes(r, s)
  BY <1>3 DEF Reread
<2>2. TablesOK' /\ Quiet
  BY <1>0, <1>3, TablesLeft DEF Reread
<2>3. Allowed(kind[r], seen[r], s) /\ at[r] = "reread"
  BY <1>0, <1>3, <2>2 DEF Allowed, StagesOK, Reread, Quiet
<2>. QED
  BY <2>1, <2>2, <2>3, GoKeeps
<1>4. CASE RevokeSessions(r)
<2>1. PICK o \in Outcomes :
          RevokeAllUserRefreshTokens(o) /\ Goes(r, IF o = "ok" THEN "done" ELSE "warned")
  BY <1>4 DEF RevokeSessions
<2>2. TablesOK' /\ Quiet
  BY <1>0, <2>1, TokensRevoked
<2>3. at[r] = "revoke"
  BY <1>4 DEF RevokeSessions
<2>4. o = "ok" => token' = RevokeAll
  BY <2>1 DEF RevokeAllUserRefreshTokens, Applied
<2>5. kind[r] \in Kinds
  BY <1>0 DEF TypeOK
<2>6. Allowed(kind[r], seen[r], IF o = "ok" THEN "done" ELSE "warned")
  BY <2>4 DEF Allowed
<2>. QED
  BY <2>1, <2>2, <2>3, <2>6, GoKeeps
<1>5. CASE FindUser(r)
<2>1. TablesOK' /\ Quiet
  BY <1>0, <1>5, TablesLeft DEF FindUser
<2>2. FindByEmail(Home) \in Rows
  BY <1>0, RowsRead, HomeIsEmail
<2>3. PICK s \in {"create", "link"} :
          Moved(r, kind[r], email[r], FindByEmail(Home), s)
<3>1. PICK s \in {"create", "link"} : at' = [at EXCEPT ![r] = s]
  BY <1>5 DEF FindUser
<3>2. \A f : f \in [Requests -> Kinds] => [f EXCEPT ![r] = f[r]] = f
  OBVIOUS
<3>3. \A f : f \in [Requests -> Emails] => [f EXCEPT ![r] = f[r]] = f
  OBVIOUS
<3>. QED
  BY <1>0, <1>5, <3>1, <3>2, <3>3 DEF FindUser, Moved, TypeOK
<2>4. kind[r] \in Kinds /\ email[r] \in Emails /\ at[r] = "find" /\ kind[r] # "reset"
  BY <1>0, <1>5 DEF TypeOK, FindUser, StagesOK
<2>. QED
  BY <2>1, <2>2, <2>3, <2>4, QuietKeeps DEF Allowed
<1>6. CASE CreateOAuthAccount(r)
<2>1. PICK o \in Outcomes :
          /\ linked' = (linked \/ Applied(o))
          /\ GoesOn(r, o, IF seen[r].verified THEN "save" ELSE "verify")
  BY <1>6 DEF CreateOAuthAccount
<2>2. UNCHANGED <<user, ban, token, issued, wrote, lastBan, settled>> /\ at[r] = "link"
  BY <1>6 DEF CreateOAuthAccount
<2>3. TablesOK' /\ Quiet /\ (o = "ok" => linked')
  BY <1>0, <2>1, <2>2 DEF TypeOK, TablesOK, Quiet, Exists, Applied
<2>4. PICK s \in {"failed", "save", "verify"} :
          /\ Goes(r, s)
          /\ s = "failed" \/ o = "ok"
          /\ s = "verify" => ~seen[r].verified
  BY <2>1 DEF GoesOn
<2>5. Allowed(kind[r], seen[r], s)
  BY <1>0, <2>2, <2>3, <2>4 DEF Allowed, StagesOK
<2>. QED
  BY <2>2, <2>3, <2>4, <2>5, GoKeeps
<1>. QED
  BY <1>1, <1>2, <1>3, <1>4, <1>5, <1>6

-----------------------------------------------------------------------------
(***************************************************************************)
(* The statements that are not quiet.                                      *)
(***************************************************************************)
LEMMA MovedTo ==
    ASSUME TypeOK, NEW r \in Requests, NEW k, NEW e, NEW row, NEW s, Moved(r, k, e, row, s)
    PROVE  \A q \in Requests :
               /\ at'[q] = IF q = r THEN s ELSE at[q]
               /\ kind'[q] = IF q = r THEN k ELSE kind[q]
               /\ seen'[q] = IF q = r THEN row ELSE seen[q]
  BY DEF Moved, TypeOK

LEMMA SaveKeeps ==
    ASSUME IInv, NEW r \in Requests, SaveRefreshToken(r)
    PROVE  IInv'
<1>. USE DEF IInv
<1>1. PICK o \in Outcomes :
          /\ token' = IF Applied(o)
                      THEN [token EXCEPT ![r] = [status |-> "live", saved |-> user.password]]
                      ELSE token
          /\ issued' = (issued \/ o = "ok")
          /\ GoesOn(r, o, "done")
  BY DEF SaveRefreshToken
<1>2. at[r] = "save" /\ UNCHANGED <<user, linked, ban, wrote, lastBan, settled>>
  BY DEF SaveRefreshToken
<1>3. PICK s \in {"done", "failed"} : Goes(r, s)
  BY <1>1 DEF GoesOn
<1>4. Moved(r, kind[r], email[r], seen[r], s) /\ s \in Stages
      /\ kind[r] \in Kinds /\ email[r] \in Emails /\ seen[r] \in Rows
  BY <1>3, GoesMoves DEF Stages
<1>5. \A q \in Requests :
          /\ at'[q] = IF q = r THEN s ELSE at[q]
          /\ kind'[q] = kind[q] /\ seen'[q] = seen[q]
  BY <1>4, MovedTo
<1>6. \A q \in Requests :
          \/ token'[q] = token[q]
          \/ q = r /\ token'[q] = [status |-> "live", saved |-> user.password]
  BY <1>1 DEF TypeOK
<1>7. TypeOK'
<2>1. [status |-> "live", saved |-> user.password] \in Tokens
  BY DEF TypeOK, Rows, Tokens
<2>2. token' \in [Requests -> Tokens] /\ issued' \in BOOLEAN
  BY <1>1, <2>1 DEF TypeOK
<2>. QED
  BY <1>2, <1>4, <2>2, MovedType DEF TypeOK
<1>8. StagesOK' /\ PasswordsOK' /\ BanOrder' /\ BansSettled'
<2>1. StagesOK'
  BY <1>2, <1>5, <1>6 DEF StagesOK, Exists
<2>2. PasswordsOK' /\ BansSettled'
  BY <1>2 DEF PasswordsOK, BansSettled, Exists
<2>3. BanOrder'
  BY <1>2, <1>5 DEF BanOrder
<2>. QED
  BY <2>1, <2>2, <2>3
<1>9. kind[r] # "reset" /\ (kind[r] = "oauth" => linked)
  BY <1>2 DEF StagesOK
<1>10. LetInIsLinked'
  BY <1>2, <1>5, <1>6, <1>9 DEF LetInIsLinked
<1>11. ResetEndsSessions'
<2>1. ASSUME NEW q \in Requests, NEW p \in Requests,
             kind'[q] = "reset", at'[q] = "done", token'[p].status = "live"
      PROVE  token'[p].saved >= wrote'[q]
<3>1. kind[q] = "reset" /\ at[q] = "done" /\ wrote'[q] = wrote[q]
  BY <1>2, <1>5, <1>9, <2>1
<3>2. CASE token'[p] = token[p]
  BY <2>1, <3>1, <3>2 DEF ResetEndsSessions
<3>3. CASE token'[p] = [status |-> "live", saved |-> user.password]
<4>1. wrote[q] <= user.password /\ wrote[q] \in Nat /\ user.password \in Nat
  BY DEF PasswordsOK, TypeOK, Rows
<4>2. token'[p].saved = user.password
  BY <3>3
<4>. QED
  BY <3>1, <4>1, <4>2
<3>. QED
  BY <1>6, <3>2, <3>3
<2>. QED
  BY <2>1 DEF ResetEndsSessions
<1>. QED
  BY <1>7, <1>8, <1>10, <1>11

LEMMA PasswordKeeps ==
    ASSUME IInv, NEW r \in Requests, UpdatePassword(r)
    PROVE  IInv'
<1>. USE DEF IInv
<1>1. PICK s \in {"revoke", "failed"} : Goes(r, s)
  BY DEF UpdatePassword, GoesOn
<1>2. at[r] = "password" /\ UNCHANGED <<linked, ban, token, issued, lastBan, settled>>
  BY DEF UpdatePassword
<1>3. Moved(r, kind[r], email[r], seen[r], s) /\ s \in Stages
      /\ kind[r] \in Kinds /\ email[r] \in Emails /\ seen[r] \in Rows
  BY <1>1, GoesMoves DEF Stages
<1>4. \A q \in Requests :
          /\ at'[q] = IF q = r THEN s ELSE at[q]
          /\ kind'[q] = kind[q] /\ seen'[q] = seen[q]
  BY <1>3, MovedTo
<1>5. CASE UNCHANGED <<user, wrote>>
<2>1. TablesOK' /\ Quiet
  BY <1>2, <1>5, TablesTyped DEF TypeOK, TablesOK, Quiet, Exists
<2>2. Allowed(kind[r], seen[r], s)
  BY <1>2 DEF Allowed, StagesOK
<2>. QED
  BY <1>1, <1>2, <2>1, <2>2, GoKeeps DEF Stages
<1>6. CASE /\ user' = [user EXCEPT !.password = @ + 1]
           /\ wrote' = [wrote EXCEPT ![r] = user.password + 1]
<2>1. /\ user' \in Rows /\ wrote' \in [Requests -> Nat]
      /\ user'.password = user.password + 1 /\ user.password \in Nat
      /\ user'.status = user.status
  BY <1>6 DEF TypeOK, Rows
<2>2. Exists /\ Exists'
  BY <1>2, <2>1 DEF StagesOK, Exists
<2>3. TypeOK'
  BY <1>2, <1>3, <2>1, MovedType DEF TypeOK
<2>4. StagesOK'
  BY <1>2, <1>4, <2>2 DEF StagesOK
<2>5. PasswordsOK'
<3>1. ASSUME NEW q \in Requests PROVE wrote'[q] <= user'.password
<4>1. wrote[q] <= user.password /\ wrote[q] \in Nat
  BY DEF PasswordsOK, TypeOK
<4>2. wrote'[q] = wrote[q] \/ wrote'[q] = user.password + 1
  BY <1>6 DEF TypeOK
<4>. QED
  BY <2>1, <4>1, <4>2
<3>. QED
  BY <2>2, <3>1 DEF PasswordsOK
<2>6. BanOrder' /\ BansSettled' /\ LetInIsLinked'
  BY <1>2, <1>4, <2>1 DEF BanOrder, BansSettled, LetInIsLinked
<2>7. ResetEndsSessions'
  BY <1>2, <1>4, <1>6 DEF ResetEndsSessions, TypeOK
<2>. QED
  BY <2>3, <2>4, <2>5, <2>6, <2>7
<1>. QED
  BY <1>5, <1>6 DEF UpdatePassword

LEMMA BanBeginsKeeps ==
    ASSUME IInv, NEW r \in Requests, NEW k \in {"ban", "unban"}, NEW o, NEW rows, NEW stage,
           rows \in [Requests -> {"none", "active", "removed"}],
           \/ k = "ban" /\ stage = "suspend" /\ rows[r] = "active"
           \/ k = "unban" /\ stage = "lift" /\ \A q \in Requests : rows[q] # "active",
           BanBegins(r, k, o, rows, stage)
    PROVE  IInv'
<1>. USE DEF IInv
<1>1. PICK s \in {stage, "failed"} :
          Begins(r, k, Home, NoUser, s) /\ (s = stage => o = "ok")
  BY DEF BanBegins
<1>2. Moved(r, k, Home, NoUser, s) /\ at[r] = "idle"
  BY <1>1, BeginsMoves
<1>3. /\ UNCHANGED <<user, linked, token, issued, wrote>>
      /\ \/ ban' = rows /\ lastBan' = r /\ settled' = FALSE
         \/ UNCHANGED <<ban, lastBan, settled>> /\ o = "err"
  BY DEF BanBegins, Applied
<1>4. TypeOK'
<2>1. NoUser \in Rows /\ k \in Kinds /\ s \in Stages
  BY RowsRead, HomeIsEmail DEF Kinds, Stages
<2>. QED
  BY <1>2, <1>3, <2>1, HomeIsEmail, MovedType DEF TypeOK
<1>5. \A q \in Requests :
          /\ at'[q] = IF q = r THEN s ELSE at[q]
          /\ kind'[q] = IF q = r THEN k ELSE kind[q]
          /\ seen'[q] = IF q = r THEN NoUser ELSE seen[q]
  BY <1>2, MovedTo
<1>6. token[r].status = "none"
  BY <1>2 DEF StagesOK
<1>7. StagesOK'
  BY <1>3, <1>5, <1>6 DEF StagesOK, Exists
<1>8. PasswordsOK'
  BY <1>3 DEF PasswordsOK, Exists
<1>9. ResetEndsSessions' /\ LetInIsLinked'
  BY <1>3, <1>5, <1>6 DEF ResetEndsSessions, LetInIsLinked
<1>10. BansSettled'
  BY <1>3 DEF BansSettled
<1>11. BanOrder'
  BY <1>1, <1>3, <1>5 DEF BanOrder
<1>. QED
  BY <1>4, <1>7, <1>8, <1>9, <1>10, <1>11

LEMMA BanEndsKeeps ==
    ASSUME IInv, NEW r \in Requests, NEW stage \in {"suspend", "lift"}, NEW status \in Statuses,
           stage = "suspend" => status \in {"deleted", "suspended"},
           stage = "lift" => status # "suspended" /\ (Exists => status # "none"),
           BanEnds(r, stage, status)
    PROVE  IInv'
<1>. USE DEF IInv
<1>1. PICK o \in Outcomes :
          /\ user' = IF Applied(o) THEN [user EXCEPT !.status = status] ELSE user
          /\ settled' = (o = "ok" /\ lastBan = r /\ \A q \in Requests \ {r} : ~InBan(q))
          /\ GoesOn(r, o, "done")
  BY DEF BanEnds
<1>2. at[r] = stage /\ UNCHANGED <<linked, ban, token, issued, wrote, lastBan>>
  BY DEF BanEnds
<1>3. PICK s \in {"done", "failed"} : Goes(r, s)
  BY <1>1 DEF GoesOn
<1>4. Moved(r, kind[r], email[r], seen[r], s) /\ s \in Stages
      /\ kind[r] \in Kinds /\ email[r] \in Emails /\ seen[r] \in Rows
  BY <1>3, GoesMoves DEF Stages
<1>5. \A q \in Requests :
          /\ at'[q] = IF q = r THEN s ELSE at[q]
          /\ kind'[q] = kind[q] /\ seen'[q] = seen[q]
  BY <1>4, MovedTo
<1>6. /\ user' \in Rows /\ user'.password = user.password
      /\ user'.status = status \/ user'.status = user.status
      /\ o = "ok" => user'.status = status
  BY <1>1 DEF TypeOK, Rows, Applied
<1>7. Exists => Exists'
  BY <1>2, <1>6 DEF Exists, StagesOK
<1>8. TypeOK'
<2>1. settled' \in BOOLEAN
  BY <1>1
<2>. QED
  BY <1>2, <1>4, <1>6, <2>1, MovedType DEF TypeOK
<1>9. StagesOK'
  BY <1>2, <1>5, <1>7 DEF StagesOK
<1>10. PasswordsOK'
  BY <1>2, <1>6, <1>7 DEF PasswordsOK
<1>11. BanOrder'
  BY <1>2, <1>5 DEF BanOrder
<1>12. BansSettled'
  BY <1>1, <1>2, <1>6 DEF BansSettled, BanOrder
<1>13. kind[r] # "reset"
  BY <1>2 DEF StagesOK
<1>14. ResetEndsSessions' /\ LetInIsLinked'
  BY <1>2, <1>5, <1>13 DEF ResetEndsSessions, LetInIsLinked
<1>. QED
  BY <1>8, <1>9, <1>10, <1>11, <1>12, <1>14

LEMMA BanActions ==
    ASSUME IInv, NEW r \in Requests,
           BanUser(r) \/ UnbanUser(r) \/ SuspendUser(r) \/ LiftSuspension(r)
    PROVE  IInv'
<1>0. TypeOK /\ user.status \in Statuses
  BY DEF IInv, TypeOK, Rows
<1>1. CASE BanUser(r)
<2>1. PICK o : BanBegins(r, "ban", o, [ban EXCEPT ![r] = "active"], "suspend")
  BY <1>1 DEF BanUser
<2>2. /\ [ban EXCEPT ![r] = "active"] \in [Requests -> {"none", "active", "removed"}]
      /\ [ban EXCEPT ![r] = "active"][r] = "active"
  BY <1>0 DEF TypeOK
<2>. QED
  BY <2>1, <2>2, BanBeginsKeeps
<1>2. CASE UnbanUser(r)
<2>. DEFINE rows == [q \in Requests |-> IF ban[q] = "active" THEN "removed" ELSE ban[q]]
<2>1. PICK o : BanBegins(r, "unban", o, rows, "lift")
  BY <1>2 DEF UnbanUser
<2>2. rows \in [Requests -> {"none", "active", "removed"}] /\ \A q \in Requests : rows[q] # "active"
  BY <1>0 DEF TypeOK
<2>. HIDE DEF rows
<2>. QED
  BY <2>1, <2>2, BanBeginsKeeps
<1>3. CASE SuspendUser(r)
  BY <1>3, BanEndsKeeps DEF SuspendUser, Statuses
<1>4. CASE LiftSuspension(r)
  BY <1>0, <1>4, BanEndsKeeps DEF LiftSuspension, Statuses, Exists
<1>. QED
  BY <1>1, <1>2, <1>3, <1>4

-----------------------------------------------------------------------------
LEMMA Stutter == ASSUME IInv, UNCHANGED vars PROVE IInv'
<1>. USE DEF IInv, vars, request
<1>1. TypeOK' /\ StagesOK' /\ PasswordsOK'
  BY DEF TypeOK, StagesOK, PasswordsOK, Exists
<1>2. BanOrder' /\ BansSettled' /\ ResetEndsSessions' /\ LetInIsLinked'
  BY DEF BanOrder, BansSettled, ResetEndsSessions, LetInIsLinked
<1>. QED
  BY <1>1, <1>2

LEMMA NextKeeps == ASSUME IInv, [Next]_vars PROVE IInv'
<1>1. CASE UNCHANGED vars
  BY <1>1, Stutter
<1>2. ASSUME NEW r \in Requests, Visitor(r) PROVE IInv'
  BY <1>2, ReadActions, BeginActions, GoActions, SaveKeeps, PasswordKeeps DEF Visitor
<1>3. ASSUME NEW r \in Requests, Administrator(r) PROVE IInv'
  BY <1>3, BeginActions, BanActions DEF Administrator
<1>. QED
  BY <1>1, <1>2, <1>3 DEF Next

LEMMA Inductive == Spec => []IInv
  BY InitOK, NextKeeps, PTL DEF Spec

\* The tables and the requests keep their types, for any number of requests.
THEOREM TypeCorrect == Spec => []TypeOK
<1>1. IInv => TypeOK
  BY DEF IInv
<1>. QED
  BY <1>1, Inductive, PTL

\* BanUser and UnbanUser leave the status and the records in agreement, however many of
\* them interleave and whichever of their statements fail.
THEOREM BansSettle == Spec => []BansSettled
<1>1. IInv => BansSettled
  BY DEF IInv
<1>. QED
  BY <1>1, Inductive, PTL

\* A password reset that has been answered and could revoke has ended the sessions that
\* were saved before it.
THEOREM ResetsEndSessions == Spec => []ResetEndsSessions
<1>1. IInv => ResetEndsSessions
  BY DEF IInv
<1>. QED
  BY <1>1, Inductive, PTL

\* An OAuth callback lets nobody in whose identity it could not link.
THEOREM LetInAreLinked == Spec => []LetInIsLinked
<1>1. IInv => LetInIsLinked
  BY DEF IInv
<1>. QED
  BY <1>1, Inductive, PTL

-----------------------------------------------------------------------------
(***************************************************************************)
(* What ends a suspension or a deletion.                                   *)
(***************************************************************************)
Lifts(r, b) ==
    /\ at'[r] # at[r]
    /\ \/ kind'[r] \in {"set", "confirm"}
       \/ kind'[r] = "unban" /\ b = "suspended"
       \/ at[r] = "verify" /\ ~seen[r].verified

\* Most statements leave the status alone.
LEMMA StatusLeft ==
    ASSUME TypeOK, NEW r \in Requests,
           \/ Register(r) \/ Login(r) \/ Verify(r) \/ ResetConfirm(r) \/ Reread(r)
           \/ SaveRefreshToken(r) \/ Logout(r) \/ RefreshTokens(r) \/ UpdatePassword(r)
           \/ RevokeSessions(r) \/ HandleCallback(r) \/ FindUser(r) \/ CreateOAuthAccount(r)
           \/ BanUser(r) \/ UnbanUser(r)
    PROVE  user'.status = user.status
<1>1. CASE Register(r) \/ Login(r) \/ Verify(r) \/ ResetConfirm(r)
  BY <1>1 DEF Register, Login, Verify, ResetConfirm, Reads, tables
<1>2. CASE Reread(r) \/ RefreshTokens(r) \/ HandleCallback(r) \/ FindUser(r)
  BY <1>2 DEF Reread, RefreshTokens, HandleCallback, FindUser, tables
<1>3. CASE SaveRefreshToken(r) \/ Logout(r) \/ RevokeSessions(r) \/ CreateOAuthAccount(r)
  BY <1>3 DEF SaveRefreshToken, Logout, RevokeSessions, CreateOAuthAccount, RevokeAllUserRefreshTokens
<1>4. CASE UpdatePassword(r)
  BY <1>4 DEF UpdatePassword, TypeOK, Rows
<1>5. CASE BanUser(r) \/ UnbanUser(r)
  BY <1>5 DEF BanUser, UnbanUser, BanBegins
<1>. QED
  BY <1>1, <1>2, <1>3, <1>4, <1>5

LEMMA BlockedUntil ==
    ASSUME IInv, NEW r \in Requests, Visitor(r) \/ Administrator(r),
           NEW b \in Blocked, user.status = b, user'.status \notin {b, "deleted"}
    PROVE  Lifts(r, b)
<1>0. TypeOK /\ StagesOK
  BY DEF IInv
<1>1. \/ Create(r) \/ VerifyEmail(r) \/ EmailChangeConfirm(r)
      \/ SuspendUser(r) \/ LiftSuspension(r) \/ AdminUpdateUser(r)
  BY <1>0, StatusLeft DEF Visitor, Administrator
<1>2. CASE Create(r)
  BY <1>2 DEF Create, Exists, Blocked, tables
<1>3. CASE VerifyEmail(r)
<2>1. PICK s \in {"failed", "reread", "save"} : Goes(r, s)
  BY <1>3 DEF VerifyEmail, GoesOn
<2>. QED
  BY <1>0, <1>3, <2>1 DEF VerifyEmail, StagesOK, Lifts, Goes, TypeOK
<1>4. CASE EmailChangeConfirm(r) \/ AdminUpdateUser(r)
<2>1. PICK k \in {"set", "confirm"}, e \in Emails, s \in {"done", "failed"} :
          Begins(r, k, e, NoUser, s)
  BY <1>4, HomeIsEmail DEF EmailChangeConfirm, AdminUpdateUser
<2>. QED
  BY <1>0, <2>1 DEF Begins, Lifts, TypeOK
<1>5. CASE SuspendUser(r)
  BY <1>0, <1>5 DEF SuspendUser, BanEnds, TypeOK, Rows, Blocked
<1>6. CASE LiftSuspension(r)
<2>1. PICK s \in {"failed", "done"} : Goes(r, s)
  BY <1>6 DEF LiftSuspension, BanEnds, GoesOn
<2>2. at[r] = "lift" /\ kind[r] = "unban" /\ at'[r] # at[r] /\ kind'[r] = kind[r]
  BY <1>0, <1>6, <2>1 DEF LiftSuspension, BanEnds, StagesOK, Goes, TypeOK
<2>3. b = "suspended"
  BY <1>0, <1>6 DEF LiftSuspension, BanEnds, TypeOK, Rows, Blocked
<2>. QED
  BY <2>2, <2>3 DEF Lifts
<1>. QED
  BY <1>1, <1>2, <1>3, <1>4, <1>5, <1>6

\* A suspended or deleted account is let in again only by an administrator, a change of
\* its address, or a verification that had read it while it was not verified.
THEOREM BlocksEnd == Spec => BlockEnds
<1>1. IInv /\ [Next]_vars =>
        [\A b \in Blocked :
            (user.status = b /\ user'.status \notin {b, "deleted"}) =>
                \E r \in Requests :
                    /\ at'[r] # at[r]
                    /\ \/ kind'[r] \in {"set", "confirm"}
                       \/ kind'[r] = "unban" /\ b = "suspended"
                       \/ at[r] = "verify" /\ ~seen[r].verified]_vars
  BY BlockedUntil DEF Next, Lifts
<1>. QED
  BY <1>1, Inductive, PTL DEF Spec, BlockEnds

-----------------------------------------------------------------------------
(***************************************************************************)
(* The deployed router, where no handler finds the administrator's id.     *)
(***************************************************************************)
\* Every ban request has failed, and left no record.
BansFail ==
    \A r \in Requests :
        /\ ban[r] = "none" /\ at[r] # "suspend"
        /\ kind[r] = "ban" => at[r] = "failed"

Deployed == TypeOK /\ ~AdminIdKnown /\ BansFail

\* Each step, by its shape: a request begins, goes on, reads, or sets the status.
LEMMA BeginsWithout ==
    ASSUME Deployed, NEW r \in Requests, NEW k, NEW e, NEW row, NEW s, Begins(r, k, e, row, s),
           s # "suspend", k = "ban" => s = "failed", ban' = ban
    PROVE  BansFail'
  BY DEF Deployed, BansFail, Begins, TypeOK

LEMMA GoesWithout ==
    ASSUME Deployed, NEW r \in Requests, NEW s, Goes(r, s),
           s # "suspend", at[r] # "failed", ban' = ban
    PROVE  BansFail'
  BY DEF Deployed, BansFail, Goes, TypeOK

LEMMA ReadsWithout ==
    ASSUME Deployed, NEW r \in Requests, NEW k, NEW e, NEW Fits, NEW s, Reads(r, k, e, Fits, s),
           s # "suspend", k # "ban"
    PROVE  BansFail'
<1>1. PICK x \in {s, "refused"} : Begins(r, k, e, FindByEmail(e), x)
  BY ReadStep
<1>. QED
  BY <1>1, ReadStep, BeginsWithout DEF tables

LEMMA SettersWithout ==
    ASSUME NEW o, NEW row, SetsStatus(o, row)
    PROVE  ban' = ban
  BY DEF SetsStatus, Writes, tables

LEMMA VisitorsWithout ==
    ASSUME Deployed, NEW r \in Requests, Visitor(r)
    PROVE  BansFail'
<1>1. CASE Register(r) \/ Login(r) \/ Verify(r) \/ ResetConfirm(r)
  BY <1>1, ReadsWithout DEF Register, Login, Verify, ResetConfirm
<1>2. CASE Create(r)
<2>1. PICK s \in {"failed", "link", "done"} : Goes(r, s)
  BY <1>2 DEF Create, GoesOn
<2>2. at[r] = "create" /\ ban' = ban
  BY <1>2, SettersWithout DEF Create, tables
<2>. QED
  BY <2>1, <2>2, GoesWithout
<1>3. CASE VerifyEmail(r)
<2>1. PICK s \in {"failed", "reread", "save"} : Goes(r, s)
  BY <1>3 DEF VerifyEmail, GoesOn
<2>2. at[r] = "verify" /\ ban' = ban
  BY <1>3, SettersWithout DEF VerifyEmail
<2>. QED
  BY <2>1, <2>2, GoesWithout
<1>4. CASE Reread(r)
<2>1. PICK s \in {"failed", "panic", "save"} : Goes(r, s)
  BY <1>4 DEF Reread
<2>. QED
  BY <1>4, <2>1, GoesWithout DEF Reread, tables
<1>5. CASE SaveRefreshToken(r) \/ UpdatePassword(r) \/ RevokeSessions(r) \/ CreateOAuthAccount(r)
<2>1. PICK s \in {"failed", "done", "revoke", "warned", "save", "verify"} : Goes(r, s)
  BY <1>5 DEF SaveRefreshToken, UpdatePassword, RevokeSessions, CreateOAuthAccount, GoesOn
<2>2. at[r] \in {"save", "password", "revoke", "link"} /\ ban' = ban
  BY <1>5 DEF SaveRefreshToken, UpdatePassword, RevokeSessions, CreateOAuthAccount,
              RevokeAllUserRefreshTokens
<2>. QED
  BY <2>1, <2>2, GoesWithout
<1>6. CASE Logout(r) \/ RefreshTokens(r)
<2>1. PICK k \in {"logout", "refresh"}, s \in {"done", "failed", "refused"} :
          Begins(r, k, Home, NoUser, s)
  BY <1>6 DEF Logout, RefreshTokens
<2>2. ban' = ban
  BY <1>6 DEF Logout, RefreshTokens, RevokeAllUserRefreshTokens, tables
<2>. QED
  BY <2>1, <2>2, BeginsWithout
<1>7. CASE HandleCallback(r)
<2>1. PICK row \in {user, NoUser}, s \in {"failed", "save", "find"} :
          Begins(r, "oauth", Home, row, s)
  BY <1>7 DEF HandleCallback
<2>. QED
  BY <1>7, <2>1, BeginsWithout DEF HandleCallback, tables
<1>8. CASE EmailChangeConfirm(r)
<2>1. PICK e \in Emails, s \in {"failed", "done"} : Begins(r, "confirm", e, NoUser, s)
  BY <1>8 DEF EmailChangeConfirm
<2>2. ban' = ban
  BY <1>8 DEF EmailChangeConfirm, SetsStatus, Writes, tables
<2>. QED
  BY <2>1, <2>2, BeginsWithout
<1>9. CASE FindUser(r)
<2>1. at[r] = "find" /\ kind' = kind /\ ban' = ban
  BY <1>9 DEF FindUser, tables
<2>2. \A q \in Requests : at'[q] = at[q] \/ (q = r /\ at'[q] \in {"create", "link"})
  BY <1>9 DEF FindUser, Deployed, TypeOK
<2>. QED
  BY <2>1, <2>2 DEF Deployed, BansFail
<1>. QED
  BY <1>1, <1>2, <1>3, <1>4, <1>5, <1>6, <1>7, <1>8, <1>9 DEF Visitor

LEMMA AdministratorsWithout ==
    ASSUME Deployed, NEW r \in Requests, Administrator(r)
    PROVE  BansFail'
<1>1. CASE BanUser(r)
<2>1. BanBegins(r, "ban", "err", [ban EXCEPT ![r] = "active"], "suspend")
  BY <1>1 DEF BanUser, Deployed
<2>2. Begins(r, "ban", Home, NoUser, "failed") /\ ban' = ban
  BY <2>1 DEF BanBegins, Applied
<2>. QED
  BY <2>2, BeginsWithout
<1>2. CASE UnbanUser(r)
<2>. DEFINE rows == [q \in Requests |-> IF ban[q] = "active" THEN "removed" ELSE ban[q]]
<2>1. rows = ban
  BY DEF Deployed, BansFail, TypeOK
<2>2. ban' \in {ban, rows}
  BY <1>2 DEF UnbanUser, BanBegins
<2>3. PICK s \in {"lift", "failed"} : Begins(r, "unban", Home, NoUser, s)
  BY <1>2 DEF UnbanUser, BanBegins
<2>. QED
  BY <2>1, <2>2, <2>3, BeginsWithout
<1>3. CASE SuspendUser(r)
  BY <1>3 DEF SuspendUser, BanEnds, Deployed, BansFail
<1>4. CASE LiftSuspension(r)
<2>1. PICK s \in {"failed", "done"} : Goes(r, s)
  BY <1>4 DEF LiftSuspension, BanEnds, GoesOn
<2>. QED
  BY <1>4, <2>1, GoesWithout DEF LiftSuspension, BanEnds
<1>5. CASE AdminUpdateUser(r)
<2>1. PICK s \in {"failed", "done"} : Begins(r, "set", Home, NoUser, s)
  BY <1>5 DEF AdminUpdateUser
<2>. QED
  BY <1>5, <2>1, SettersWithout, BeginsWithout DEF AdminUpdateUser
<1>. QED
  BY <1>1, <1>2, <1>3, <1>4, <1>5 DEF Administrator

LEMMA DeployedInit == ASSUME Init PROVE BansFail
<1>1. /\ ban = [q \in Requests |-> "none"] /\ at = [q \in Requests |-> "idle"]
      /\ kind = [q \in Requests |-> "none"]
  BY DEF Init
<1>2. TypeOK
  BY InitOK DEF IInv
<1>. QED
  BY <1>1, <1>2 DEF BansFail, TypeOK

LEMMA DeployedStep == ASSUME Deployed, [Next]_vars PROVE BansFail'
<1>1. CASE UNCHANGED vars
<2>1. ban' = ban /\ at' = at /\ kind' = kind
  BY <1>1 DEF vars, request
<2>2. BansFail
  BY DEF Deployed
<2>. QED
  BY <2>1, <2>2 DEF BansFail
<1>. QED
  BY <1>1, VisitorsWithout, AdministratorsWithout DEF Next

\* Without the administrator's id no ban ever counts: each one fails, no record of one is
\* kept, and the status is never written in its name.
THEOREM DeployedBansFail == ASSUME ~AdminIdKnown PROVE Spec => []BansFail
<1>1. TypeOK /\ ~AdminIdKnown /\ BansFail /\ [Next]_vars => BansFail'
  BY DeployedStep DEF Deployed
<1>. QED
  BY <1>1, DeployedInit, TypeCorrect, PTL DEF Spec

\* An account then becomes suspended in one way only, by the form that sets any status.
SuspendedByForm ==
    [][(user.status # "suspended" /\ user'.status = "suspended") =>
          \E r \in Requests : at'[r] # at[r] /\ kind'[r] = "set"]_vars

LEMMA FormSuspends ==
    ASSUME Deployed, NEW r \in Requests, Visitor(r) \/ Administrator(r),
           user.status # "suspended", user'.status = "suspended"
    PROVE  at'[r] # at[r] /\ kind'[r] = "set"
<1>1. \/ Create(r) \/ VerifyEmail(r) \/ EmailChangeConfirm(r)
      \/ SuspendUser(r) \/ LiftSuspension(r) \/ AdminUpdateUser(r)
  BY StatusLeft DEF Visitor, Administrator, Deployed
<1>2. CASE Create(r)
  BY <1>2 DEF Create, Created, NoUser, SetsStatus, Writes, tables
<1>3. CASE VerifyEmail(r)
  BY <1>3 DEF VerifyEmail, SetsStatus, Writes, tables, Deployed, TypeOK, Rows
<1>4. CASE EmailChangeConfirm(r)
  BY <1>4 DEF EmailChangeConfirm, SetsStatus, Writes, tables, Deployed, TypeOK, Rows
<1>5. CASE SuspendUser(r)
  BY <1>5 DEF SuspendUser, BanEnds, Deployed, BansFail
<1>6. CASE LiftSuspension(r)
  BY <1>6 DEF LiftSuspension, BanEnds, Deployed, TypeOK, Rows
<1>7. CASE AdminUpdateUser(r)
<2>1. PICK s \in {"failed", "done"} : Begins(r, "set", Home, NoUser, s)
  BY <1>7 DEF AdminUpdateUser
<2>. QED
  BY <2>1 DEF Begins, Deployed, TypeOK
<1>. QED
  BY <1>1, <1>2, <1>3, <1>4, <1>5, <1>6, <1>7

\* Without the administrator's id only AdminUpdateUser and BulkUpdateStatus suspend.
THEOREM DeployedSuspensions == ASSUME ~AdminIdKnown PROVE Spec => SuspendedByForm
<1>1. TypeOK /\ ~AdminIdKnown /\ BansFail /\ [Next]_vars =>
        [(user.status # "suspended" /\ user'.status = "suspended") =>
            \E r \in Requests : at'[r] # at[r] /\ kind'[r] = "set"]_vars
  BY FormSuspends DEF Next, Deployed
<1>. QED
  BY <1>1, TypeCorrect, DeployedBansFail, PTL DEF Spec, SuspendedByForm
=============================================================================
