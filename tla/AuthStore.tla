------------------------------ MODULE AuthStore ------------------------------
(***************************************************************************)
(* The session of the viewer frontend: the zustand store of                *)
(* lib/auth-store.ts, the requests of lib/api-client.ts that are under     *)
(* way, and what the auth service does with them.                          *)
(*                                                                         *)
(* A function of the store that awaits the server is two steps: its first  *)
(* set (with the request), and what it sets when the answer arrives.       *)
(* Between them the server acts, the answer may be lost, and the page that *)
(* called the function may be left or its document unloaded.  The timed    *)
(* waits of the sign-in page are requests to nobody.  A token is named by  *)
(* the account it was issued for.  The error text is left out, and so is   *)
(* pendingVerification, which nothing reads.                               *)
(***************************************************************************)
EXTENDS Integers

CONSTANTS
    Emails,         \* the addresses that may be typed
    Registered,     \* those with a verified account from the start
    Gated,          \* the routes that ask a visitor to sign in
    MaxCalls,       \* bounds the requests and waits under way at a time
    None

ASSUME RegisteredAreEmails == Registered \subseteq Emails
ASSUME NoneIsNoEmail == None \notin Emails
ASSUME MaxCallsIsNat == MaxCalls \in Nat

VARIABLES
    store,      \* the store: who is signed in, both tokens, the pending registration
    calls,      \* the requests under way, one per slot
    accounts    \* server: whether an address has no account, a pending or an active one

Slots == 1..MaxCalls
Targets == {"/"} \cup Gated
Waits == {"reset-otp", "reset-key"}
Free == [op |-> "free"]

\* The store before anything was persisted.
SignedOut ==
    [user |-> None, access |-> None, refresh |-> None, isAuthenticated |-> FALSE,
     pendingEmail |-> None, loading |-> FALSE]

StoreInit ==
    /\ store = SignedOut
    /\ calls = [s \in Slots |-> Free]
    /\ accounts = [e \in Emails |-> IF e \in Registered THEN "active" ELSE "none"]

(***************************************************************************)
(* Requests.  A request remembers what it was sent with, where its         *)
(* continuation goes on to, whether the server has acted on it, and what   *)
(* is left of its caller: the mounted page, only the document ("tab"), or  *)
(* nothing ("gone").  To sign in or out needs the document only.           *)
(***************************************************************************)
FreeSlots == {s \in Slots : calls[s] = Free}
Started(op, e, t) ==
    [op |-> op, email |-> e, target |-> t, served |-> FALSE,
     client |-> IF op \in {"login", "logout"} THEN "tab" ELSE "page"]

\* The requests under way after one more was sent: none if no slot is free.
Sending(op, e, t) ==
    {[calls EXCEPT ![s] = Started(op, e, t)] :
        s \in {f \in FreeSlots : \A g \in FreeSlots : f <= g}}

Finished(s) == [calls EXCEPT ![s] = Free]
Awaited(s, op) == calls[s].op = op /\ calls[s].client # "gone"

\* What the unmounting of a page and the unloading of its document leave of them: the
\* answer of a check is for its component only, and without the document the server may
\* still act on a registration, a code or a sign-out, but nobody hears of it.
Unmounted(cs) ==
    [s \in Slots |-> IF \/ cs[s].op \in {"free", "check"}
                        \/ cs[s].op = "wait" /\ cs[s].target \notin Targets
                     THEN Free
                     ELSE [cs[s] EXCEPT !.client = IF @ = "page" THEN "tab" ELSE @]]
Unloaded(cs) ==
    [s \in Slots |-> IF cs[s].op \in {"register", "verify", "logout"} /\ ~cs[s].served
                     THEN [cs[s] EXCEPT !.client = "gone"]
                     ELSE Free]

\* Mutant: who is signed in is not among the persisted fields.
ForgetsUser(st) == [st EXCEPT !.loading = FALSE, !.user = None, !.isAuthenticated = FALSE]

\* Only the persisted fields survive a document.
Rehydrated(st) == [st EXCEPT !.loading = FALSE]

(***************************************************************************)
(* The functions of the store up to their await.                           *)
(***************************************************************************)
Loading == [store EXCEPT !.loading = TRUE]

Login(e, t)   == store' = Loading /\ calls' \in Sending("login", e, t)
Register(e)   == store' = Loading /\ calls' \in Sending("register", e, None)
VerifyOtp(e)  == store' = Loading /\ calls' \in Sending("verify", e, None)
ResendOtp(e)  == store' = Loading /\ calls' \in Sending("resend", e, None)
LoggingOut    == Sending("logout", store.access, None)
CheckUsername == UNCHANGED store  /\ calls' \in Sending("check", None, None)
Wait(t)       == UNCHANGED store  /\ calls' \in Sending("wait", None, t)

(***************************************************************************)
(* What they set when the answer is there.                                 *)
(***************************************************************************)
Session(e) ==
    [user |-> e, access |-> e, refresh |-> e, isAuthenticated |-> TRUE,
     pendingEmail |-> None, loading |-> FALSE]
Stopped == [store EXCEPT !.loading = FALSE]
Cleared == [SignedOut EXCEPT !.loading = store.loading]

\* Mutants: one token is forgotten; a failed sign-out keeps the session; the address
\* is pending whatever the server said; a failed resend spins on.
ForgetsRefresh(s, ok)  == IF ok THEN [Session(calls[s].email) EXCEPT !.refresh = store.refresh]
                          ELSE Stopped
KeepsWhenFailed(ok)    == IF ok THEN Cleared ELSE store
PendingAnyway(s, ok)   == [Stopped EXCEPT !.pendingEmail = calls[s].email]
StaysLoading(ok)       == IF ok THEN Stopped ELSE store

AfterLogin(s, ok)    == IF ok THEN Session(calls[s].email) ELSE Stopped
AfterVerify(s, ok)   == IF ok THEN Session(calls[s].email) ELSE Stopped
AfterRegister(s, ok) == IF ok THEN [Stopped EXCEPT !.pendingEmail = calls[s].email]
                        ELSE Stopped
AfterResend(ok)      == Stopped
AfterLogout(ok)      == Cleared

(***************************************************************************)
(* The server, as far as the frontend can tell.  Any request may fail, and *)
(* a registration or a verification may fail although it had its effect:   *)
(* its answer is lost.                                                     *)
(***************************************************************************)
Status(e) == IF e = None THEN "none" ELSE accounts[e]

\* Answers the request may get by now.
Outcomes(s) ==
    LET granted == CASE calls[s].op \in {"register", "verify"} -> calls[s].served
                     [] calls[s].op = "login"  -> Status(calls[s].email) = "active"
                     [] calls[s].op = "resend" -> Status(calls[s].email) # "active"
                     [] OTHER                  -> TRUE
    IN  {FALSE} \cup {granted}

Serve(s) ==
    LET c == calls[s]
        done == [calls EXCEPT ![s] = IF c.client = "gone" THEN Free
                                     ELSE [c EXCEPT !.served = TRUE]]
    IN  \/ /\ c.op = "register" /\ ~c.served
           /\ Status(c.email) = "none"
           /\ accounts' = [accounts EXCEPT ![c.email] = "pending"]
           /\ calls' = done
           /\ UNCHANGED store
        \/ /\ c.op = "verify" /\ ~c.served
           /\ Status(c.email) = "pending"
           /\ accounts' = [accounts EXCEPT ![c.email] = "active"]
           /\ calls' = done
           /\ UNCHANGED store

\* A request nobody waits for fails.
Lost(s) ==
    /\ calls[s] # Free
    /\ calls[s].client = "gone"
    /\ calls' = Finished(s)
    /\ UNCHANGED <<store, accounts>>

-----------------------------------------------------------------------------
CallTypes ==
    {Free} \cup
    [op : {"login", "register", "verify", "resend", "logout", "check", "wait"},
     email : Emails \cup {None}, target : Targets \cup Waits \cup {None},
     served : BOOLEAN, client : {"page", "tab", "gone"}]

StoreTypeOK ==
    /\ store \in [user : Emails \cup {None}, access : Emails \cup {None},
                  refresh : Emails \cup {None}, isAuthenticated : BOOLEAN,
                  pendingEmail : Emails \cup {None}, loading : BOOLEAN]
    /\ calls \in [Slots -> CallTypes]
    /\ accounts \in [Emails -> {"none", "pending", "active"}]
=============================================================================
