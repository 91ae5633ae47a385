------------------------------ MODULE AuthPage ------------------------------
(***************************************************************************)
(* Signing up, signing in and signing out: app/auth/page.tsx with its nine *)
(* steps, over the session of AuthStore.  Of the other pages this module   *)
(* knows that they can be reached, that their header signs out and leads   *)
(* here, and that the gated ones lead here with a ?redirect; they are      *)
(* modelled in ViewerSite.                                                 *)
(*                                                                         *)
(* What is typed is a member of a small set.  Keys and codes are not kept: *)
(* a step that asks for one proceeds when a long enough one was typed, and *)
(* the server finds it right or wrong.  A control that is not drawn or is  *)
(* disabled is a guard, and a screen is the disjunction of what its        *)
(* controls call.                                                          *)
(***************************************************************************)
EXTENDS AuthStore

VARIABLES
    route,      \* the path of the page
    ctx,        \* AuthPage: the step and what its context holds
    form,       \* the state of the step's component
    mine        \* history: addresses whose registration this page saw accepted

vars == <<store, calls, accounts, route, ctx, form, mine>>

Routes == {"/auth"} \cup Targets
Steps == {"vibe", "name", "key", "otp", "welcome", "login", "reset"} \cup Waits

Context(redirect) ==
    [step |-> "vibe", redirect |-> redirect, email |-> None]
EmptyForm ==
    [named |-> FALSE, avail |-> "idle", typing |-> FALSE,
     canResend |-> FALSE, busy |-> FALSE]

Init ==
    /\ StoreInit
    /\ route = "/"
    /\ ctx = Context(None)
    /\ form = EmptyForm
    /\ mine = {}

(***************************************************************************)
(* Moving between routes: router.push keeps the document and its requests, *)
(* window.location.href (and a reload) starts a new one.                   *)
(***************************************************************************)
SoftNav(t, cs) ==
    /\ route' = t
    /\ ctx' = Context(None) /\ form' = EmptyForm
    /\ calls' = Unmounted(cs)

HardNav(t, redirect, st, cs) ==
    /\ route' = t
    /\ ctx' = Context(redirect) /\ form' = EmptyForm
    /\ store' = Rehydrated(st)
    /\ calls' = Unloaded(cs)

\* Where a finished step goes on to: ?redirect with a new document, else home.
Target == IF ctx.redirect = None THEN "/" ELSE ctx.redirect
GoOn(t, st, cs) ==
    IF t = "/" THEN SoftNav(t, cs) /\ store' = st ELSE HardNav(t, None, st, cs)

On(step) == route = "/auth" /\ ctx.step = step
Set(field, v) == form' = [form EXCEPT ![field] = v]

\* goTo: a step that is there already keeps its state; the checks of NameStep are
\* dropped with it, for their answers set nothing any more.
GoTo(step, cs) ==
    /\ ctx' = [ctx EXCEPT !.step = step]
    /\ form' = IF ctx.step = step THEN form ELSE EmptyForm
    /\ calls' = [s \in Slots |-> IF cs[s].op = "check" /\ step # "name" THEN Free ELSE cs[s]]

Follow(step) ==
    /\ GoTo(step, calls)
    /\ UNCHANGED <<store, accounts, route, mine>>

Typed == UNCHANGED <<store, calls, accounts, route, mine>>
Called == UNCHANGED <<accounts, route, mine>>

TypeEmail == /\ \E e \in Emails : ctx' = [ctx EXCEPT !.email = e]
             /\ UNCHANGED form /\ Typed

(***************************************************************************)
(* Step 1: the vibes.  Continue needs one of them, so it can be reached.   *)
(***************************************************************************)
VibePicker ==
    /\ On("vibe")
    /\ Follow("name") \/ Follow("login")

(***************************************************************************)
(* Step 2: the names.  A check is sent when no key was typed for a while.  *)
(* Of the user name it is kept whether it is long enough; it outlives the  *)
(* step, but not its check, without which it has to be typed again.        *)
(***************************************************************************)
HandleUsernameChange ==
    /\ \E long \in BOOLEAN :
        form' = [form EXCEPT !.named = long, !.typing = long,
                             !.avail = IF long THEN "checking" ELSE "idle"]
    /\ UNCHANGED ctx /\ Typed

SendCheck ==
    /\ On("name") /\ form.typing
    /\ CheckUsername
    /\ Set("typing", FALSE)
    /\ UNCHANGED ctx /\ Called

CheckAnswered(s) ==
    /\ Awaited(s, "check")
    /\ \E found \in {"available", "taken", "idle"} : Set("avail", found)
    /\ calls' = Finished(s)
    /\ UNCHANGED <<store, ctx>> /\ Called

PickSuggestion ==
    /\ form.avail = "taken"
    /\ Set("avail", "available")
    /\ UNCHANGED ctx /\ Typed

HandleNext == form.named /\ form.avail = "available" /\ Follow("key")

NameStep ==
    /\ On("name")
    /\ HandleUsernameChange \/ PickSuggestion \/ HandleNext \/ Follow("vibe")

(***************************************************************************)
(* Step 3: the key and the address.  The button is disabled while the      *)
(* store is loading, Enter in a field is not; the fields stay open while   *)
(* the registration is under way.                                          *)
(***************************************************************************)
HandleSubmit ==
    /\ ctx.email # None
    /\ Register(ctx.email)
    /\ UNCHANGED <<ctx, form>> /\ Called

\* Mutant: the step goes on whether or not the registration was accepted.
RegisterGoesOn(s) ==
    /\ Awaited(s, "register")
    /\ \E ok \in Outcomes(s) :
        /\ store' = AfterRegister(s, ok)
        /\ GoTo("otp", Finished(s))
        /\ mine' = IF ok THEN mine \cup {calls[s].email} ELSE mine
    /\ UNCHANGED <<accounts, route>>

\* The page goes on to the code if it is still there, whatever its step is by now.
RegisterAnswered(s) ==
    /\ Awaited(s, "register")
    /\ \E ok \in Outcomes(s) :
        /\ store' = AfterRegister(s, ok)
        /\ IF ok /\ calls[s].client = "page"
           THEN GoTo("otp", Finished(s))
           ELSE UNCHANGED <<ctx, form>> /\ calls' = Finished(s)
        /\ mine' = IF ok THEN mine \cup {calls[s].email} ELSE mine
    /\ UNCHANGED <<accounts, route>>

KeyStep == On("key") /\ (TypeEmail \/ HandleSubmit \/ Follow("name"))

(***************************************************************************)
(* Step 4: the code.  It is verified for the address typed last, which     *)
(* need not be the one that was registered.                                *)
(***************************************************************************)
HandleVerify ==
    /\ ~store.loading
    /\ VerifyOtp(ctx.email)
    /\ UNCHANGED <<ctx, form>> /\ Called

CooldownOver ==
    /\ On("otp") \/ On("reset-otp")
    /\ ~form.canResend
    /\ Set("canResend", TRUE)
    /\ UNCHANGED ctx /\ Typed

HandleResend ==
    /\ form.canResend
    /\ ResendOtp(ctx.email)
    /\ Set("canResend", FALSE)
    /\ UNCHANGED ctx /\ Called

VerifyAnswered(s) ==
    /\ Awaited(s, "verify")
    /\ \E ok \in Outcomes(s) :
        /\ store' = AfterVerify(s, ok)
        /\ IF ok /\ calls[s].client = "page"
           THEN GoTo("welcome", Finished(s))
           ELSE UNCHANGED <<ctx, form>> /\ calls' = Finished(s)
    /\ Called

ResendAnswered(s) ==
    /\ Awaited(s, "resend")
    /\ \E ok \in Outcomes(s) : store' = AfterResend(ok)
    /\ calls' = Finished(s)
    /\ UNCHANGED <<ctx, form>> /\ Called

OtpScreen == On("otp") /\ (HandleVerify \/ HandleResend)

\* Mutant: without a redirect there is nowhere to go.
WelcomeToRedirect ==
    /\ On("welcome")
    /\ HardNav(ctx.redirect, None, store, calls)
    /\ UNCHANGED <<accounts, mine>>

\* Step 5: after three seconds a new document, if the page is still there.
WelcomeOverlay ==
    /\ On("welcome")
    /\ HardNav(Target, None, store, calls)
    /\ UNCHANGED <<accounts, mine>>

(***************************************************************************)
(* The login screen.  Here too Enter is not held back while loading, and   *)
(* what follows the await runs even if the page has been left meanwhile.   *)
(***************************************************************************)
HandleLogin ==
    /\ ctx.email # None
    /\ Login(ctx.email, Target)
    /\ UNCHANGED <<ctx, form>> /\ Called

LoginAnswered(s) ==
    /\ Awaited(s, "login")
    /\ \E ok \in Outcomes(s) :
        IF ok
        THEN GoOn(calls[s].target, AfterLogin(s, ok), Finished(s))
        ELSE /\ store' = AfterLogin(s, ok)
             /\ calls' = Finished(s)
             /\ UNCHANGED <<route, ctx, form>>
    /\ UNCHANGED <<accounts, mine>>

\* "Find your vibe" empties the address on its way.
FindYourVibe ==
    /\ ctx' = [ctx EXCEPT !.step = "vibe", !.email = None]
    /\ form' = EmptyForm
    /\ Typed

LoginScreen ==
    /\ On("login")
    /\ TypeEmail \/ HandleLogin \/ Follow("reset") \/ FindYourVibe

(***************************************************************************)
(* The three reset steps ask the server for nothing: each waits a moment   *)
(* and goes on.  The wait is not cancelled when the step is left.          *)
(***************************************************************************)
GoOnAfter(t) ==
    /\ ~form.busy
    /\ Wait(t)
    /\ Set("busy", TRUE)
    /\ UNCHANGED ctx /\ Called

WaitOver(s) ==
    LET t == calls[s].target
    IN  /\ calls[s].op = "wait"
        /\ IF t \in Waits
           THEN GoTo(t, Finished(s)) /\ UNCHANGED <<store, route>>
           ELSE GoOn(t, store, Finished(s))
        /\ UNCHANGED <<accounts, mine>>

ResetEmailStep ==
    /\ On("reset")
    /\ TypeEmail \/ (ctx.email # None /\ GoOnAfter("reset-otp")) \/ Follow("login")

ResetResend == form.canResend /\ Set("canResend", FALSE) /\ UNCHANGED ctx /\ Typed

ResetOtpStep == On("reset-otp") /\ (GoOnAfter("reset-key") \/ ResetResend)

ResetKeyStep == On("reset-key") /\ (GoOnAfter(Target) \/ Follow("login"))

(***************************************************************************)
(* The page itself: its steps, and the effect that leaves it when somebody *)
(* is signed in.  Before the query is read the effect knows no redirect.   *)
(***************************************************************************)
\* Mutant: the effect waits for a redirect.
LeavesForRedirect ==
    /\ route = "/auth" /\ store.isAuthenticated
    /\ ctx.redirect # None
    /\ HardNav(ctx.redirect, None, store, calls)
    /\ UNCHANGED <<accounts, mine>>

LeaveWhenSignedIn ==
    /\ route = "/auth" /\ store.isAuthenticated
    /\ \/ GoOn(Target, store, calls)
       \/ ctx = Context(ctx.redirect) /\ GoOn("/", store, calls)
    /\ UNCHANGED <<accounts, mine>>

AuthSteps ==
    \/ VibePicker \/ NameStep \/ KeyStep \/ OtpScreen \/ WelcomeOverlay \/ LoginScreen
    \/ ResetEmailStep \/ ResetOtpStep \/ ResetKeyStep

(***************************************************************************)
(* The other pages, as far as the session goes.                            *)
(***************************************************************************)
\* handleSignOut does not wait for the store's logout.
HandleSignOut ==
    /\ route # "/auth" /\ store.isAuthenticated
    /\ \E cs \in LoggingOut : SoftNav("/", cs)
    /\ UNCHANGED <<store, accounts, mine>>

LogoutAnswered(s) ==
    /\ Awaited(s, "logout")
    /\ \E ok \in Outcomes(s) : store' = AfterLogout(ok)
    /\ calls' = Finished(s)
    /\ UNCHANGED <<ctx, form>> /\ Called

\* A link or the browser's own navigation within the document.
Visit(t) ==
    /\ t # route
    /\ SoftNav(t, calls)
    /\ UNCHANGED <<store, accounts, mine>>

\* The sign-in links of a signed-out visitor; a gated page names itself.
SignIn ==
    /\ route # "/auth" /\ ~store.isAuthenticated
    /\ route' = "/auth"
    /\ \E r \in {None} \cup ({route} \cap Gated) : ctx' = Context(r)
    /\ form' = EmptyForm
    /\ calls' = Unmounted(calls)
    /\ UNCHANGED <<store, accounts, mine>>

\* The tab is reloaded.
Reload ==
    /\ HardNav(route, ctx.redirect, store, calls)
    /\ UNCHANGED <<accounts, mine>>

-----------------------------------------------------------------------------
Answer(s) ==
    \/ LoginAnswered(s) \/ RegisterAnswered(s) \/ VerifyAnswered(s)
    \/ ResendAnswered(s) \/ LogoutAnswered(s) \/ CheckAnswered(s)

Server(s) ==
    /\ Serve(s) \/ Lost(s)
    /\ UNCHANGED <<route, ctx, form, mine>>

Next ==
    \/ AuthSteps \/ SendCheck \/ CooldownOver \/ LeaveWhenSignedIn
    \/ \E s \in Slots : Server(s) \/ Answer(s) \/ WaitOver(s)
    \/ HandleSignOut \/ SignIn \/ Reload
    \/ \E t \in Routes : Visit(t)

Spec == Init /\ [][Next]_vars

\* A request ends, if only because the browser gives it up, and an effect runs.
FairSpec ==
    /\ Spec
    /\ WF_vars(LeaveWhenSignedIn)
    /\ \A s \in Slots : WF_vars(Answer(s))

-----------------------------------------------------------------------------
TypeOK ==
    /\ StoreTypeOK
    /\ route \in Routes
    /\ ctx \in [step : Steps, redirect : Gated \cup {None}, email : Emails \cup {None}]
    /\ form \in [named : BOOLEAN, avail : {"idle", "checking", "available", "taken"}, typing : BOOLEAN,
                 canResend : BOOLEAN, busy : BOOLEAN]
    /\ mine \subseteq Emails

\* Whatever answers arrive late, twice or after a reload: a browser is signed in with
\* the two tokens and the user of one account, which is verified, or with nothing.
SessionWhole ==
    /\ store.isAuthenticated <=> store.user # None
    /\ store.access = store.user /\ store.refresh = store.user
    /\ store.user # None => accounts[store.user] = "active"

PendingRegistered == store.pendingEmail # None => accounts[store.pendingEmail] # "none"
OtpEarned == ctx.step = "otp" => mine # {}

\* The screen that asks for the code is reached only after a registration that this
\* browser saw accepted, in whatever order steps are left and answers arrive, and the
\* address the store keeps as pending is one the server has an account for.
CodeEarned == PendingRegistered /\ OtpEarned

\* What the other pages see of the session is ViewerSession: somebody is signed in only
\* by an answer that was under way in this document, and signed out only by one, and no
\* reload changes who is signed in.
UnderWay(ops) == \E s \in Slots : calls[s].op \in ops /\ calls[s].client # "gone"
View ==
    [signedIn |-> store.isAuthenticated, arriving |-> UnderWay({"login", "verify"}),
     leaving |-> UnderWay({"logout"})]
Seen == INSTANCE ViewerSession WITH session <- View
SessionAsSeen == Seen!SessionSpec

\* The buttons of the forms come back, however a request ends, and a sign-out ends the
\* session though its request fails, unless its document goes first.
LoadingEnds == store.loading ~> ~store.loading
SignOutEnds ==
    \A s \in Slots :
        (calls[s].op = "logout" /\ calls[s].client # "gone")
            ~> (~store.isAuthenticated \/ (calls[s] # Free /\ calls[s].client = "gone"))
RequestsEnd == LoadingEnds /\ SignOutEnds

\* A visitor who is signed in does not stay on the sign-in page.
SignedInLeaves ==
    (route = "/auth" /\ store.isAuthenticated) ~> (route # "/auth" \/ ~store.isAuthenticated)
=============================================================================
