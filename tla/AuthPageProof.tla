---------------------------- MODULE AuthPageProof ----------------------------
(***************************************************************************)
(* Theorems about AuthPage, for all sets of addresses and routes and any   *)
(* number of requests under way.                                           *)
(*                                                                         *)
(* What an answer will write into the store is settled when the server     *)
(* acts, so the invariant says of every request what the server already    *)
(* knows of its address: one that was served a registration belongs to an  *)
(* account, one that was served a verification to a verified account.      *)
(* That stays true because an account only moves forward.                  *)
(***************************************************************************)
EXTENDS AuthPage, TLAPS

StoreTypes ==
    [user : Emails \cup {None}, access : Emails \cup {None},
     refresh : Emails \cup {None}, isAuthenticated : BOOLEAN,
     pendingEmail : Emails \cup {None}, loading : BOOLEAN]
AccountTypes == [Emails -> {"none", "pending", "active"}]
ContextTypes == [step : Steps, redirect : Gated \cup {None}, email : Emails \cup {None}]
FormTypes ==
    [named : BOOLEAN, avail : {"idle", "checking", "available", "taken"}, typing : BOOLEAN,
     canResend : BOOLEAN, busy : BOOLEAN]

\* The session of a store, given what the server has.
StoreOK(st, acc) ==
    /\ st \in StoreTypes
    /\ st.isAuthenticated <=> st.user # None
    /\ st.access = st.user /\ st.refresh = st.user
    /\ st.user # None => acc[st.user] = "active"
    /\ st.pendingEmail # None => acc[st.pendingEmail] # "none"

CallOK(c, acc) ==
    /\ c \in CallTypes
    /\ c.op = "login" => c.target \in Targets
    /\ c.op = "wait" => c.target \in Targets \cup Waits
    /\ c.op = "register" => c.email \in Emails
    /\ c.op = "register" /\ c.served => acc[c.email] # "none"
    /\ c.op = "verify" /\ c.served => c.email \in Emails /\ acc[c.email] = "active"

CallsOK(cs, acc) ==
    /\ cs = [s \in Slots |-> cs[s]]
    /\ \A s \in Slots : CallOK(cs[s], acc)

PageOK ==
    /\ route \in Routes
    /\ ctx \in ContextTypes
    /\ form \in FormTypes
    /\ mine \subseteq Emails
    /\ OtpEarned

AuthInv ==
    /\ StoreOK(store, accounts)
    /\ CallsOK(calls, accounts)
    /\ accounts \in AccountTypes
    /\ PageOK

(***************************************************************************)
(* Requests.                                                               *)
(***************************************************************************)
LEMMA FreeOK == ASSUME NEW acc PROVE CallOK(Free, acc)
BY DEF CallOK, CallTypes, Free

LEMMA FinishedOK ==
    ASSUME NEW acc, CallsOK(calls, acc), NEW s \in Slots
    PROVE  CallsOK(Finished(s), acc)
BY FreeOK DEF CallsOK, Finished

\* A request whose caller went is still of its kind.
LEMMA ClientOK ==
    ASSUME NEW acc, NEW c, CallOK(c, acc), c.op # "free", NEW client \in {"page", "tab", "gone"},
           NEW d, d = [c EXCEPT !.client = client]
    PROVE  CallOK(d, acc)
<1>1. c \in [op : {"login", "register", "verify", "resend", "logout", "check", "wait"},
             email : Emails \cup {None}, target : Targets \cup Waits \cup {None},
             served : BOOLEAN, client : {"page", "tab", "gone"}]
  BY DEF CallOK, CallTypes, Free
<1> QED BY <1>1 DEF CallOK, CallTypes

LEMMA UnmountedOK ==
    ASSUME NEW acc, NEW cs, CallsOK(cs, acc)
    PROVE  CallsOK(Unmounted(cs), acc)
<1>1. ASSUME NEW s \in Slots PROVE CallOK(Unmounted(cs)[s], acc)
  <2>1. CASE \/ cs[s].op \in {"free", "check"}
             \/ cs[s].op = "wait" /\ cs[s].target \notin Targets
    BY <2>1, FreeOK DEF Unmounted
  <2>2. CASE ~(\/ cs[s].op \in {"free", "check"}
               \/ cs[s].op = "wait" /\ cs[s].target \notin Targets)
    <3> DEFINE left == IF cs[s].client = "page" THEN "tab" ELSE cs[s].client
    <3>1. Unmounted(cs)[s] = [cs[s] EXCEPT !.client = left]
      BY <2>2 DEF Unmounted
    <3>2. CallOK(cs[s], acc) /\ cs[s].op # "free"
      BY <2>2 DEF CallsOK
    <3>3. left \in {"page", "tab", "gone"}
      BY <3>2 DEF CallOK, CallTypes, Free
    <3> QED BY <3>1, <3>2, <3>3, ClientOK
  <2> QED BY <2>1, <2>2
<1>2. Unmounted(cs) = [s \in Slots |-> Unmounted(cs)[s]]
  BY DEF Unmounted
<1> QED BY <1>1, <1>2 DEF CallsOK

LEMMA UnloadedOK ==
    ASSUME NEW acc, NEW cs, CallsOK(cs, acc)
    PROVE  CallsOK(Unloaded(cs), acc)
<1>1. ASSUME NEW s \in Slots PROVE CallOK(Unloaded(cs)[s], acc)
  <2>1. CASE cs[s].op \in {"register", "verify", "logout"} /\ ~cs[s].served
    <3>1. Unloaded(cs)[s] = [cs[s] EXCEPT !.client = "gone"]
      BY <2>1 DEF Unloaded
    <3>2. CallOK(cs[s], acc) /\ cs[s].op # "free"
      BY <2>1 DEF CallsOK
    <3> QED BY <3>1, <3>2, ClientOK
  <2>2. CASE ~(cs[s].op \in {"register", "verify", "logout"} /\ ~cs[s].served)
    BY <2>2, FreeOK DEF Unloaded
  <2> QED BY <2>1, <2>2
<1>2. Unloaded(cs) = [s \in Slots |-> Unloaded(cs)[s]]
  BY DEF Unloaded
<1> QED BY <1>1, <1>2 DEF CallsOK

LEMMA SendingOK ==
    ASSUME NEW acc, CallsOK(calls, acc),
           NEW op \in {"login", "register", "verify", "resend", "logout", "check", "wait"},
           NEW e \in Emails \cup {None}, NEW t \in Targets \cup Waits \cup {None},
           op = "login" => t \in Targets, op = "wait" => t \in Targets \cup Waits,
           op = "register" => e \in Emails,
           NEW cs \in Sending(op, e, t)
    PROVE  CallsOK(cs, acc)
<1>1. CallOK(Started(op, e, t), acc)
  <2>1. Started(op, e, t) \in CallTypes
    BY DEF Started, CallTypes
  <2> QED BY <2>1 DEF Started, CallOK
<1>2. PICK s \in Slots : cs = [calls EXCEPT ![s] = Started(op, e, t)]
  BY DEF Sending, FreeSlots
<1> QED BY <1>1, <1>2 DEF CallsOK

(***************************************************************************)
(* Moving between routes and steps.                                        *)
(***************************************************************************)
LEMMA EmptyPage ==
    ASSUME NEW redirect \in Gated \cup {None}
    PROVE  /\ Context(redirect) \in ContextTypes /\ Context(redirect).step = "vibe"
           /\ EmptyForm \in FormTypes
BY DEF Context, EmptyForm, ContextTypes, FormTypes, Steps

LEMMA SoftNavOK ==
    ASSUME NEW t \in Routes, NEW cs, CallsOK(cs, accounts), SoftNav(t, cs), mine' \subseteq Emails
    PROVE  PageOK' /\ CallsOK(calls', accounts)
BY EmptyPage, UnmountedOK DEF SoftNav, PageOK, OtpEarned

LEMMA HardNavOK ==
    ASSUME NEW t \in Routes, NEW redirect \in Gated \cup {None}, NEW cs, CallsOK(cs, accounts),
           NEW st, StoreOK(st, accounts), HardNav(t, redirect, st, cs), mine' \subseteq Emails
    PROVE  PageOK' /\ CallsOK(calls', accounts) /\ StoreOK(store', accounts)
<1>1. StoreOK(Rehydrated(st), accounts)
  BY DEF StoreOK, StoreTypes, Rehydrated
<1> QED BY <1>1, EmptyPage, UnloadedOK DEF HardNav, PageOK, OtpEarned

LEMMA GoOnOK ==
    ASSUME NEW t \in Targets, NEW cs, CallsOK(cs, accounts),
           NEW st, StoreOK(st, accounts), GoOn(t, st, cs), mine' \subseteq Emails
    PROVE  PageOK' /\ CallsOK(calls', accounts) /\ StoreOK(store', accounts)
<1>1. t \in Routes
  BY DEF Routes
<1> QED BY <1>1, SoftNavOK, HardNavOK DEF GoOn

LEMMA TargetOK ==
    ASSUME PageOK
    PROVE  Target \in Targets
BY DEF PageOK, ContextTypes, Target, Targets

LEMMA GoToOK ==
    ASSUME PageOK, NEW step \in Steps, NEW cs, CallsOK(cs, accounts), GoTo(step, cs),
           mine' \subseteq Emails, step = "otp" => mine' # {}, UNCHANGED route
    PROVE  PageOK' /\ CallsOK(calls', accounts)
<1>1. ctx' \in ContextTypes /\ ctx'.step = step
  BY DEF PageOK, ContextTypes, GoTo
<1>2. form' \in FormTypes
  BY EmptyPage DEF PageOK, GoTo
<1>3. calls' = [s \in Slots |-> IF cs[s].op = "check" /\ step # "name" THEN Free ELSE cs[s]]
  BY DEF GoTo
<1>4. CallsOK(calls', accounts)
  BY <1>3, FreeOK DEF CallsOK
<1> QED BY <1>1, <1>2, <1>4 DEF PageOK, OtpEarned

LEMMA FollowKeeps ==
    ASSUME AuthInv, NEW step \in Steps \ {"otp"}, Follow(step)
    PROVE  AuthInv'
<1>1. PageOK' /\ CallsOK(calls', accounts)
  BY GoToOK DEF Follow, AuthInv, PageOK
<1> QED BY <1>1 DEF Follow, AuthInv

\* A step that only fills in the form or the context.
LEMMA TypingKeeps ==
    ASSUME AuthInv, UNCHANGED <<store, calls, accounts, route, mine>>,
           ctx' \in ContextTypes, ctx'.step \in {ctx.step} \cup (Steps \ {"otp"}),
           form' \in FormTypes
    PROVE  AuthInv'
BY DEF AuthInv, PageOK, OtpEarned

LEMMA SetOK ==
    ASSUME PageOK, NEW field \in {"named", "typing", "canResend", "busy"}, NEW v \in BOOLEAN,
           Set(field, v)
    PROVE  form' \in FormTypes
BY DEF PageOK, FormTypes, Set

LEMMA TypeEmailKeeps ==
    ASSUME AuthInv, TypeEmail
    PROVE  AuthInv'
<1>1. ctx' \in ContextTypes /\ ctx'.step = ctx.step
  BY DEF TypeEmail, AuthInv, PageOK, ContextTypes
<1> QED BY <1>1, TypingKeeps DEF TypeEmail, Typed, AuthInv, PageOK

(***************************************************************************)
(* Calling the store.                                                      *)
(***************************************************************************)
LEMMA LoadingOK ==
    ASSUME StoreOK(store, accounts)
    PROVE  StoreOK(Loading, accounts) /\ StoreOK(Stopped, accounts) /\ StoreOK(Cleared, accounts)
<1>1. StoreOK(Loading, accounts) /\ StoreOK(Stopped, accounts)
  BY DEF StoreOK, StoreTypes, Loading, Stopped
<1>2. StoreOK(Cleared, accounts)
  BY DEF StoreOK, StoreTypes, Cleared, SignedOut
<1> QED BY <1>1, <1>2

\* A step that sends a request, and does nothing else that matters here.
LEMMA CallKeeps ==
    ASSUME AuthInv, NEW op \in {"login", "register", "verify", "resend", "check", "wait"},
           NEW e \in Emails \cup {None}, NEW t \in Targets \cup Waits \cup {None},
           op = "login" => t \in Targets, op = "wait" => t \in Targets \cup Waits,
           op = "register" => e \in Emails,
           calls' \in Sending(op, e, t), store' \in {store, Loading},
           form' \in FormTypes, UNCHANGED <<accounts, route, mine, ctx>>
    PROVE  AuthInv'
<1>1. CallsOK(calls', accounts)
  BY SendingOK DEF AuthInv
<1>2. StoreOK(store', accounts)
  BY LoadingOK DEF AuthInv
<1> QED BY <1>1, <1>2 DEF AuthInv, PageOK, OtpEarned

(***************************************************************************)
(* The steps of the page.                                                  *)
(***************************************************************************)
LEMMA NameKeyKeeps ==
    ASSUME AuthInv, VibePicker \/ NameStep \/ KeyStep \/ SendCheck \/ CooldownOver
    PROVE  AuthInv'
<1> USE DEF Steps
<1>0. PageOK /\ ctx \in ContextTypes /\ form \in FormTypes
  BY DEF AuthInv, PageOK
<1>1. CASE VibePicker
  BY <1>1, FollowKeeps DEF VibePicker
<1>2. CASE HandleUsernameChange
  <2>1. form' \in FormTypes
    BY <1>0, <1>2 DEF HandleUsernameChange, FormTypes
  <2> QED BY <1>0, <1>2, <2>1, TypingKeeps DEF HandleUsernameChange, Typed
<1>3. CASE PickSuggestion
  <2>1. form' \in FormTypes
    BY <1>0, <1>3 DEF PickSuggestion, Set, FormTypes
  <2> QED BY <1>0, <1>3, <2>1, TypingKeeps DEF PickSuggestion, Typed
<1>4. CASE HandleNext
  BY <1>4, FollowKeeps DEF HandleNext
<1>5. CASE NameStep
  BY <1>5, <1>2, <1>3, <1>4, FollowKeeps DEF NameStep
<1>6. CASE HandleSubmit
  <2>1. ctx.email \in Emails
    BY <1>0, <1>6 DEF HandleSubmit, ContextTypes
  <2> QED BY <1>0, <1>6, <2>1, CallKeeps DEF HandleSubmit, Register, Called
<1>7. CASE KeyStep
  BY <1>7, <1>6, TypeEmailKeeps, FollowKeeps DEF KeyStep
<1>8. CASE SendCheck
  <2>1. form' \in FormTypes
    BY <1>0, <1>8, SetOK DEF SendCheck
  <2> QED BY <1>8, <2>1, CallKeeps DEF SendCheck, CheckUsername, Called
<1>9. CASE CooldownOver
  <2>1. form' \in FormTypes
    BY <1>0, <1>9, SetOK DEF CooldownOver
  <2> QED BY <1>0, <1>9, <2>1, TypingKeeps DEF CooldownOver, Typed
<1> QED BY <1>1, <1>5, <1>7, <1>8, <1>9

LEMMA CodeLoginKeeps ==
    ASSUME AuthInv, OtpScreen \/ WelcomeOverlay \/ LoginScreen
    PROVE  AuthInv'
<1>0. /\ PageOK /\ ctx \in ContextTypes /\ form \in FormTypes /\ Target \in Targets
      /\ ctx.email \in Emails \cup {None}
  BY TargetOK DEF AuthInv, PageOK, ContextTypes
<1>1. CASE HandleVerify
  BY <1>0, <1>1, CallKeeps DEF HandleVerify, VerifyOtp, Called
<1>2. CASE HandleResend
  <2>1. form' \in FormTypes
    BY <1>0, <1>2, SetOK DEF HandleResend
  <2> QED BY <1>0, <1>2, <2>1, CallKeeps DEF HandleResend, ResendOtp, Called
<1>3. CASE WelcomeOverlay
  <2>1. Target \in Routes
    BY <1>0 DEF Routes
  <2> QED BY <1>0, <1>3, <2>1, HardNavOK DEF WelcomeOverlay, AuthInv, PageOK
<1>4. CASE HandleLogin
  BY <1>0, <1>4, CallKeeps DEF HandleLogin, Login, Called
<1>5. CASE FindYourVibe
  <2>1. ctx' \in ContextTypes /\ ctx'.step = "vibe"
    BY <1>0, <1>5 DEF FindYourVibe, ContextTypes, Steps
  <2>2. form' \in FormTypes
    BY <1>5, EmptyPage DEF FindYourVibe
  <2>3. "vibe" \in Steps \ {"otp"}
    BY DEF Steps
  <2> QED BY <1>5, <2>1, <2>2, <2>3, TypingKeeps DEF FindYourVibe, Typed
<1>6. CASE Follow("reset")
  BY <1>6, FollowKeeps DEF Steps
<1> QED BY <1>1, <1>2, <1>3, <1>4, <1>5, <1>6, TypeEmailKeeps DEF OtpScreen, LoginScreen

LEMMA ResetKeeps ==
    ASSUME AuthInv, ResetEmailStep \/ ResetOtpStep \/ ResetKeyStep
    PROVE  AuthInv'
<1>0. PageOK /\ ctx \in ContextTypes /\ form \in FormTypes /\ Target \in Targets
  BY TargetOK DEF AuthInv, PageOK
<1>1. ASSUME NEW t \in Targets \cup Waits, GoOnAfter(t) PROVE AuthInv'
  <2>1. form' \in FormTypes
    BY <1>0, <1>1, SetOK DEF GoOnAfter
  <2> QED BY <1>1, <2>1, CallKeeps DEF GoOnAfter, Wait, Called
<1>2. CASE ResetResend
  <2>1. form' \in FormTypes
    BY <1>0, <1>2, SetOK DEF ResetResend
  <2> QED BY <1>0, <1>2, <2>1, TypingKeeps DEF ResetResend, Typed
<1>3. CASE Follow("login")
  BY <1>3, FollowKeeps DEF Steps
<1> QED BY <1>0, <1>1, <1>2, <1>3, TypeEmailKeeps
        DEF ResetEmailStep, ResetOtpStep, ResetKeyStep, Waits

(***************************************************************************)
(* Answers, the server, and the other pages.                               *)
(***************************************************************************)
\* Who is answered that they are in has a verified account.
LEMMA Granted ==
    ASSUME AuthInv, NEW s \in Slots, calls[s].op \in {"login", "verify"},
           NEW ok \in Outcomes(s), ok
    PROVE  StoreOK(Session(calls[s].email), accounts)
<1>1. CallOK(calls[s], accounts)
  BY DEF AuthInv, CallsOK
<1>2. calls[s].email \in Emails /\ accounts[calls[s].email] = "active"
  <2>1. CASE calls[s].op = "login"
    <3>1. Status(calls[s].email) = "active"
      BY <2>1 DEF Outcomes
    <3> QED BY <1>1, <2>1, <3>1 DEF Status, CallOK, CallTypes, Free
  <2>2. CASE calls[s].op = "verify"
    BY <1>1, <2>2 DEF Outcomes, CallOK
  <2> QED BY <2>1, <2>2
<1> QED BY <1>2, NoneIsNoEmail DEF StoreOK, StoreTypes, Session

LEMMA AnswerKeeps ==
    ASSUME AuthInv, NEW s \in Slots, Answer(s)
    PROVE  AuthInv'
<1>0. /\ CallOK(calls[s], accounts) /\ CallsOK(Finished(s), accounts)
      /\ StoreOK(store, accounts) /\ StoreOK(Stopped, accounts) /\ StoreOK(Cleared, accounts)
      /\ PageOK /\ accounts \in AccountTypes /\ mine \subseteq Emails
  BY FinishedOK, LoadingOK DEF AuthInv, CallsOK, PageOK
<1>1. CASE LoginAnswered(s)
  <2>1. PICK ok \in Outcomes(s) :
          IF ok THEN GoOn(calls[s].target, AfterLogin(s, ok), Finished(s))
          ELSE /\ store' = AfterLogin(s, ok)
               /\ calls' = Finished(s)
               /\ UNCHANGED <<route, ctx, form>>
    BY <1>1 DEF LoginAnswered
  <2>2. calls[s].op = "login" /\ UNCHANGED <<accounts, mine>>
    BY <1>1 DEF LoginAnswered, Awaited
  <2>3. CASE ok
    <3>1. StoreOK(AfterLogin(s, ok), accounts)
      BY <2>2, <2>3, Granted DEF AfterLogin
    <3>2. calls[s].target \in Targets
      BY <1>0, <2>2 DEF CallOK
    <3> QED BY <1>0, <2>1, <2>2, <2>3, <3>1, <3>2, GoOnOK DEF AuthInv
  <2>4. CASE ~ok
    BY <1>0, <2>1, <2>2, <2>4 DEF AfterLogin, AuthInv, PageOK, OtpEarned
  <2> QED BY <2>3, <2>4
<1>2. CASE RegisterAnswered(s)
  <2>1. PICK ok \in Outcomes(s) :
          /\ store' = AfterRegister(s, ok)
          /\ IF ok /\ calls[s].client = "page"
             THEN GoTo("otp", Finished(s))
             ELSE UNCHANGED <<ctx, form>> /\ calls' = Finished(s)
          /\ mine' = IF ok THEN mine \cup {calls[s].email} ELSE mine
    BY <1>2 DEF RegisterAnswered
  <2>2. calls[s].op = "register" /\ calls[s].email \in Emails /\ UNCHANGED <<accounts, route>>
    BY <1>0, <1>2 DEF RegisterAnswered, Awaited, CallOK
  <2>3. mine' \subseteq Emails /\ mine \subseteq mine'
    BY <1>0, <2>1, <2>2
  <2>4. StoreOK(store', accounts)
    <3>1. CASE ok
      <4>1. accounts[calls[s].email] # "none"
        BY <1>0, <2>2, <3>1 DEF Outcomes, CallOK
      <4> QED BY <1>0, <2>1, <2>2, <3>1, <4>1
              DEF AfterRegister, StoreOK, StoreTypes, Stopped
    <3>2. CASE ~ok
      BY <1>0, <2>1, <3>2 DEF AfterRegister
    <3> QED BY <3>1, <3>2
  <2>5. CASE ok /\ calls[s].client = "page"
    <3>1. GoTo("otp", Finished(s)) /\ mine' # {} /\ "otp" \in Steps
      BY <2>1, <2>5 DEF Steps
    <3>2. PageOK' /\ CallsOK(calls', accounts)
      BY <1>0, <2>2, <2>3, <3>1, GoToOK
    <3> QED BY <1>0, <2>2, <2>4, <3>2 DEF AuthInv
  <2>6. CASE ~(ok /\ calls[s].client = "page")
    <3>1. UNCHANGED <<ctx, form>> /\ calls' = Finished(s)
      BY <2>1, <2>6
    <3>2. OtpEarned'
      BY <1>0, <2>3, <3>1 DEF PageOK, OtpEarned
    <3>3. PageOK'
      BY <1>0, <2>2, <2>3, <3>1, <3>2 DEF PageOK
    <3> QED BY <1>0, <2>2, <2>4, <3>1, <3>3 DEF AuthInv
  <2> QED BY <2>5, <2>6
<1>3. CASE VerifyAnswered(s)
  <2>1. PICK ok \in Outcomes(s) :
          /\ store' = AfterVerify(s, ok)
          /\ IF ok /\ calls[s].client = "page"
             THEN GoTo("welcome", Finished(s))
             ELSE UNCHANGED <<ctx, form>> /\ calls' = Finished(s)
    BY <1>3 DEF VerifyAnswered
  <2>2. calls[s].op = "verify" /\ UNCHANGED <<accounts, route, mine>>
    BY <1>3 DEF VerifyAnswered, Awaited, Called
  <2>3. StoreOK(store', accounts)
    <3>1. CASE ok
      BY <2>1, <2>2, <3>1, Granted DEF AfterVerify
    <3>2. CASE ~ok
      BY <1>0, <2>1, <3>2 DEF AfterVerify
    <3> QED BY <3>1, <3>2
  <2>4. CASE ok /\ calls[s].client = "page"
    <3>1. GoTo("welcome", Finished(s)) /\ "welcome" \in Steps
      BY <2>1, <2>4 DEF Steps
    <3>2. PageOK' /\ CallsOK(calls', accounts)
      BY <1>0, <2>2, <3>1, GoToOK
    <3> QED BY <1>0, <2>2, <2>3, <3>2 DEF AuthInv
  <2>5. CASE ~(ok /\ calls[s].client = "page")
    <3>1. UNCHANGED <<ctx, form>> /\ calls' = Finished(s)
      BY <2>1, <2>5
    <3> QED BY <1>0, <2>2, <2>3, <3>1 DEF AuthInv, PageOK, OtpEarned
  <2> QED BY <2>4, <2>5
<1>4. CASE ResendAnswered(s)
  BY <1>0, <1>4 DEF ResendAnswered, AfterResend, Called, AuthInv, PageOK, OtpEarned
<1>5. CASE LogoutAnswered(s)
  BY <1>0, <1>5 DEF LogoutAnswered, AfterLogout, Called, AuthInv, PageOK, OtpEarned
<1>6. CASE CheckAnswered(s)
  <2>1. form' \in FormTypes
    BY <1>0, <1>6 DEF CheckAnswered, Set, PageOK, FormTypes
  <2> QED BY <1>0, <1>6, <2>1 DEF CheckAnswered, Called, AuthInv, PageOK, OtpEarned
<1> QED BY <1>1, <1>2, <1>3, <1>4, <1>5, <1>6 DEF Answer

LEMMA WaitOverKeeps ==
    ASSUME AuthInv, NEW s \in Slots, WaitOver(s)
    PROVE  AuthInv'
<1>0. /\ CallOK(calls[s], accounts) /\ CallsOK(Finished(s), accounts)
      /\ StoreOK(store, accounts) /\ PageOK /\ mine \subseteq Emails
  BY FinishedOK DEF AuthInv, CallsOK, PageOK
<1>1. calls[s].op = "wait" /\ UNCHANGED <<accounts, mine>>
  BY DEF WaitOver
<1>2. CASE calls[s].target \in Waits
  <2>1. calls[s].target \in Steps /\ calls[s].target # "otp"
    BY <1>2 DEF Steps, Waits
  <2>2. GoTo(calls[s].target, Finished(s)) /\ UNCHANGED <<store, route>>
    BY <1>2 DEF WaitOver
  <2>3. PageOK' /\ CallsOK(calls', accounts)
    BY <1>0, <1>1, <2>1, <2>2, GoToOK
  <2> QED BY <1>0, <1>1, <2>2, <2>3 DEF AuthInv
<1>3. CASE calls[s].target \notin Waits
  <2>1. GoOn(calls[s].target, store, Finished(s))
    BY <1>3 DEF WaitOver
  <2>2. calls[s].target \in Targets
    BY <1>0, <1>1, <1>3 DEF CallOK
  <2> QED BY <1>0, <1>1, <2>1, <2>2, GoOnOK DEF AuthInv
<1> QED BY <1>2, <1>3

\* An account moves from none to pending to active, and what is known of it stays true.
LEMMA LaterOK ==
    ASSUME NEW e \in Emails, NEW status \in {"pending", "active"}, accounts \in AccountTypes,
           accounts[e] = "none" \/ (accounts[e] = "pending" /\ status = "active"),
           NEW acc, acc = [accounts EXCEPT ![e] = status]
    PROVE  /\ acc \in AccountTypes
           /\ \A st : StoreOK(st, accounts) => StoreOK(st, acc)
           /\ \A c : CallOK(c, accounts) => CallOK(c, acc)
<1>1. acc \in AccountTypes /\ acc[e] = status
  BY DEF AccountTypes
<1>2. \A f \in Emails : /\ accounts[f] = "active" => acc[f] = "active"
                        /\ accounts[f] # "none" => acc[f] # "none"
  BY <1>1 DEF AccountTypes
<1>3. ASSUME NEW st, StoreOK(st, accounts) PROVE StoreOK(st, acc)
  <2>1. st.user \in Emails \cup {None} /\ st.pendingEmail \in Emails \cup {None}
    BY <1>3 DEF StoreOK, StoreTypes
  <2> QED BY <1>2, <1>3, <2>1 DEF StoreOK
<1>4. ASSUME NEW c, CallOK(c, accounts) PROVE CallOK(c, acc)
  BY <1>2, <1>4 DEF CallOK
<1> QED BY <1>1, <1>3, <1>4

LEMMA ServerKeeps ==
    ASSUME AuthInv, NEW s \in Slots, Server(s)
    PROVE  AuthInv'
<1> DEFINE done == [calls EXCEPT ![s] = IF calls[s].client = "gone" THEN Free
                                        ELSE [calls[s] EXCEPT !.served = TRUE]]
<1>0. /\ CallsOK(calls, accounts) /\ CallOK(calls[s], accounts) /\ StoreOK(store, accounts)
      /\ accounts \in AccountTypes
  BY DEF AuthInv, CallsOK
<1>1. UNCHANGED <<route, ctx, form, mine>>
  BY DEF Server
<1>2. PageOK'
  BY <1>1 DEF AuthInv, PageOK, OtpEarned
<1>3. ASSUME NEW op \in {"register", "verify"}, calls[s].op = op,
             NEW e \in Emails, calls[s].email = e,
             NEW status, status = (IF op = "register" THEN "pending" ELSE "active"),
             accounts[e] = "none" \/ (accounts[e] = "pending" /\ status = "active"),
             accounts' = [accounts EXCEPT ![e] = status], calls' = done, UNCHANGED store
      PROVE  AuthInv'
  <2>1. /\ accounts' \in AccountTypes /\ StoreOK(store, accounts')
        /\ \A c : CallOK(c, accounts) => CallOK(c, accounts')
    BY <1>0, <1>3, LaterOK
  <2>2. accounts'[e] = status
    BY <1>0, <1>3 DEF AccountTypes
  <2>3. ASSUME NEW d, d = [calls[s] EXCEPT !.served = TRUE] PROVE CallOK(d, accounts')
    <3>1. calls[s] \in
            [op : {"login", "register", "verify", "resend", "logout", "check", "wait"},
             email : Emails \cup {None}, target : Targets \cup Waits \cup {None},
             served : BOOLEAN, client : {"page", "tab", "gone"}]
      BY <1>0, <1>3 DEF CallOK, CallTypes, Free
    <3>2. d \in CallTypes /\ d.op = op /\ d.email = e
      BY <1>3, <2>3, <3>1 DEF CallTypes
    <3> QED BY <1>3, <2>2, <3>2 DEF CallOK
  <2>4. CallOK(IF calls[s].client = "gone" THEN Free ELSE [calls[s] EXCEPT !.served = TRUE],
               accounts')
    BY <2>3, FreeOK
  <2>5. CallsOK(done, accounts')
    <3> DEFINE d == IF calls[s].client = "gone" THEN Free ELSE [calls[s] EXCEPT !.served = TRUE]
    <3>1. CallOK(d, accounts') /\ done = [calls EXCEPT ![s] = d]
      BY <2>4
    <3> HIDE DEF d, done
    <3> QED BY <1>0, <2>1, <3>1 DEF CallsOK
  <2> QED BY <1>2, <1>3, <2>1, <2>5 DEF AuthInv
<1>4. CASE Lost(s)
  BY <1>0, <1>2, <1>4, FinishedOK DEF Lost, AuthInv
<1>5. CASE Serve(s)
  <2>1. calls[s].email # None =>
          (calls[s].op \in {"register", "verify"} => calls[s].email \in Emails)
    BY <1>0 DEF CallOK, CallTypes, Free
  <2>2. \/ /\ calls[s].op = "register" /\ calls[s].email \in Emails
           /\ accounts[calls[s].email] = "none"
           /\ accounts' = [accounts EXCEPT ![calls[s].email] = "pending"]
           /\ calls' = done /\ UNCHANGED store
        \/ /\ calls[s].op = "verify" /\ calls[s].email \in Emails
           /\ accounts[calls[s].email] = "pending"
           /\ accounts' = [accounts EXCEPT ![calls[s].email] = "active"]
           /\ calls' = done /\ UNCHANGED store
    <3>1. CASE calls[s].op = "register"
      BY <1>0, <1>5, <3>1, NoneIsNoEmail DEF Serve, Status, CallOK
    <3>2. CASE calls[s].op = "verify"
      BY <1>5, <2>1, <3>2 DEF Serve, Status
    <3> QED BY <1>5, <3>1, <3>2 DEF Serve
  <2> QED BY <1>3, <2>2
<1> QED BY <1>4, <1>5 DEF Server

LEMMA OtherPagesKeep ==
    ASSUME AuthInv,
           LeaveWhenSignedIn \/ HandleSignOut \/ SignIn \/ Reload \/ \E t \in Routes : Visit(t)
    PROVE  AuthInv'
<1>0. /\ CallsOK(calls, accounts) /\ StoreOK(store, accounts) /\ PageOK
      /\ mine \subseteq Emails /\ route \in Routes /\ ctx.redirect \in Gated \cup {None}
      /\ Target \in Targets /\ "/" \in Targets /\ "/" \in Routes /\ "/auth" \in Routes
  BY TargetOK DEF AuthInv, PageOK, ContextTypes, Targets, Routes
<1>1. CASE LeaveWhenSignedIn
  BY <1>0, <1>1, GoOnOK DEF LeaveWhenSignedIn, AuthInv
<1>2. CASE HandleSignOut
  <2>1. PICK cs \in Sending("logout", store.access, None) : SoftNav("/", cs)
    BY <1>2 DEF HandleSignOut, LoggingOut
  <2>2. store.access \in Emails \cup {None}
    BY <1>0 DEF StoreOK, StoreTypes
  <2>3. CallsOK(cs, accounts)
    BY <1>0, <2>2, SendingOK
  <2> QED BY <1>0, <1>2, <2>1, <2>3, SoftNavOK DEF HandleSignOut, AuthInv
<1>3. CASE SignIn
  <2>1. PICK r \in {None} \cup ({route} \cap Gated) : ctx' = Context(r)
    BY <1>3 DEF SignIn
  <2>2. /\ route' = "/auth" /\ form' = EmptyForm /\ calls' = Unmounted(calls)
        /\ UNCHANGED <<store, accounts, mine>>
    BY <1>3 DEF SignIn
  <2>3. r \in Gated \cup {None}
    OBVIOUS
  <2>4. PageOK'
    BY <1>0, <2>1, <2>2, <2>3, EmptyPage DEF PageOK, OtpEarned
  <2>5. CallsOK(calls', accounts)
    BY <1>0, <2>2, UnmountedOK
  <2> QED BY <1>0, <2>2, <2>4, <2>5 DEF AuthInv
<1>4. CASE Reload
  BY <1>0, <1>4, HardNavOK DEF Reload, AuthInv
<1>5. ASSUME NEW t \in Routes, Visit(t) PROVE AuthInv'
  BY <1>0, <1>5, SoftNavOK DEF Visit, AuthInv
<1> QED BY <1>1, <1>2, <1>3, <1>4, <1>5

(***************************************************************************)
(* The invariant.                                                          *)
(***************************************************************************)
LEMMA InitInv == Init => AuthInv
<1> SUFFICES ASSUME Init PROVE AuthInv
  OBVIOUS
<1>1. StoreOK(store, accounts)
  BY DEF Init, StoreInit, SignedOut, StoreOK, StoreTypes
<1>2. CallsOK(calls, accounts)
  BY FreeOK DEF Init, StoreInit, CallsOK
<1>3. accounts \in AccountTypes
  BY DEF Init, StoreInit, AccountTypes
<1>4. PageOK
  BY EmptyPage DEF Init, PageOK, OtpEarned, Routes, Targets
<1> QED BY <1>1, <1>2, <1>3, <1>4 DEF AuthInv

LEMMA AuthInvariant == Spec => []AuthInv
<1>1. AuthInv /\ [Next]_vars => AuthInv'
  <2> SUFFICES ASSUME AuthInv, [Next]_vars PROVE AuthInv'
    OBVIOUS
  <2>1. CASE AuthSteps \/ SendCheck \/ CooldownOver
    BY <2>1, NameKeyKeeps, CodeLoginKeeps, ResetKeeps DEF AuthSteps
  <2>2. CASE LeaveWhenSignedIn \/ HandleSignOut \/ SignIn \/ Reload \/ \E t \in Routes : Visit(t)
    BY <2>2, OtherPagesKeep
  <2>3. CASE \E s \in Slots : Server(s) \/ Answer(s) \/ WaitOver(s)
    BY <2>3, ServerKeeps, AnswerKeeps, WaitOverKeeps
  <2>4. CASE UNCHANGED vars
    BY <2>4 DEF vars, AuthInv, PageOK, OtpEarned
  <2> QED BY <2>1, <2>2, <2>3, <2>4 DEF Next
<1> QED BY <1>1, InitInv, PTL DEF Spec

(***************************************************************************)
(* The theorems.                                                           *)
(***************************************************************************)
\* The store, the requests under way and the page keep their types.
THEOREM TypeCorrect == Spec => []TypeOK
<1>1. AuthInv => calls \in [Slots -> CallTypes]
  BY DEF AuthInv, CallsOK, CallOK
<1>2. AuthInv => TypeOK
  BY <1>1 DEF AuthInv, StoreOK, StoreTypes, AccountTypes, PageOK, ContextTypes, FormTypes,
              TypeOK, StoreTypeOK
<1> QED BY <1>2, AuthInvariant, PTL

\* However many answers are late, repeated or lost: the browser holds the tokens of one
\* verified account, or none.
THEOREM SessionIsWhole == Spec => []SessionWhole
<1>1. AuthInv => SessionWhole
  BY DEF AuthInv, StoreOK, SessionWhole
<1> QED BY <1>1, AuthInvariant, PTL

\* Nobody is asked for a code without an accepted registration, and the store's pending
\* address always has an account.
THEOREM CodeAfterRegistration == Spec => []CodeEarned
<1>1. AuthInv => CodeEarned
  BY DEF AuthInv, StoreOK, PageOK, PendingRegistered, CodeEarned
<1> QED BY <1>1, AuthInvariant, PTL

(***************************************************************************)
(* What the other pages see.  A step is described by what it does to who   *)
(* is signed in, and to whether a sign-in or a sign-out is under way.      *)
(***************************************************************************)
In(cs) == \E s \in Slots : cs[s].op \in {"login", "verify"} /\ cs[s].client # "gone"
Out(cs) == \E s \in Slots : cs[s].op = "logout" /\ cs[s].client # "gone"
Waiting(cs) == In(cs) \/ Out(cs)
AsBefore(cs) == (In(cs) <=> In(calls)) /\ (Out(cs) <=> Out(calls))

Signed == store.isAuthenticated
Unmoved == Signed' = Signed

Moved ==
    \/ Unmoved /\ (AsBefore(calls') \/ ~Waiting(calls'))
    \/ Unmoved /\ In(calls') /\ (Out(calls') <=> Out(calls))
    \/ Unmoved /\ In(calls) /\ ~In(calls') /\ (Out(calls') <=> Out(calls))
    \/ Unmoved /\ Signed /\ Out(calls') /\ (In(calls') <=> In(calls))
    \/ In(calls) /\ Signed' /\ ((Out(calls') <=> Out(calls)) \/ ~Waiting(calls'))
    \/ Out(calls) /\ ~Signed' /\ (In(calls') <=> In(calls))

LEMMA Moves ==
    ASSUME AuthInv, AuthInv', Moved
    PROVE  [Seen!SessionNext]_View
<1>1. /\ View.signedIn = Signed /\ View'.signedIn = Signed'
      /\ Signed \in BOOLEAN /\ Signed' \in BOOLEAN
  BY DEF View, Signed, AuthInv, StoreOK, StoreTypes
<1>2. /\ View.arriving = In(calls) /\ View.leaving = Out(calls)
      /\ View'.arriving = In(calls') /\ View'.leaving = Out(calls')
  BY DEF View, UnderWay, In, Out
<1>3. View' = [signedIn |-> View'.signedIn, arriving |-> View'.arriving, leaving |-> View'.leaving]
  BY DEF View
<1>4. View = [signedIn |-> View.signedIn, arriving |-> View.arriving, leaving |-> View.leaving]
  BY DEF View
<1>5. /\ View.arriving \in BOOLEAN /\ View.leaving \in BOOLEAN
      /\ View'.arriving \in BOOLEAN /\ View'.leaving \in BOOLEAN
  BY DEF View, UnderWay
<1> HIDE DEF View
<1> USE DEF Seen!SessionNext
<1>6. CASE Unmoved /\ AsBefore(calls')
  BY <1>1, <1>2, <1>3, <1>4, <1>5, <1>6 DEF Unmoved, AsBefore
<1>7. CASE Unmoved /\ ~Waiting(calls')
  BY <1>1, <1>2, <1>3, <1>4, <1>5, <1>7 DEF Unmoved, Waiting, Seen!NewDocument
<1>8. CASE Unmoved /\ In(calls') /\ (Out(calls') <=> Out(calls))
  BY <1>1, <1>2, <1>3, <1>4, <1>5, <1>8 DEF Unmoved, Seen!AskIn
<1>9. CASE Unmoved /\ In(calls) /\ ~In(calls') /\ (Out(calls') <=> Out(calls))
  BY <1>1, <1>2, <1>3, <1>4, <1>5, <1>9 DEF Unmoved, Seen!Declined
<1>10. CASE Unmoved /\ Signed /\ Out(calls') /\ (In(calls') <=> In(calls))
  BY <1>1, <1>2, <1>3, <1>4, <1>5, <1>10 DEF Unmoved, Seen!AskOut
<1>11. CASE In(calls) /\ Signed' /\ (Out(calls') <=> Out(calls))
  BY <1>1, <1>2, <1>3, <1>4, <1>5, <1>11 DEF Seen!LetIn
<1>12. CASE In(calls) /\ Signed' /\ ~Waiting(calls')
  BY <1>1, <1>2, <1>3, <1>4, <1>5, <1>12 DEF Waiting, Seen!LetInAnew
<1>13. CASE Out(calls) /\ ~Signed' /\ (In(calls') <=> In(calls))
  BY <1>1, <1>2, <1>3, <1>4, <1>5, <1>13 DEF Seen!LetOut
<1> QED BY <1>6, <1>7, <1>8, <1>9, <1>10, <1>11, <1>12, <1>13 DEF Moved

LEMMA UnmountedWaits ==
    ASSUME NEW cs, CallsOK(cs, accounts)
    PROVE  (In(Unmounted(cs)) <=> In(cs)) /\ (Out(Unmounted(cs)) <=> Out(cs))
<1>1. ASSUME NEW s \in Slots, NEW op \in {"login", "verify", "logout"}
      PROVE  (Unmounted(cs)[s].op = op /\ Unmounted(cs)[s].client # "gone")
                <=> (cs[s].op = op /\ cs[s].client # "gone")
  <2>1. CASE \/ cs[s].op \in {"free", "check"}
             \/ cs[s].op = "wait" /\ cs[s].target \notin Targets
    BY <2>1 DEF Unmounted, Free
  <2>2. CASE ~(\/ cs[s].op \in {"free", "check"}
               \/ cs[s].op = "wait" /\ cs[s].target \notin Targets)
    <3>1. Unmounted(cs)[s] = [cs[s] EXCEPT !.client = IF @ = "page" THEN "tab" ELSE @]
      BY <2>2 DEF Unmounted
    <3>2. cs[s] \in
            [op : {"login", "register", "verify", "resend", "logout", "check", "wait"},
             email : Emails \cup {None}, target : Targets \cup Waits \cup {None},
             served : BOOLEAN, client : {"page", "tab", "gone"}]
      BY <2>2 DEF CallsOK, CallOK, CallTypes, Free
    <3> QED BY <3>1, <3>2
  <2> QED BY <2>1, <2>2
<1> QED BY <1>1 DEF In, Out

LEMMA UnloadedWaits ==
    ASSUME NEW cs, CallsOK(cs, accounts)
    PROVE  ~Waiting(Unloaded(cs))
<1>1. ASSUME NEW s \in Slots
      PROVE  Unloaded(cs)[s] = Free \/ Unloaded(cs)[s].client = "gone"
  <2>1. CASE cs[s].op \in {"register", "verify", "logout"} /\ ~cs[s].served
    <3>1. Unloaded(cs)[s] = [cs[s] EXCEPT !.client = "gone"]
      BY <2>1 DEF Unloaded
    <3>2. cs[s] \in
            [op : {"login", "register", "verify", "resend", "logout", "check", "wait"},
             email : Emails \cup {None}, target : Targets \cup Waits \cup {None},
             served : BOOLEAN, client : {"page", "tab", "gone"}]
      BY <2>1 DEF CallsOK, CallOK, CallTypes, Free
    <3> QED BY <3>1, <3>2
  <2>2. CASE ~(cs[s].op \in {"register", "verify", "logout"} /\ ~cs[s].served)
    BY <2>2 DEF Unloaded
  <2> QED BY <2>1, <2>2
<1> QED BY <1>1 DEF Waiting, In, Out, Free

LEMMA FinishedWaits ==
    ASSUME CallsOK(calls, accounts), NEW s \in Slots
    PROVE  /\ In(Finished(s)) => In(calls)
           /\ calls[s].op \notin {"login", "verify"} => (In(Finished(s)) <=> In(calls))
           /\ calls[s].op # "logout" => (Out(Finished(s)) <=> Out(calls))
<1>1. \A r \in Slots : Finished(s)[r] = IF r = s THEN Free ELSE calls[r]
  BY DEF Finished, CallsOK
<1> QED BY <1>1 DEF In, Out, Free

LEMMA SendingWaits ==
    ASSUME CallsOK(calls, accounts), NEW op, NEW e, NEW t, NEW cs \in Sending(op, e, t)
    PROVE  /\ op \notin {"login", "verify"} => (In(cs) <=> In(calls))
           /\ op \in {"login", "verify"} => In(cs)
           /\ op # "logout" => (Out(cs) <=> Out(calls))
           /\ op = "logout" => Out(cs)
<1>1. PICK s \in Slots : calls[s] = Free /\ cs = [calls EXCEPT ![s] = Started(op, e, t)]
  BY DEF Sending, FreeSlots
<1>2. \A r \in Slots : cs[r] = IF r = s THEN Started(op, e, t) ELSE calls[r]
  BY <1>1 DEF CallsOK
<1>3. Started(op, e, t).op = op /\ Started(op, e, t).client # "gone"
  BY DEF Started
<1> QED BY <1>1, <1>2, <1>3 DEF In, Out, Free

LEMMA GoToWaits ==
    ASSUME NEW step, NEW cs, CallsOK(cs, accounts), GoTo(step, cs)
    PROVE  (In(calls') <=> In(cs)) /\ (Out(calls') <=> Out(cs))
<1>1. \A r \in Slots : calls'[r] = IF cs[r].op = "check" /\ step # "name" THEN Free ELSE cs[r]
  BY DEF GoTo
<1> QED BY <1>1 DEF In, Out, Free

LEMMA SoftNavWaits ==
    ASSUME NEW t, NEW cs, CallsOK(cs, accounts), SoftNav(t, cs)
    PROVE  (In(calls') <=> In(cs)) /\ (Out(calls') <=> Out(cs))
BY UnmountedWaits DEF SoftNav

LEMMA HardNavWaits ==
    ASSUME NEW t, NEW redirect, NEW st, StoreOK(st, accounts), NEW cs, CallsOK(cs, accounts),
           HardNav(t, redirect, st, cs)
    PROVE  Signed' = st.isAuthenticated /\ ~Waiting(calls')
<1>1. Rehydrated(st).isAuthenticated = st.isAuthenticated
  BY DEF Rehydrated, StoreOK, StoreTypes
<1> QED BY <1>1, UnloadedWaits DEF HardNav, Signed

LEMMA GoOnWaits ==
    ASSUME NEW t, NEW st, StoreOK(st, accounts), NEW cs, CallsOK(cs, accounts),
           GoOn(t, st, cs)
    PROVE  /\ Signed' = st.isAuthenticated
           /\ \/ (In(calls') <=> In(cs)) /\ (Out(calls') <=> Out(cs))
              \/ ~Waiting(calls')
BY SoftNavWaits, HardNavWaits DEF GoOn, Signed

\* A step that sends no sign-in or sign-out moves nothing, nor does one that sends nothing.
LEMMA CallMoves ==
    ASSUME AuthInv, NEW op \in {"login", "register", "verify", "resend", "check", "wait"},
           NEW e, NEW t, calls' \in Sending(op, e, t), store' \in {store, Loading}
    PROVE  Moved
<1>1. Unmoved
  BY DEF Unmoved, Signed, Loading, AuthInv, StoreOK, StoreTypes
<1>2. /\ op \notin {"login", "verify"} => (In(calls') <=> In(calls))
      /\ op \in {"login", "verify"} => In(calls')
      /\ Out(calls') <=> Out(calls)
  BY SendingWaits DEF AuthInv
<1> QED BY <1>1, <1>2 DEF Moved, AsBefore

LEMMA StillMoves ==
    ASSUME UNCHANGED <<store, calls>>
    PROVE  Moved
BY DEF Moved, Unmoved, Signed, AsBefore

LEMMA FollowMoves ==
    ASSUME AuthInv, NEW step, Follow(step)
    PROVE  Moved
BY GoToWaits DEF Follow, AuthInv, Moved, Unmoved, Signed, AsBefore

LEMMA StepsMove ==
    ASSUME AuthInv, AuthSteps \/ SendCheck \/ CooldownOver
    PROVE  Moved
<1>1. CASE VibePicker
  BY <1>1, FollowMoves DEF VibePicker
<1>2. CASE NameStep
  BY <1>2, FollowMoves, StillMoves
     DEF NameStep, HandleUsernameChange, PickSuggestion, HandleNext, Typed
<1>3. CASE KeyStep
  BY <1>3, FollowMoves, StillMoves, CallMoves DEF KeyStep, TypeEmail, Typed, HandleSubmit, Register
<1>4. CASE OtpScreen
  BY <1>4, CallMoves DEF OtpScreen, HandleVerify, VerifyOtp, HandleResend, ResendOtp
<1>5. CASE WelcomeOverlay
  BY <1>5, HardNavWaits DEF WelcomeOverlay, AuthInv, Moved, Unmoved, Signed
<1>6. CASE LoginScreen
  BY <1>6, FollowMoves, StillMoves, CallMoves
     DEF LoginScreen, TypeEmail, Typed, HandleLogin, Login, FindYourVibe
<1>7. CASE ResetEmailStep \/ ResetOtpStep \/ ResetKeyStep
  BY <1>7, FollowMoves, StillMoves, CallMoves
     DEF ResetEmailStep, ResetOtpStep, ResetKeyStep, TypeEmail, Typed, GoOnAfter, Wait, ResetResend
<1>8. CASE SendCheck
  BY <1>8, CallMoves DEF SendCheck, CheckUsername
<1>9. CASE CooldownOver
  BY <1>9, StillMoves DEF CooldownOver, Typed
<1> QED BY <1>1, <1>2, <1>3, <1>4, <1>5, <1>6, <1>7, <1>8, <1>9 DEF AuthSteps

LEMMA AnswerMoves ==
    ASSUME AuthInv, NEW s \in Slots, Answer(s)
    PROVE  Moved
<1>0. /\ CallsOK(calls, accounts) /\ CallsOK(Finished(s), accounts)
      /\ StoreOK(store, accounts) /\ StoreOK(Stopped, accounts)
      /\ Stopped.isAuthenticated = Signed
  BY FinishedOK, LoadingOK DEF AuthInv, Stopped, StoreOK, StoreTypes, Signed
<1>1. /\ In(Finished(s)) => In(calls)
      /\ calls[s].op \notin {"login", "verify"} => (In(Finished(s)) <=> In(calls))
      /\ calls[s].op # "logout" => (Out(Finished(s)) <=> Out(calls))
  BY <1>0, FinishedWaits
<1>2. calls[s].op \in {"login", "verify"} /\ calls[s].client # "gone" => In(calls)
  BY DEF In
<1>3. ASSUME NEW e PROVE Session(e).isAuthenticated = TRUE
  BY DEF Session
<1>4. ASSUME Unmoved, calls' = Finished(s), calls[s].op # "logout", calls[s].client # "gone"
      PROVE  Moved
  BY <1>1, <1>2, <1>4 DEF Moved, AsBefore
<1>5. CASE LoginAnswered(s)
  <2>1. calls[s].op = "login" /\ calls[s].client # "gone" /\ In(calls)
    BY <1>2, <1>5 DEF LoginAnswered, Awaited
  <2>2. PICK ok \in Outcomes(s) :
          IF ok THEN GoOn(calls[s].target, AfterLogin(s, ok), Finished(s))
          ELSE store' = AfterLogin(s, ok) /\ calls' = Finished(s)
    BY <1>5 DEF LoginAnswered
  <2>3. CASE ok
    <3>1. GoOn(calls[s].target, Session(calls[s].email), Finished(s))
      BY <2>2, <2>3 DEF AfterLogin
    <3>2. StoreOK(Session(calls[s].email), accounts)
      BY <2>1, <2>2, <2>3, Granted
    <3>3. /\ Signed' = TRUE
          /\ \/ (In(calls') <=> In(Finished(s))) /\ (Out(calls') <=> Out(Finished(s)))
             \/ ~Waiting(calls')
      BY <1>0, <1>3, <3>1, <3>2, GoOnWaits
    <3> QED BY <1>1, <2>1, <3>3 DEF Moved
  <2>4. CASE ~ok
    BY <1>0, <1>4, <2>1, <2>2, <2>4 DEF AfterLogin, Unmoved, Signed
  <2> QED BY <2>3, <2>4
<1>6. CASE VerifyAnswered(s)
  <2>1. calls[s].op = "verify" /\ calls[s].client # "gone" /\ In(calls)
    BY <1>2, <1>6 DEF VerifyAnswered, Awaited
  <2>2. PICK ok \in Outcomes(s) :
          /\ store' = AfterVerify(s, ok)
          /\ IF ok /\ calls[s].client = "page"
             THEN GoTo("welcome", Finished(s))
             ELSE calls' = Finished(s)
    BY <1>6 DEF VerifyAnswered
  <2>3. (In(calls') <=> In(Finished(s))) /\ (Out(calls') <=> Out(Finished(s)))
    BY <1>0, <2>2, GoToWaits
  <2>4. CASE ok
    <3>1. Signed' = TRUE
      BY <1>3, <2>2, <2>4 DEF AfterVerify, Signed
    <3> QED BY <1>1, <2>1, <2>3, <3>1 DEF Moved
  <2>5. CASE ~ok
    BY <1>0, <1>4, <2>1, <2>2, <2>5 DEF AfterVerify, Unmoved, Signed
  <2> QED BY <2>4, <2>5
<1>7. CASE RegisterAnswered(s)
  <2>1. calls[s].op = "register" /\ calls[s].client # "gone"
    BY <1>7 DEF RegisterAnswered, Awaited
  <2>2. PICK ok \in Outcomes(s) :
          /\ store' = AfterRegister(s, ok)
          /\ IF ok /\ calls[s].client = "page"
             THEN GoTo("otp", Finished(s))
             ELSE calls' = Finished(s)
    BY <1>7 DEF RegisterAnswered
  <2>3. (In(calls') <=> In(Finished(s))) /\ (Out(calls') <=> Out(Finished(s)))
    BY <1>0, <2>2, GoToWaits
  <2>4. Unmoved
    BY <1>0, <2>2 DEF AfterRegister, Unmoved, Signed, Stopped, StoreOK, StoreTypes
  <2> QED BY <1>1, <2>1, <2>3, <2>4 DEF Moved, AsBefore
<1>8. CASE ResendAnswered(s)
  <2>1. calls[s].op = "resend" /\ calls[s].client # "gone" /\ calls' = Finished(s)
    BY <1>8 DEF ResendAnswered, Awaited
  <2>2. Unmoved
    BY <1>0, <1>8 DEF ResendAnswered, AfterResend, Unmoved, Signed
  <2> QED BY <1>4, <2>1, <2>2
<1>9. CASE LogoutAnswered(s)
  <2>1. calls[s].op = "logout" /\ Out(calls) /\ calls' = Finished(s)
    BY <1>9 DEF LogoutAnswered, Awaited, Out
  <2>2. Signed' = FALSE
    BY <1>9 DEF LogoutAnswered, AfterLogout, Cleared, SignedOut, Signed
  <2> QED BY <1>1, <2>1, <2>2 DEF Moved
<1>10. CASE CheckAnswered(s)
  BY <1>4, <1>10 DEF CheckAnswered, Awaited, Unmoved, Signed
<1> QED BY <1>5, <1>6, <1>7, <1>8, <1>9, <1>10 DEF Answer

LEMMA WaitOverMoves ==
    ASSUME AuthInv, NEW s \in Slots, WaitOver(s)
    PROVE  Moved
<1>0. CallsOK(calls, accounts) /\ CallsOK(Finished(s), accounts) /\ StoreOK(store, accounts)
  BY FinishedOK DEF AuthInv
<1>1. calls[s].op = "wait"
  BY DEF WaitOver
<1>2. AsBefore(Finished(s))
  BY <1>0, <1>1, FinishedWaits DEF AsBefore
<1>3. CASE calls[s].target \in Waits
  BY <1>0, <1>2, <1>3, GoToWaits DEF WaitOver, Moved, Unmoved, Signed, AsBefore
<1>4. CASE calls[s].target \notin Waits
  <2>1. GoOn(calls[s].target, store, Finished(s))
    BY <1>4 DEF WaitOver
  <2> QED BY <1>0, <1>2, <2>1, GoOnWaits DEF Moved, Unmoved, Signed, AsBefore
<1> QED BY <1>3, <1>4

LEMMA ServerMoves ==
    ASSUME AuthInv, NEW s \in Slots, Server(s)
    PROVE  Moved
<1>0. CallsOK(calls, accounts) /\ CallOK(calls[s], accounts)
  BY DEF AuthInv, CallsOK
<1>1. CASE Serve(s)
  <2> DEFINE d == IF calls[s].client = "gone" THEN Free ELSE [calls[s] EXCEPT !.served = TRUE]
  <2>1. calls' = [calls EXCEPT ![s] = d] /\ UNCHANGED store /\ calls[s].op \in {"register", "verify"}
    BY <1>1 DEF Serve
  <2>2. calls[s] \in
          [op : {"login", "register", "verify", "resend", "logout", "check", "wait"},
           email : Emails \cup {None}, target : Targets \cup Waits \cup {None},
           served : BOOLEAN, client : {"page", "tab", "gone"}]
    BY <1>0, <2>1 DEF CallOK, CallTypes, Free
  <2>3. CASE calls[s].client = "gone"
    <3>1. \A r \in Slots : calls'[r] = IF r = s THEN Free ELSE calls[r]
      BY <1>0, <2>1, <2>3 DEF CallsOK
    <3> QED BY <2>1, <2>3, <3>1 DEF Moved, Unmoved, Signed, AsBefore, In, Out, Free
  <2>4. CASE calls[s].client # "gone"
    <3>1. d.op = calls[s].op /\ d.client = calls[s].client
      BY <2>2, <2>4
    <3> HIDE DEF d
    <3>2. \A r \in Slots : calls'[r] = IF r = s THEN d ELSE calls[r]
      BY <1>0, <2>1 DEF CallsOK
    <3> QED BY <2>1, <3>1, <3>2 DEF Moved, Unmoved, Signed, AsBefore, In, Out
  <2> QED BY <2>3, <2>4
<1>2. CASE Lost(s)
  <2>1. calls[s].client = "gone" /\ UNCHANGED store
    BY <1>2 DEF Lost
  <2>2. \A r \in Slots : calls'[r] = IF r = s THEN Free ELSE calls[r]
    BY <1>0, <1>2 DEF Lost, Finished, CallsOK
  <2> QED BY <2>1, <2>2 DEF Moved, Unmoved, Signed, AsBefore, In, Out, Free
<1> QED BY <1>1, <1>2 DEF Server

LEMMA OtherPagesMove ==
    ASSUME AuthInv,
           LeaveWhenSignedIn \/ HandleSignOut \/ SignIn \/ Reload \/ \E t \in Routes : Visit(t)
    PROVE  Moved
<1>0. CallsOK(calls, accounts) /\ StoreOK(store, accounts)
  BY DEF AuthInv
<1>1. CASE LeaveWhenSignedIn
  BY <1>0, <1>1, GoOnWaits DEF LeaveWhenSignedIn, Moved, Unmoved, Signed, AsBefore
<1>2. CASE HandleSignOut
  <2>1. PICK cs \in Sending("logout", store.access, None) : SoftNav("/", cs)
    BY <1>2 DEF HandleSignOut, LoggingOut
  <2>2. store.access \in Emails \cup {None}
    BY <1>0 DEF StoreOK, StoreTypes
  <2>3. CallsOK(cs, accounts)
    BY <1>0, <2>2, SendingOK
  <2>4. Out(calls') /\ (In(calls') <=> In(calls))
    BY <1>0, <2>1, <2>3, SendingWaits, SoftNavWaits
  <2> QED BY <1>2, <2>4 DEF HandleSignOut, Moved, Unmoved, Signed
<1>3. CASE SignIn
  BY <1>0, <1>3, UnmountedWaits DEF SignIn, Moved, Unmoved, Signed, AsBefore
<1>4. CASE Reload
  BY <1>0, <1>4, HardNavWaits DEF Reload, Moved, Unmoved, Signed
<1>5. ASSUME NEW t \in Routes, Visit(t) PROVE Moved
  BY <1>0, <1>5, SoftNavWaits DEF Visit, Moved, Unmoved, Signed, AsBefore
<1> QED BY <1>1, <1>2, <1>3, <1>4, <1>5

\* Late answers, reloads and all, the other pages see nothing of the session that
\* ViewerSession does not have.
THEOREM Refinement == Spec => SessionAsSeen
<1>1. Init => Seen!SessionInit
  <2> SUFFICES ASSUME Init PROVE Seen!SessionInit
    OBVIOUS
  <2>1. store.isAuthenticated = FALSE /\ \A s \in Slots : calls[s] = Free
    BY DEF Init, StoreInit, SignedOut
  <2>2. ~UnderWay({"login", "verify"}) /\ ~UnderWay({"logout"})
    BY <2>1 DEF UnderWay, Free
  <2>3. View = [signedIn |-> FALSE, arriving |-> FALSE, leaving |-> FALSE]
    <3>1. /\ UnderWay({"login", "verify"}) = FALSE
          /\ UnderWay({"logout"}) = FALSE
      BY <2>2 DEF UnderWay
    <3> QED BY <2>1, <3>1 DEF View
  <2> QED BY <2>3 DEF Seen!SessionInit, Seen!SessionTypes
<1>2. AuthInv /\ AuthInv' /\ [Next]_vars => [Seen!SessionNext]_View
  <2> SUFFICES ASSUME AuthInv, AuthInv', [Next]_vars PROVE [Seen!SessionNext]_View
    OBVIOUS
  <2>1. CASE AuthSteps \/ SendCheck \/ CooldownOver
    BY <2>1, StepsMove, Moves
  <2>2. CASE LeaveWhenSignedIn \/ HandleSignOut \/ SignIn \/ Reload \/ \E t \in Routes : Visit(t)
    BY <2>2, OtherPagesMove, Moves
  <2>3. CASE \E s \in Slots : Server(s) \/ Answer(s) \/ WaitOver(s)
    BY <2>3, ServerMoves, AnswerMoves, WaitOverMoves, Moves
  <2>4. CASE UNCHANGED vars
    BY <2>4, StillMoves, Moves DEF vars
  <2> QED BY <2>1, <2>2, <2>3, <2>4 DEF Next
<1> QED BY <1>1, <1>2, AuthInvariant, PTL DEF Spec, SessionAsSeen, Seen!SessionSpec
=============================================================================
