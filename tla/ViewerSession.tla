---------------------------- MODULE ViewerSession ----------------------------
(***************************************************************************)
(* What the pages of the viewer see of the session that one tab keeps:     *)
(* whether somebody is signed in, and whether a sign-in or a sign-out is   *)
(* under way whose answer may still come.  AuthPage implements it, tokens, *)
(* forms, requests and the server in detail; ViewerSite is built on it.    *)
(***************************************************************************)
VARIABLE session

SessionTypes == [signedIn : BOOLEAN, arriving : BOOLEAN, leaving : BOOLEAN]

SessionInit ==
    /\ session \in SessionTypes
    /\ ~session.arriving /\ ~session.leaving

AskIn == session' = [session EXCEPT !.arriving = TRUE]

\* More than one sign-in, or sign-out, may be under way.
LetIn ==
    /\ session.arriving
    /\ session' \in [signedIn : {TRUE}, arriving : BOOLEAN, leaving : {session.leaving}]
Declined == session.arriving /\ session' = [session EXCEPT !.arriving = FALSE]

AskOut == session.signedIn /\ session' = [session EXCEPT !.leaving = TRUE]
LetOut ==
    /\ session.leaving
    /\ session' \in [signedIn : {FALSE}, arriving : {session.arriving}, leaving : BOOLEAN]

\* A new document keeps who is signed in, but hears no answer that was under way.
NewDocument == session' = [session EXCEPT !.arriving = FALSE, !.leaving = FALSE]
LetInAnew ==
    /\ session.arriving
    /\ session' = [signedIn |-> TRUE, arriving |-> FALSE, leaving |-> FALSE]

SessionNext ==
    \/ AskIn \/ LetIn \/ Declined \/ AskOut \/ LetOut
    \/ NewDocument \/ LetInAnew

SessionSpec == SessionInit /\ [][SessionNext]_session
=============================================================================
