----------------------------- MODULE MCServices -----------------------------
(***************************************************************************)
(* The rooms of the chat, the streams, the pool of e-mail providers and    *)
(* the rate limiter, for TLC.  They share no state and never call each     *)
(* other, so that what one does in company it does alone: each is checked  *)
(* alone, which one is chosen initially.                                   *)
(***************************************************************************)
EXTENDS ChatRoom, LiveStream, MailPool, RateWindow

VARIABLE service

servicesVars == <<chatVars, streamVars, mailVars, rateVars, service>>

ServicesInit ==
    /\ service \in {"chat", "stream", "mail", "rate"}
    /\ ChatInit /\ StreamInit /\ RateInit
    /\ MailInit /\ (service # "mail" => table = Nobody /\ ~unread)

ServicesNext ==
    /\ UNCHANGED service
    /\ \/ service = "chat" /\ ChatNext /\ UNCHANGED <<streamVars, mailVars, rateVars>>
       \/ service = "stream" /\ StreamNext /\ UNCHANGED <<chatVars, mailVars, rateVars>>
       \/ service = "mail" /\ MailNext /\ UNCHANGED <<chatVars, streamVars, rateVars>>
       \/ service = "rate" /\ RateNext /\ UNCHANGED <<chatVars, streamVars, mailVars>>

ServicesSpec == ServicesInit /\ [][ServicesNext]_servicesVars

-----------------------------------------------------------------------------
\* Sound: the run checks invariants only, and no definition chooses a connection.
ConnsAlike == Permutations(Conns)

\* The four type invariants: the lists, rows, requests and sets stay within their types.
ServicesTypeOK == ChatTypeOK /\ StreamTypeOK /\ MailTypeOK /\ RateTypeOK
=============================================================================
