----------------------------- MODULE RateWindow -----------------------------
(***************************************************************************)
(* The rate limiter of the auth service: the requests of one address and   *)
(* the sorted set Redis keeps of those it let through.                     *)
(*                                                                         *)
(* checkLimit reads the clock in nanoseconds, the ticks of this model, and *)
(* then runs a script that Redis executes as one, however much later.  A   *)
(* member of the set is the clock reading with the key, so that the same   *)
(* reading twice is one member.  That a score is rounded to a double, and  *)
(* that the clock may be set back, is left out.  The limit per user is not *)
(* modelled: the middleware runs before the authentication and never finds *)
(* a user.                                                                 *)
(***************************************************************************)
EXTENDS Naturals, FiniteSets

CONSTANTS
    Requests,   \* the requests of the address, each used once
    Rate,       \* ipRate
    Window,     \* ipWindow, in ticks
    MaxClock    \* bounds the time

ASSUME WindowIsPositive == Window \in Nat \ {0}
ASSUME RateIsNat        == Rate \in Nat /\ MaxClock \in Nat

VARIABLES
    clock,
    zset,       \* the sorted set: the stamps of the requests let through
    expiry,     \* when Redis drops the key
    request,    \* a request: its stage, and its stamp until Redis has dealt with it
    admitted    \* history: the stamps added to the set, and when Redis added them

rateVars == <<clock, zset, expiry, request, admitted>>

RateInit ==
    /\ clock = 0 /\ zset = {} /\ expiry = 0 /\ admitted = {}
    /\ request = [r \in Requests |-> [stage |-> "new", stamp |-> 0]]

\* Time passes; a key whose time has come is gone.
Tick ==
    /\ clock < MaxClock
    /\ clock' = clock + 1
    /\ zset' = IF expiry <= clock + 1 THEN {} ELSE zset
    /\ UNCHANGED <<expiry, request, admitted>>

ReadClock(r) ==
    /\ request[r].stage = "new"
    /\ request' = [request EXCEPT ![r].stage = "stamped", ![r].stamp = clock]
    /\ UNCHANGED <<clock, zset, expiry, admitted>>

Answer(r, stages) ==
    \E stage \in stages : request' = [request EXCEPT ![r] = [stage |-> stage, stamp |-> 0]]

Admit(r, kept) ==
    /\ zset' = kept \cup {request[r].stamp} /\ expiry' = clock + Window
    /\ admitted' = admitted \cup {[stamp |-> request[r].stamp, ran |-> clock]}
    /\ Answer(r, {"allowed", "unchecked"})
Refuse(r, kept) ==
    /\ zset' = kept /\ UNCHANGED <<expiry, admitted>>
    /\ Answer(r, {"refused", "unchecked"})

Kept(r) == {t \in zset : t + Window > request[r].stamp}

\* Mutant: the script's comparison lets one more through.
ScriptLetsOneMore(r) ==
    /\ request[r].stage = "stamped"
    /\ IF Cardinality(Kept(r)) <= Rate THEN Admit(r, Kept(r)) ELSE Refuse(r, Kept(r))
    /\ UNCHANGED clock

\* The script drops what is as old as the window and counts what is left, stamps later
\* than its own among them.  If its answer is lost the request goes on unchecked.
Script(r) ==
    /\ request[r].stage = "stamped"
    /\ IF Cardinality(Kept(r)) < Rate THEN Admit(r, Kept(r)) ELSE Refuse(r, Kept(r))
    /\ UNCHANGED clock

\* Redis cannot be asked: the request is let through.
ScriptFails(r) ==
    /\ request[r].stage = "stamped"
    /\ Answer(r, {"unchecked"})
    /\ UNCHANGED <<clock, zset, expiry, admitted>>

-----------------------------------------------------------------------------
RateNext ==
    \/ Tick
    \/ \E r \in Requests : ReadClock(r) \/ Script(r) \/ ScriptFails(r)

RateSpec == RateInit /\ [][RateNext]_rateVars

-----------------------------------------------------------------------------
RateTypeOK ==
    /\ clock \in 0..MaxClock /\ zset \subseteq 0..MaxClock
    /\ expiry \in 0..(MaxClock + Window)
    /\ request \in [Requests -> [stage : {"new", "stamped", "allowed", "refused", "unchecked"},
                                 stamp : 0..MaxClock]]
    /\ admitted \subseteq [stamp : 0..MaxClock, ran : 0..MaxClock]

\* However late Redis runs the scripts: of the requests it adds to the set at most that
\* late, no more than Rate, by their stamps, fall into any stretch of the window's length
\* less that lateness.  Purges by older and newer stamps, the expiry of the key and
\* answers that are lost do not take room for more.
WindowBounded ==
    \A late \in 0..Window, t \in 0..MaxClock :
        Cardinality({u \in 0..t : u + Window > t + late /\
                        \E a \in admitted : a.stamp = u /\ a.ran <= u + late}) <= Rate
=============================================================================
