--------------------------------- MODULE Otp ---------------------------------
(***************************************************************************)
(* One-time codes of one user: the Redis keys of                           *)
(* services/auth/internal/service/otp.go and the requests that read and    *)
(* write them.  A request is a goroutine of the auth service; an action is *)
(* one Redis command (a DEL of two keys is one), so requests interleave    *)
(* between commands.  A command has an outcome: "ok"; "err", it had no     *)
(* effect; "lost", it had its effect and the caller saw an error.  The     *)
(* pipeline INCR, EXPIRE of the rate key is no transaction: "cut" is the   *)
(* outcome where the connection ends between the two, INCR applied and     *)
(* EXPIRE not.  Unless it is cut, what other clients do between the two    *)
(* commands does not tell them from one: they look at the count only, and  *)
(* EXPIRE of a key that expired in between does nothing.                   *)
(*                                                                         *)
(* The codes are fresh model values: that two random 6-digit codes differ  *)
(* is assumed.  A key's expiry is an action that may happen whenever the   *)
(* key has a time to live; the length of the times is not modelled, except *)
(* that an attempts key, written after its code, outlives it.              *)
(***************************************************************************)
EXTENDS Integers, FiniteSets

CONSTANTS
    Purposes,       \* email_verify, password_reset, email_change_old, email_change_new
    Codes,          \* the codes that may be drawn; bounds the number of codes stored
    Generators,     \* concurrent requests that generate a code
    Verifiers,      \* concurrent requests that verify a code
    MaxAttempts,    \* maxOTPAttempts
    MaxPerHour,     \* cfg.OTPMaxPerHour
    Faults,         \* the faulty outcomes a Redis command or pipeline may have
    NoCode

ASSUME AttemptsAreNat == MaxAttempts \in Nat \ {0}
ASSUME RateIsNat      == MaxPerHour \in Nat \ {0}
ASSUME FaultsAreKnown == Faults \subseteq {"err", "lost", "cut"}
ASSUME NoCodeIsNone   == NoCode \notin Codes
ASSUME GeneratorsAreFinite == IsFiniteSet(Generators)
ASSUME VerifiersAreFinite  == IsFiniteSet(Verifiers)
ASSUME NoneIsNoPurpose == "none" \notin Purposes

VARIABLES
    otp,        \* the code whose hash is stored for a purpose
    attempts,   \* the attempts key of a code's hash: a count, or Absent
    rate,       \* the rate key: its count and whether it has a time to live
    cooldown,   \* the purposes with a resend cooldown key
    gen,        \* the generating requests: command to run next, purpose, code
    ver,        \* the verifying requests: command to run next, purpose, code read
    drawn,      \* history: the purpose a code was drawn for, None before
    issued,     \* history: codes GenerateOTP returned since the rate key appeared
    cuts,       \* history: pipelines that were cut since the rate key appeared
    compared,   \* history: how often a guess was compared with a code
    accepted    \* history: how often a code was accepted, per purpose

keys == <<otp, attempts, rate, cooldown>>
vars == <<otp, attempts, rate, cooldown, gen, ver, drawn, issued, cuts, compared, accepted>>

Absent == -1
None == "none"
Outcomes == {"ok"} \cup (Faults \ {"cut"})
PipeOutcomes == {"ok"} \cup Faults
Applied(o) == o # "err"

Init ==
    /\ otp = [p \in Purposes |-> NoCode]
    /\ attempts = [c \in Codes |-> Absent]
    /\ rate = [count |-> 0, ttl |-> FALSE]
    /\ cooldown = {}
    /\ gen = [g \in Generators |-> [at |-> "idle"]]
    /\ ver = [v \in Verifiers |-> [at |-> "idle"]]
    /\ drawn = [c \in Codes |-> None]
    /\ issued = 0
    /\ cuts = 0
    /\ compared = [c \in Codes |-> 0]
    /\ accepted = [c \in Codes |-> [p \in Purposes |-> 0]]

GenAt(g, rec) == gen' = [gen EXCEPT ![g] = rec]
VerAt(v, rec) == ver' = [ver EXCEPT ![v] = rec]
Idle == [at |-> "idle"]

(***************************************************************************)
(* Mutants of the actions below: each is a plausible slip in the code that *)
(* one of the properties notices.                                          *)
(***************************************************************************)
CountWriting(g, newRate) ==
    /\ gen[g].at = "count"
    /\ rate' = newRate
    /\ issued' = issued + 1
    /\ GenAt(g, Idle)
    /\ UNCHANGED <<otp, attempts, cooldown, ver, drawn, cuts, compared, accepted>>

\* DECR for INCR; only resent codes are counted; the EXPIRE is missing.
CountDown(g)         == CountWriting(g, [count |-> rate.count - 1, ttl |-> TRUE])
CountResendsOnly(g)  == CountWriting(g, IF gen[g].resend
                                        THEN [count |-> rate.count + 1, ttl |-> TRUE]
                                        ELSE rate)
CountWithoutExpire(g) == CountWriting(g, [rate EXCEPT !.count = @ + 1])

\* A failed guess is not counted.
FailureNotCounted(v) ==
    /\ ver[v].at = "wrong"
    /\ VerAt(v, Idle)
    /\ UNCHANGED <<keys, gen, drawn, issued, cuts, compared, accepted>>

\* Only the attempts key is deleted.
KeepCode(v) ==
    LET c == ver[v].seen
    IN  /\ ver[v].at \in {"right", "exhausted"}
        /\ attempts' = [attempts EXCEPT ![c] = Absent]
        /\ accepted' = [accepted EXCEPT ![c][ver[v].purpose] =
                            IF ver[v].at = "right" THEN @ + 1 ELSE @]
        /\ VerAt(v, Idle)
        /\ UNCHANGED <<otp, rate, cooldown, gen, drawn, issued, cuts, compared>>

(***************************************************************************)
(* GenerateOTP.  ResendOTP and ResetRequest look at the cooldown first     *)
(* (an error of that read lets them pass) and mark it afterwards; Register *)
(* and EmailChange call GenerateOTP directly.                              *)
(***************************************************************************)
CanResend(g) ==
    /\ gen[g].at = "idle"
    /\ \E p \in Purposes, o \in Outcomes :
        /\ o = "ok" => p \notin cooldown
        /\ GenAt(g, [at |-> "rate", purpose |-> p, resend |-> TRUE])
    /\ UNCHANGED <<keys, ver, drawn, issued, cuts, compared, accepted>>

GenerateDirectly(g) ==
    /\ gen[g].at = "idle"
    /\ \E p \in Purposes : GenAt(g, [at |-> "rate", purpose |-> p, resend |-> FALSE])
    /\ UNCHANGED <<keys, ver, drawn, issued, cuts, compared, accepted>>

\* GET of the rate key; below the limit a code is drawn.
CheckRate(g) ==
    /\ gen[g].at = "rate"
    /\ \E o \in Outcomes :
        IF o = "ok" /\ rate.count < MaxPerHour
        THEN \E c \in Codes :
                /\ drawn[c] = None
                /\ drawn' = [drawn EXCEPT ![c] = gen[g].purpose]
                /\ GenAt(g, [at |-> "store", purpose |-> gen[g].purpose,
                             resend |-> gen[g].resend, code |-> c])
        ELSE GenAt(g, Idle) /\ UNCHANGED drawn
    /\ UNCHANGED <<keys, ver, issued, cuts, compared, accepted>>

StoreCode(g) ==
    /\ gen[g].at = "store"
    /\ \E o \in Outcomes :
        /\ otp' = [otp EXCEPT ![gen[g].purpose] = IF Applied(o) THEN gen[g].code ELSE @]
        /\ GenAt(g, IF o = "ok" THEN [gen[g] EXCEPT !.at = "reset"] ELSE Idle)
    /\ UNCHANGED <<attempts, rate, cooldown, ver, drawn, issued, cuts, compared, accepted>>

\* The error of this SET is ignored.
ResetAttempts(g) ==
    /\ gen[g].at = "reset"
    /\ \E o \in Outcomes :
        attempts' = [attempts EXCEPT ![gen[g].code] = IF Applied(o) THEN 0 ELSE @]
    /\ GenAt(g, [gen[g] EXCEPT !.at = "count"])
    /\ UNCHANGED <<otp, rate, cooldown, ver, drawn, issued, cuts, compared, accepted>>

\* INCR and EXPIRE of the rate key; only then is the code returned and mailed.
CountCode(g) ==
    /\ gen[g].at = "count"
    /\ \E o \in PipeOutcomes :
        /\ rate' = CASE o = "err" -> rate
                     [] o = "cut" -> [rate EXCEPT !.count = @ + 1]
                     [] OTHER     -> [count |-> rate.count + 1, ttl |-> TRUE]
        /\ cuts' = IF o = "cut" THEN cuts + 1 ELSE cuts
        /\ issued' = IF o = "ok" THEN issued + 1 ELSE issued
        /\ GenAt(g, IF o = "ok" /\ gen[g].resend THEN [gen[g] EXCEPT !.at = "mark"] ELSE Idle)
    /\ UNCHANGED <<otp, attempts, cooldown, ver, drawn, compared, accepted>>

MarkResend(g) ==
    /\ gen[g].at = "mark"
    /\ \E o \in Outcomes :
        cooldown' = IF Applied(o) THEN cooldown \cup {gen[g].purpose} ELSE cooldown
    /\ GenAt(g, Idle)
    /\ UNCHANGED <<otp, attempts, rate, ver, drawn, issued, cuts, compared, accepted>>

(***************************************************************************)
(* VerifyOTP: read the stored hash, read its attempts, compare, and then   *)
(* count the failure or delete both keys.  Every error is read as "not     *)
(* there" or ignored.                                                      *)
(***************************************************************************)
ReadCode(v) ==
    /\ ver[v].at = "idle"
    /\ \E p \in Purposes, o \in Outcomes :
        /\ o = "ok"
        /\ otp[p] # NoCode
        /\ VerAt(v, [at |-> "attempts", purpose |-> p, seen |-> otp[p]])
    /\ UNCHANGED <<keys, gen, drawn, issued, cuts, compared, accepted>>

\* GET of the attempts key, and the comparison of the guess with the hash read before.
CheckAttempts(v) ==
    LET c == ver[v].seen
    IN  /\ ver[v].at = "attempts"
        /\ \E o \in Outcomes, right \in BOOLEAN :
            LET count == IF o = "ok" /\ attempts[c] # Absent THEN attempts[c] ELSE 0
            IN  IF count >= MaxAttempts
                THEN /\ VerAt(v, [ver[v] EXCEPT !.at = "exhausted"])
                     /\ UNCHANGED compared
                ELSE /\ VerAt(v, [ver[v] EXCEPT !.at = IF right THEN "right" ELSE "wrong"])
                     /\ compared' = [compared EXCEPT ![c] = @ + 1]
        /\ UNCHANGED <<keys, gen, drawn, issued, cuts, accepted>>

CountFailure(v) ==
    LET c == ver[v].seen
    IN  /\ ver[v].at = "wrong"
        /\ \E o \in Outcomes :
            attempts' = [attempts EXCEPT ![c] =
                            IF Applied(o) THEN (IF @ = Absent THEN 1 ELSE @ + 1) ELSE @]
        /\ VerAt(v, Idle)
        /\ UNCHANGED <<otp, rate, cooldown, gen, drawn, issued, cuts, compared, accepted>>

\* DEL of the purpose's code, whatever it is by now, and of the attempts key.
DeleteCode(v) ==
    LET c == ver[v].seen
        p == ver[v].purpose
    IN  /\ ver[v].at \in {"right", "exhausted"}
        /\ \E o \in Outcomes :
            IF Applied(o)
            THEN /\ otp' = [otp EXCEPT ![p] = NoCode]
                 /\ attempts' = [attempts EXCEPT ![c] = Absent]
            ELSE UNCHANGED <<otp, attempts>>
        /\ accepted' = [accepted EXCEPT ![c][p] = IF ver[v].at = "right" THEN @ + 1 ELSE @]
        /\ VerAt(v, Idle)
        /\ UNCHANGED <<rate, cooldown, gen, drawn, issued, cuts, compared>>

(***************************************************************************)
(* Keys that reach the end of their time to live.                          *)
(***************************************************************************)
ExpireCode(p) ==
    /\ otp[p] # NoCode
    /\ otp' = [otp EXCEPT ![p] = NoCode]
    /\ UNCHANGED <<attempts, rate, cooldown, gen, ver, drawn, issued, cuts, compared, accepted>>

\* A key that INCR created anew has no time to live; that it may expire as well only
\* adds behaviours.
ExpireAttempts(c) ==
    /\ attempts[c] # Absent
    /\ \A p \in Purposes : otp[p] # c
    /\ attempts' = [attempts EXCEPT ![c] = Absent]
    /\ UNCHANGED <<otp, rate, cooldown, gen, ver, drawn, issued, cuts, compared, accepted>>

ExpireRate ==
    /\ rate.ttl
    /\ rate' = [count |-> 0, ttl |-> FALSE]
    /\ issued' = 0
    /\ cuts' = 0
    /\ UNCHANGED <<otp, attempts, cooldown, gen, ver, drawn, compared, accepted>>

ExpireCooldown(p) ==
    /\ p \in cooldown
    /\ cooldown' = cooldown \ {p}
    /\ UNCHANGED <<otp, attempts, rate, gen, ver, drawn, issued, cuts, compared, accepted>>

-----------------------------------------------------------------------------
GenStep(g) == \/ CanResend(g) \/ GenerateDirectly(g) \/ CheckRate(g) \/ StoreCode(g)
              \/ ResetAttempts(g) \/ CountCode(g) \/ MarkResend(g)

VerStep(v) == ReadCode(v) \/ CheckAttempts(v) \/ CountFailure(v) \/ DeleteCode(v)

Expire == \/ \E p \in Purposes : ExpireCode(p) \/ ExpireCooldown(p)
          \/ \E c \in Codes : ExpireAttempts(c)
          \/ ExpireRate

Next == \/ \E g \in Generators : GenStep(g)
        \/ \E v \in Verifiers : VerStep(v)
        \/ Expire

Spec == Init /\ [][Next]_vars

\* Redis expires the rate key and a goroutine that has started goes on.
FairSpec ==
    /\ Spec
    /\ WF_vars(ExpireRate)
    /\ \A g \in Generators :
        WF_vars(CheckRate(g) \/ StoreCode(g) \/ ResetAttempts(g) \/ CountCode(g) \/ MarkResend(g))

-----------------------------------------------------------------------------
GenTypes ==
    [at : {"idle"}]
        \cup [at : {"rate"}, purpose : Purposes, resend : BOOLEAN]
        \cup [at : {"store", "reset", "count", "mark"}, purpose : Purposes,
              resend : BOOLEAN, code : Codes]
VerTypes ==
    [at : {"idle"}]
        \cup [at : {"attempts", "right", "wrong", "exhausted"}, purpose : Purposes, seen : Codes]

TypeOK ==
    /\ otp \in [Purposes -> Codes \cup {NoCode}]
    /\ attempts \in [Codes -> Nat \cup {Absent}]
    /\ rate \in [count : Nat, ttl : BOOLEAN]
    /\ cooldown \subseteq Purposes
    /\ gen \in [Generators -> GenTypes]
    /\ ver \in [Verifiers -> VerTypes]
    /\ drawn \in [Codes -> Purposes \cup {None}]
    /\ issued \in Nat
    /\ cuts \in Nat
    /\ compared \in [Codes -> Nat]
    /\ accepted \in [Codes -> [Purposes -> Nat]]

\* However requests race and commands fail, at most one code more per concurrent
\* request than the limit is returned in the life of the rate key: the gap between
\* the GET of the count and its INCR is worth one code per other request.
RateBounded == issued <= MaxPerHour + Cardinality(Generators) - 1

\* However requests race, the guesses compared with one code stay bounded: each
\* time the counter starts over (a guess before GenerateOTP writes 0, the writing
\* of 0, the expiry of the key) costs at most a round of attempts.
GuessesBounded ==
    LET round == MaxAttempts + Cardinality(Verifiers) - 1
    IN  \A c \in Codes : compared[c] <= 2 * round + Cardinality(Verifiers)

\* If no command fails, a code is accepted at most once per concurrent verification
\* (once, if verifications do not overlap), although it is replaced, expires and
\* leaves its attempts key behind while it is verified.
SingleUse ==
    \A c \in Codes : \A p \in Purposes : accepted[c][p] <= Cardinality(Verifiers)

\* A code is stored and accepted for the purpose it was drawn for only.
PurposeKept ==
    /\ \A p \in Purposes : otp[p] # NoCode => drawn[otp[p]] = p
    /\ \A c \in Codes : \A p \in Purposes : accepted[c][p] > 0 => drawn[c] = p

\* A user who reached the hourly limit gets codes again some time later, unless every
\* pipeline that counted was cut: the key then has no time to live, and one pipeline
\* that ran to its EXPIRE, before or after the others, would have given it one.
LockoutEnds == (rate.count >= MaxPerHour /\ cuts < rate.count) ~> (rate.count < MaxPerHour)

\* A rate key that locks the user out and never expires took MaxPerHour cut pipelines:
\* all that ever counted.
LockedForCause == (rate.count >= MaxPerHour /\ ~rate.ttl) => cuts >= MaxPerHour
=============================================================================
