------------------------------ MODULE OtpProof -------------------------------
(***************************************************************************)
(* Theorems about Otp, for all sets of purposes, codes and verifying       *)
(* requests, all finite sets of generating requests, and all limits.       *)
(***************************************************************************)
EXTENDS Otp, FiniteSetTheorems, TLAPS

USE DEF Outcomes, PipeOutcomes, keys, Absent, None, Idle

(***************************************************************************)
(* Type correctness.                                                       *)
(***************************************************************************)
LEMMA GenTyped ==
    ASSUME TypeOK, NEW g \in Generators
    PROVE  /\ gen[g].at = "rate" => gen[g].purpose \in Purposes /\ gen[g].resend \in BOOLEAN
           /\ gen[g].at \in {"store", "reset", "count", "mark"} =>
                /\ gen[g] \in [at : {"store", "reset", "count", "mark"}, purpose : Purposes,
                               resend : BOOLEAN, code : Codes]
                /\ gen[g].purpose \in Purposes
                /\ gen[g].resend \in BOOLEAN
                /\ gen[g].code \in Codes
BY DEF TypeOK, GenTypes

LEMMA VerTyped ==
    ASSUME TypeOK, NEW v \in Verifiers, ver[v].at # "idle"
    PROVE  /\ ver[v] \in [at : {"attempts", "right", "wrong", "exhausted"},
                          purpose : Purposes, seen : Codes]
           /\ ver[v].purpose \in Purposes
           /\ ver[v].seen \in Codes
BY DEF TypeOK, VerTypes

\* A request's next stage is a record of its type.
LEMMA GenNext ==
    ASSUME TypeOK, NEW g \in Generators, NEW rec \in GenTypes, GenAt(g, rec)
    PROVE  gen' \in [Generators -> GenTypes]
BY DEF TypeOK, GenAt

LEMMA VerNext ==
    ASSUME TypeOK, NEW v \in Verifiers, NEW rec \in VerTypes, VerAt(v, rec)
    PROVE  ver' \in [Verifiers -> VerTypes]
BY DEF TypeOK, VerAt

\* A request that knows its code may move to any later stage.
LEMMA GenMoves ==
    ASSUME TypeOK, NEW g \in Generators, gen[g].at \in {"store", "reset", "count"},
           NEW stage \in {"store", "reset", "count", "mark"}
    PROVE  [gen[g] EXCEPT !.at = stage] \in GenTypes
BY GenTyped DEF GenTypes

LEMMA TypeInit == Init => TypeOK
BY DEF Init, TypeOK, GenTypes, VerTypes

LEMMA TypeStep == TypeOK /\ [Next]_vars => TypeOK'
<1> SUFFICES ASSUME TypeOK, [Next]_vars PROVE TypeOK'
  OBVIOUS
<1>0. Idle \in GenTypes /\ Idle \in VerTypes
  BY DEF GenTypes, VerTypes
<1>1. ASSUME NEW g \in Generators, GenStep(g) PROVE TypeOK'
  <2>1. ASSUME NEW p \in Purposes, NEW b \in BOOLEAN
        PROVE  [at |-> "rate", purpose |-> p, resend |-> b] \in GenTypes
    BY DEF GenTypes
  <2>2. CASE CanResend(g)
    <3>1. gen' \in [Generators -> GenTypes]
      BY <2>1, <2>2, GenNext DEF CanResend
    <3> QED
      BY <2>2, <3>1 DEF CanResend, TypeOK
  <2>3. CASE GenerateDirectly(g)
    <3>1. gen' \in [Generators -> GenTypes]
      BY <2>1, <2>3, GenNext DEF GenerateDirectly
    <3> QED
      BY <2>3, <3>1 DEF GenerateDirectly, TypeOK
  <2>4. CASE CheckRate(g)
    <3>1. gen[g].purpose \in Purposes /\ gen[g].resend \in BOOLEAN
      BY <2>4, GenTyped DEF CheckRate
    <3>2. ASSUME NEW c \in Codes
          PROVE  [at |-> "store", purpose |-> gen[g].purpose,
                  resend |-> gen[g].resend, code |-> c] \in GenTypes
      BY <3>1 DEF GenTypes
    <3>3. gen' \in [Generators -> GenTypes]
      BY <1>0, <2>4, <3>2, GenNext DEF CheckRate
    <3>4. drawn' \in [Codes -> Purposes \cup {None}]
      <4>1. \/ drawn' = drawn
            \/ \E c \in Codes : drawn' = [drawn EXCEPT ![c] = gen[g].purpose]
        BY <2>4 DEF CheckRate
      <4> QED
        BY <3>1, <4>1 DEF TypeOK
    <3> QED
      BY <2>4, <3>3, <3>4 DEF CheckRate, TypeOK
  <2>5. CASE StoreCode(g)
    <3>1. gen[g].at = "store" /\ gen[g].code \in Codes
      BY <2>5, GenTyped DEF StoreCode
    <3>2. gen' \in [Generators -> GenTypes]
      BY <1>0, <2>5, <3>1, GenMoves, GenNext DEF StoreCode
    <3>3. otp' \in [Purposes -> Codes \cup {NoCode}]
      BY <2>5, <3>1 DEF StoreCode, TypeOK
    <3> QED
      BY <2>5, <3>2, <3>3 DEF StoreCode, TypeOK
  <2>6. CASE ResetAttempts(g)
    <3>1. gen' \in [Generators -> GenTypes]
      BY <2>6, GenMoves, GenNext DEF ResetAttempts
    <3>2. attempts' \in [Codes -> Nat \cup {Absent}]
      <4>1. gen[g].code \in Codes
        BY <2>6, GenTyped DEF ResetAttempts
      <4>2. \/ attempts' = [attempts EXCEPT ![gen[g].code] = 0]
            \/ attempts' = [attempts EXCEPT ![gen[g].code] = attempts[gen[g].code]]
        BY <2>6 DEF ResetAttempts
      <4> QED
        BY <4>1, <4>2 DEF TypeOK
    <3> QED
      BY <2>6, <3>1, <3>2 DEF ResetAttempts, TypeOK
  <2>7. CASE CountCode(g)
    <3>1. gen' \in [Generators -> GenTypes]
      BY <1>0, <2>7, GenMoves, GenNext DEF CountCode
    <3>2. rate' \in [count : Nat, ttl : BOOLEAN] /\ issued' \in Nat /\ cuts' \in Nat
      BY <2>7 DEF CountCode, TypeOK
    <3> QED
      BY <2>7, <3>1, <3>2 DEF CountCode, TypeOK
  <2>8. CASE MarkResend(g)
    <3>1. gen' \in [Generators -> GenTypes]
      BY <1>0, <2>8, GenNext DEF MarkResend
    <3>2. cooldown' \subseteq Purposes
      BY <2>8, GenTyped DEF MarkResend, TypeOK
    <3> QED
      BY <2>8, <3>1, <3>2 DEF MarkResend, TypeOK
  <2> QED
    BY <1>1, <2>2, <2>3, <2>4, <2>5, <2>6, <2>7, <2>8 DEF GenStep
<1>2. ASSUME NEW v \in Verifiers, VerStep(v) PROVE TypeOK'
  <2>1. CASE ReadCode(v)
    <3>1. PICK p \in Purposes : /\ otp[p] # NoCode
                                /\ VerAt(v, [at |-> "attempts", purpose |-> p, seen |-> otp[p]])
      BY <2>1 DEF ReadCode
    <3>2. [at |-> "attempts", purpose |-> p, seen |-> otp[p]] \in VerTypes
      BY <3>1 DEF TypeOK, VerTypes
    <3>3. ver' \in [Verifiers -> VerTypes]
      BY <3>1, <3>2, VerNext
    <3> QED
      BY <2>1, <3>3 DEF ReadCode, TypeOK
  <2>2. CASE CheckAttempts(v)
    <3>1. ver[v].seen \in Codes
      BY <2>2, VerTyped DEF CheckAttempts
    <3>2. ASSUME NEW stage \in {"right", "wrong", "exhausted"}
          PROVE  [ver[v] EXCEPT !.at = stage] \in VerTypes
      BY <2>2, VerTyped DEF CheckAttempts, VerTypes
    <3>3. ver' \in [Verifiers -> VerTypes]
      <4>1. \E stage \in {"right", "wrong", "exhausted"} :
              VerAt(v, [ver[v] EXCEPT !.at = stage])
        BY <2>2 DEF CheckAttempts
      <4> QED
        BY <3>2, <4>1, VerNext
    <3>4. compared' \in [Codes -> Nat]
      BY <2>2, <3>1 DEF CheckAttempts, TypeOK
    <3> QED
      BY <2>2, <3>3, <3>4 DEF CheckAttempts, TypeOK
  <2>3. CASE CountFailure(v)
    <3>1. ver' \in [Verifiers -> VerTypes]
      BY <1>0, <2>3, VerNext DEF CountFailure
    <3>2. attempts' \in [Codes -> Nat \cup {Absent}]
      <4>1. ver[v].seen \in Codes
        BY <2>3, VerTyped DEF CountFailure
      <4>2. attempts[ver[v].seen] \in Nat \/ attempts[ver[v].seen] = Absent
        BY <4>1 DEF TypeOK
      <4> DEFINE old == attempts[ver[v].seen]
                 more == IF old = Absent THEN 1 ELSE old + 1
      <4>3. PICK o \in Outcomes :
              attempts' = [attempts EXCEPT ![ver[v].seen] = IF Applied(o) THEN more ELSE old]
        BY <2>3 DEF CountFailure
      <4>4. more \in Nat
        BY <4>2
      <4> QED
        BY <4>1, <4>2, <4>3, <4>4 DEF TypeOK
    <3> QED
      BY <2>3, <3>1, <3>2 DEF CountFailure, TypeOK
  <2>4. CASE DeleteCode(v)
    <3>1. ver' \in [Verifiers -> VerTypes]
      BY <1>0, <2>4, VerNext DEF DeleteCode
    <3>2. /\ otp' \in [Purposes -> Codes \cup {NoCode}]
          /\ attempts' \in [Codes -> Nat \cup {Absent}]
      <4>1. ver[v].purpose \in Purposes /\ ver[v].seen \in Codes
        BY <2>4, VerTyped DEF DeleteCode
      <4>2. \/ UNCHANGED <<otp, attempts>>
            \/ /\ otp' = [otp EXCEPT ![ver[v].purpose] = NoCode]
               /\ attempts' = [attempts EXCEPT ![ver[v].seen] = Absent]
        BY <2>4 DEF DeleteCode
      <4> QED
        BY <4>1, <4>2 DEF TypeOK
    <3>3. accepted' \in [Codes -> [Purposes -> Nat]]
      <4>1. ver[v].seen \in Codes /\ ver[v].purpose \in Purposes
        BY <2>4, VerTyped DEF DeleteCode
      <4>2. accepted[ver[v].seen] \in [Purposes -> Nat]
        BY <4>1 DEF TypeOK
      <4>3. accepted[ver[v].seen][ver[v].purpose] \in Nat
        BY <4>1, <4>2
      <4> DEFINE old == accepted[ver[v].seen][ver[v].purpose]
                 n == IF ver[v].at = "right" THEN old + 1 ELSE old
      <4>4. accepted' = [accepted EXCEPT ![ver[v].seen] =
                            [accepted[ver[v].seen] EXCEPT ![ver[v].purpose] = n]]
        BY <2>4 DEF DeleteCode
      <4>5. n \in Nat
        BY <4>3
      <4> HIDE DEF n
      <4>6. [accepted[ver[v].seen] EXCEPT ![ver[v].purpose] = n] \in [Purposes -> Nat]
        BY <4>1, <4>2, <4>5
      <4> QED
        BY <4>1, <4>4, <4>6 DEF TypeOK
    <3> QED
      BY <2>4, <3>1, <3>2, <3>3 DEF DeleteCode, TypeOK
  <2> QED
    BY <1>2, <2>1, <2>2, <2>3, <2>4 DEF VerStep
<1>3. CASE Expire
  <2>1. ASSUME NEW p \in Purposes, ExpireCode(p) PROVE TypeOK'
    BY <2>1 DEF ExpireCode, TypeOK
  <2>2. ASSUME NEW p \in Purposes, ExpireCooldown(p) PROVE TypeOK'
    BY <2>2 DEF ExpireCooldown, TypeOK
  <2>3. ASSUME NEW c \in Codes, ExpireAttempts(c) PROVE TypeOK'
    BY <2>3 DEF ExpireAttempts, TypeOK
  <2>4. CASE ExpireRate
    BY <2>4 DEF ExpireRate, TypeOK
  <2> QED
    BY <1>3, <2>1, <2>2, <2>3, <2>4 DEF Expire
<1>4. CASE UNCHANGED vars
  BY <1>4 DEF vars, TypeOK
<1> QED
  BY <1>1, <1>2, <1>3, <1>4 DEF Next

\* The Redis keys, the requests and the history variables always have their types.
THEOREM TypeCorrect == Spec => []TypeOK
BY TypeInit, TypeStep, PTL DEF Spec

-----------------------------------------------------------------------------
(***************************************************************************)
(* The rate limit.  CheckRate reads the count and CountCode raises it; in  *)
(* between a request is in the window.  Every code returned was counted,   *)
(* and the count plus the requests in the window stay below the limit plus *)
(* the number of requests: to enter the window a request must see a count  *)
(* below the limit.                                                        *)
(***************************************************************************)
Window == {g \in Generators : gen[g].at \in {"store", "reset", "count"}}

WindowInv ==
    /\ issued <= rate.count
    /\ rate.count + Cardinality(Window) <= MaxPerHour + Cardinality(Generators) - 1

LEMMA PartsOfFinite ==
    ASSUME NEW U, IsFiniteSet(U)
    PROVE
    /\ Cardinality(U) \in Nat
    /\ \A S \in SUBSET U :
        /\ IsFiniteSet(S)
        /\ Cardinality(S) \in Nat
        /\ Cardinality(S) <= Cardinality(U)
        /\ \A g \in U :
            /\ g \notin S => Cardinality(S \cup {g}) = Cardinality(S) + 1
            /\ g \in S => Cardinality(S \ {g}) = Cardinality(S) - 1
            /\ Cardinality(S \ {g}) <= Cardinality(S)
<1>1. Cardinality(U) \in Nat
  BY FS_CardinalityType
<1>2. ASSUME NEW S \in SUBSET U
      PROVE  /\ IsFiniteSet(S)
             /\ Cardinality(S) \in Nat
             /\ Cardinality(S) <= Cardinality(U)
  BY FS_Subset, FS_CardinalityType
<1>3. ASSUME NEW S \in SUBSET U, NEW g \in U
      PROVE  /\ g \notin S => Cardinality(S \cup {g}) = Cardinality(S) + 1
             /\ g \in S => Cardinality(S \ {g}) = Cardinality(S) - 1
             /\ Cardinality(S \ {g}) <= Cardinality(S)
  <2>1. g \notin S => Cardinality(S \cup {g}) = Cardinality(S) + 1
    BY <1>2, FS_AddElement
  <2>2. g \in S => Cardinality(S \ {g}) = Cardinality(S) - 1
    BY <1>2, FS_RemoveElement
  <2>3. g \notin S => S \ {g} = S
    OBVIOUS
  <2>4. Cardinality(S) \in Nat
    BY <1>2
  <2>5. Cardinality(S \ {g}) <= Cardinality(S)
    <3>1. CASE g \in S
      BY <2>2, <2>4, <3>1
    <3>2. CASE g \notin S
      BY <2>3, <2>4, <3>2
    <3> QED
      BY <3>1, <3>2
  <2> QED
    BY <2>1, <2>2, <2>5
<1> QED
  BY <1>1, <1>2, <1>3

LEMMA GeneratorsFinite ==
    /\ Cardinality(Generators) \in Nat
    /\ \A S \in SUBSET Generators :
        /\ IsFiniteSet(S)
        /\ Cardinality(S) \in Nat
        /\ Cardinality(S) <= Cardinality(Generators)
        /\ \A g \in Generators :
            /\ g \notin S => Cardinality(S \cup {g}) = Cardinality(S) + 1
            /\ g \in S => Cardinality(S \ {g}) = Cardinality(S) - 1
            /\ Cardinality(S \ {g}) <= Cardinality(S)
BY GeneratorsAreFinite, PartsOfFinite

\* The window after a step that moves one request.
LEMMA WindowMoves ==
    ASSUME TypeOK, NEW g \in Generators, NEW rec, GenAt(g, rec)
    PROVE  Window' = IF rec.at \in {"store", "reset", "count"}
                     THEN Window \cup {g} ELSE Window \ {g}
BY DEF TypeOK, GenAt, Window

THEOREM RateLimited == Spec => []RateBounded
<1>1. Init => WindowInv
  <2> SUFFICES ASSUME Init PROVE WindowInv
    OBVIOUS
  <2>1. Window = {}
    BY DEF Init, Window
  <2>2. Cardinality(Window) = 0
    BY <2>1, FS_EmptySet
  <2>3. rate.count = 0 /\ issued = 0
    BY DEF Init
  <2> QED
    BY <2>2, <2>3, GeneratorsFinite, RateIsNat DEF WindowInv
<1>2. TypeOK /\ WindowInv /\ [Next]_vars => WindowInv'
  <2> SUFFICES ASSUME TypeOK, WindowInv, [Next]_vars PROVE WindowInv'
    OBVIOUS
  <2> USE GeneratorsFinite, RateIsNat
  <2>1. /\ Window \in SUBSET Generators
        /\ Cardinality(Window) \in Nat
        /\ issued \in Nat /\ rate.count \in Nat
    BY DEF Window, TypeOK
  <2>2. ASSUME issued' = issued, rate' = rate, Cardinality(Window') <= Cardinality(Window),
               Cardinality(Window') \in Nat
        PROVE  WindowInv'
    BY <2>1, <2>2 DEF WindowInv
  <2>3. ASSUME NEW g \in Generators, GenStep(g) PROVE WindowInv'
    <3>1. /\ Window \ {g} \in SUBSET Generators
          /\ Window \cup {g} \in SUBSET Generators
      BY <2>1
    <3>2. CASE CanResend(g) \/ GenerateDirectly(g)
      <4>1. \E p \in Purposes, b \in BOOLEAN :
              GenAt(g, [at |-> "rate", purpose |-> p, resend |-> b])
        BY <3>2 DEF CanResend, GenerateDirectly
      <4>2. Window' = Window \ {g}
        BY <4>1, WindowMoves
      <4> QED
        BY <2>1, <2>2, <3>1, <3>2, <4>2 DEF CanResend, GenerateDirectly
    <3>3. CASE CheckRate(g)
      <4>1. issued' = issued /\ rate' = rate
        BY <3>3 DEF CheckRate
      <4>2. CASE GenAt(g, Idle)
        <5>1. Window' = Window \ {g}
          BY <4>2, WindowMoves
        <5> QED
          BY <2>1, <2>2, <3>1, <4>1, <5>1
      <4>3. CASE ~GenAt(g, Idle)
        <5>1. PICK c \in Codes : GenAt(g, [at |-> "store", purpose |-> gen[g].purpose,
                                           resend |-> gen[g].resend, code |-> c])
          BY <3>3, <4>3 DEF CheckRate
        <5>2. rate.count < MaxPerHour
          BY <3>3, <4>3 DEF CheckRate
        <5>3. Window' = Window \cup {g}
          BY <5>1, WindowMoves
        <5>4. /\ Cardinality(Window') \in Nat
              /\ Cardinality(Window') <= Cardinality(Generators)
          BY <3>1, <5>3
        <5> QED
          BY <2>1, <4>1, <5>2, <5>4 DEF WindowInv
      <4> QED
        BY <4>2, <4>3
    <3>4. CASE StoreCode(g) \/ ResetAttempts(g)
      <4>1. issued' = issued /\ rate' = rate
        BY <3>4 DEF StoreCode, ResetAttempts
      <4>2. g \in Window
        BY <3>4 DEF StoreCode, ResetAttempts, Window
      <4>3. \/ GenAt(g, Idle)
            \/ \E stage \in {"reset", "count"} : GenAt(g, [gen[g] EXCEPT !.at = stage])
        BY <3>4 DEF StoreCode, ResetAttempts
      <4>4. ASSUME NEW stage \in {"reset", "count"}
            PROVE  [gen[g] EXCEPT !.at = stage].at = stage
        BY <3>4, GenTyped DEF StoreCode, ResetAttempts
      <4>5. Window' = Window \ {g} \/ Window' = Window \cup {g}
        BY <4>3, <4>4, WindowMoves
      <4>6. Window' = Window \ {g} \/ Window' = Window
        BY <4>2, <4>5
      <4>7. /\ Cardinality(Window') \in Nat
            /\ Cardinality(Window') <= Cardinality(Window)
        <5>1. CASE Window' = Window \ {g}
          BY <2>1, <3>1, <5>1
        <5>2. CASE Window' = Window
          BY <2>1, <5>2
        <5> QED
          BY <4>6, <5>1, <5>2
      <4> QED
        BY <2>2, <4>1, <4>7
    <3>5. CASE CountCode(g)
      <4>1. g \in Window
        BY <3>5 DEF CountCode, Window
      <4>2. \/ GenAt(g, Idle)
            \/ GenAt(g, [gen[g] EXCEPT !.at = "mark"])
        BY <3>5 DEF CountCode
      <4>3. [gen[g] EXCEPT !.at = "mark"].at = "mark"
        BY <3>5, GenTyped DEF CountCode
      <4>4. Window' = Window \ {g}
        <5>1. CASE GenAt(g, Idle)
          BY <5>1, WindowMoves
        <5>2. CASE GenAt(g, [gen[g] EXCEPT !.at = "mark"])
          BY <4>3, <5>2, WindowMoves
        <5> QED
          BY <4>2, <5>1, <5>2
      <4>5. Cardinality(Window') = Cardinality(Window) - 1
        BY <2>1, <4>1, <4>4
      <4>6. \/ rate'.count = rate.count + 1 /\ issued' \in {issued, issued + 1}
            \/ rate' = rate /\ issued' = issued
        BY <3>5 DEF CountCode, Applied
      <4> QED
        BY <2>1, <4>5, <4>6 DEF WindowInv
    <3>6. CASE MarkResend(g)
      <4>1. Window' = Window \ {g}
        BY <3>6, WindowMoves DEF MarkResend
      <4> QED
        BY <2>1, <2>2, <3>1, <3>6, <4>1 DEF MarkResend
    <3> QED
      BY <2>3, <3>2, <3>3, <3>4, <3>5, <3>6 DEF GenStep
  <2>4. ASSUME UNCHANGED <<gen, issued, rate>> PROVE WindowInv'
    BY <2>4 DEF WindowInv, Window
  <2>5. ASSUME NEW v \in Verifiers, VerStep(v) PROVE WindowInv'
    BY <2>4, <2>5 DEF VerStep, ReadCode, CheckAttempts, CountFailure, DeleteCode
  <2>6. CASE ExpireRate
    <3>1. rate'.count = 0 /\ issued' = 0 /\ Window' = Window
      BY <2>6 DEF ExpireRate, Window
    <3> QED
      BY <2>1, <3>1 DEF WindowInv
  <2>7. CASE Expire /\ ~ExpireRate
    BY <2>4, <2>7 DEF Expire, ExpireCode, ExpireCooldown, ExpireAttempts
  <2>8. CASE UNCHANGED vars
    BY <2>4, <2>8 DEF vars
  <2> QED
    BY <2>3, <2>5, <2>6, <2>7, <2>8 DEF Next
<1>3. TypeOK /\ WindowInv => RateBounded
  <2> SUFFICES ASSUME TypeOK, WindowInv PROVE RateBounded
    OBVIOUS
  <2>1. Cardinality(Window) \in Nat
    BY GeneratorsFinite DEF Window
  <2> QED
    BY <2>1, GeneratorsFinite, RateIsNat DEF TypeOK, WindowInv, RateBounded
<1> QED
  BY <1>1, <1>2, <1>3, TypeCorrect, PTL DEF Spec

-----------------------------------------------------------------------------
(***************************************************************************)
(* A user is locked out for good only by a rate key without a time to      *)
(* live, and that key was counted up by cut pipelines alone: MaxPerHour    *)
(* connections that ended between INCR and EXPIRE, and not one pipeline    *)
(* that ran to its end.                                                    *)
(***************************************************************************)
CutsInv == ~rate.ttl => cuts = rate.count

THEOREM LockoutNeedsCuts == Spec => []LockedForCause
<1>1. Init => CutsInv
  BY DEF Init, CutsInv
<1>2. TypeOK /\ CutsInv /\ [Next]_vars => CutsInv'
  <2> SUFFICES ASSUME TypeOK, CutsInv, [Next]_vars PROVE CutsInv'
    OBVIOUS
  <2>1. CASE UNCHANGED <<rate, cuts>>
    BY <2>1 DEF CutsInv
  <2>2. ASSUME NEW g \in Generators, CountCode(g) PROVE CutsInv'
    <3>1. rate \in [count : Nat, ttl : BOOLEAN]
      BY DEF TypeOK
    <3>2. \/ rate' = rate /\ cuts' = cuts
          \/ rate' = [rate EXCEPT !.count = @ + 1] /\ cuts' = cuts + 1
          \/ rate' = [count |-> rate.count + 1, ttl |-> TRUE]
      BY <2>2 DEF CountCode
    <3> QED
      BY <3>1, <3>2 DEF CutsInv
  <2>3. CASE ExpireRate
    BY <2>3 DEF ExpireRate, CutsInv
  <2>4. ASSUME NEW g \in Generators, GenStep(g), ~CountCode(g) PROVE UNCHANGED <<rate, cuts>>
    BY <2>4 DEF GenStep, CanResend, GenerateDirectly, CheckRate, StoreCode, ResetAttempts,
                MarkResend
  <2>5. ASSUME NEW v \in Verifiers, VerStep(v) PROVE UNCHANGED <<rate, cuts>>
    BY <2>5 DEF VerStep, ReadCode, CheckAttempts, CountFailure, DeleteCode
  <2>6. Expire /\ ~ExpireRate => UNCHANGED <<rate, cuts>>
    BY DEF Expire, ExpireCode, ExpireCooldown, ExpireAttempts
  <2>7. CASE UNCHANGED vars
    BY <2>1, <2>7 DEF vars
  <2> QED
    BY <2>1, <2>2, <2>3, <2>4, <2>5, <2>6, <2>7 DEF Next
<1>3. TypeOK /\ CutsInv => LockedForCause
  BY RateIsNat DEF TypeOK, CutsInv, LockedForCause
<1> QED
  BY <1>1, <1>2, <1>3, TypeCorrect, PTL DEF Spec

-----------------------------------------------------------------------------
(***************************************************************************)
(* A code never crosses purposes: the purpose it was drawn for is the one  *)
(* whose key holds it, whose verification reads it, and for which it is    *)
(* accepted, however requests interleave and whatever fails or expires.    *)
(***************************************************************************)
PurposeInv ==
    /\ PurposeKept
    /\ \A g \in Generators : gen[g].at = "store" => drawn[gen[g].code] = gen[g].purpose
    /\ \A v \in Verifiers : ver[v].at # "idle" => drawn[ver[v].seen] = ver[v].purpose

LEMMA DrawnOnce ==
    ASSUME TypeOK, [Next]_vars, NEW c \in Codes, NEW p \in Purposes, drawn[c] = p
    PROVE  drawn'[c] = p
<1>1. ASSUME NEW g \in Generators, CheckRate(g) PROVE drawn'[c] = p
  BY <1>1, NoneIsNoPurpose DEF CheckRate, TypeOK
<1>2. CASE ~(\E g \in Generators : CheckRate(g))
  <2>1. drawn' = drawn
    BY <1>2
    DEF Next, GenStep, VerStep, Expire, CanResend, GenerateDirectly, StoreCode,
        ResetAttempts, CountCode, MarkResend, ReadCode, CheckAttempts, CountFailure,
        DeleteCode, ExpireCode, ExpireCooldown, ExpireAttempts, ExpireRate, vars
  <2> QED
    BY <2>1
<1> QED
  BY <1>1, <1>2

LEMMA PurposeInvariant == Spec => []PurposeInv
<1>1. Init => PurposeInv
  BY DEF Init, PurposeInv, PurposeKept
<1>2. TypeOK /\ PurposeInv /\ [Next]_vars => PurposeInv'
  <2> SUFFICES ASSUME TypeOK, PurposeInv, [Next]_vars PROVE PurposeInv'
    OBVIOUS
  <2>1. ASSUME NEW p \in Purposes, otp'[p] # NoCode PROVE drawn'[otp'[p]] = p
    <3>1. CASE otp'[p] = otp[p]
      BY <2>1, <3>1, DrawnOnce DEF PurposeInv, PurposeKept, TypeOK
    <3>2. ASSUME NEW g \in Generators, StoreCode(g), otp'[p] # otp[p]
          PROVE  drawn'[otp'[p]] = p
      <4>1. /\ gen[g].at = "store"
            /\ gen[g].code \in Codes /\ gen[g].purpose \in Purposes
        BY <3>2, GenTyped DEF StoreCode
      <4>2. p = gen[g].purpose /\ otp'[p] = gen[g].code
        BY <3>2, <4>1 DEF StoreCode, TypeOK
      <4>3. drawn[gen[g].code] = gen[g].purpose
        BY <4>1 DEF PurposeInv
      <4> QED
        BY <4>1, <4>2, <4>3, DrawnOnce
    <3>3. CASE ~(\E g \in Generators : StoreCode(g)) /\ otp'[p] # otp[p]
      <4>1. ASSUME NEW v \in Verifiers, DeleteCode(v) PROVE otp'[p] \in {otp[p], NoCode}
        BY <4>1 DEF DeleteCode, TypeOK
      <4>2. ASSUME NEW q \in Purposes, ExpireCode(q) PROVE otp'[p] \in {otp[p], NoCode}
        BY <4>2 DEF ExpireCode, TypeOK
      <4>3. CASE ~(\E v \in Verifiers : DeleteCode(v)) /\ ~(\E q \in Purposes : ExpireCode(q))
        BY <3>3, <4>3
        DEF Next, GenStep, VerStep, Expire, CanResend, GenerateDirectly, CheckRate,
            ResetAttempts, CountCode, MarkResend, ReadCode, CheckAttempts, CountFailure,
            ExpireCooldown, ExpireAttempts, ExpireRate, vars
      <4> QED
        BY <2>1, <3>3, <4>1, <4>2, <4>3
    <3> QED
      BY <3>1, <3>2, <3>3
  <2>2. ASSUME NEW g \in Generators, gen'[g].at = "store"
        PROVE  drawn'[gen'[g].code] = gen'[g].purpose
    <3>1. CASE gen'[g] = gen[g]
      <4>1. gen[g].code \in Codes /\ gen[g].purpose \in Purposes
        BY <2>2, <3>1, GenTyped
      <4> QED
        BY <2>2, <3>1, <4>1, DrawnOnce DEF PurposeInv
    <3>2. ASSUME NEW h \in Generators, CheckRate(h), gen'[g] # gen[g]
          PROVE  drawn'[gen'[g].code] = gen'[g].purpose
      <4>1. g = h
        BY <3>2 DEF CheckRate, GenAt, TypeOK
      <4>2. ~GenAt(g, Idle)
        BY <2>2 DEF GenAt, TypeOK
      <4>3. PICK c \in Codes :
              /\ drawn' = [drawn EXCEPT ![c] = gen[g].purpose]
              /\ GenAt(g, [at |-> "store", purpose |-> gen[g].purpose,
                           resend |-> gen[g].resend, code |-> c])
        BY <3>2, <4>1, <4>2 DEF CheckRate
      <4>4. gen'[g].code = c /\ gen'[g].purpose = gen[g].purpose
        BY <4>3 DEF GenAt, TypeOK
      <4> QED
        BY <4>3, <4>4 DEF TypeOK
    <3>3. CASE ~(\E h \in Generators : CheckRate(h)) /\ gen'[g] # gen[g]
      <4>1. ASSUME NEW h \in Generators, GenStep(h) PROVE gen'[g].at # "store"
        <5>1. ASSUME NEW rec, GenAt(h, rec), rec.at # "store" PROVE gen'[g].at # "store"
          BY <3>3, <5>1 DEF GenAt, TypeOK
        <5>2. CASE CanResend(h) \/ GenerateDirectly(h)
          <6>1. \E p \in Purposes, b \in BOOLEAN :
                  GenAt(h, [at |-> "rate", purpose |-> p, resend |-> b])
            BY <5>2 DEF CanResend, GenerateDirectly
          <6> QED
            BY <5>1, <6>1
        <5>3. CASE GenAt(h, Idle)
          BY <5>1, <5>3
        <5>4. CASE (StoreCode(h) \/ ResetAttempts(h) \/ CountCode(h)) /\ ~GenAt(h, Idle)
          <6>1. gen[h].at \in {"store", "reset", "count"}
            BY <5>4 DEF StoreCode, ResetAttempts, CountCode
          <6>2. ASSUME NEW stage \in {"reset", "count", "mark"}
                PROVE  [gen[h] EXCEPT !.at = stage].at # "store"
            BY <6>1, GenTyped
          <6>3. \E stage \in {"reset", "count", "mark"} :
                  GenAt(h, [gen[h] EXCEPT !.at = stage])
            BY <5>4 DEF StoreCode, ResetAttempts, CountCode
          <6> QED
            BY <5>1, <6>2, <6>3
        <5> QED
          BY <3>3, <4>1, <5>2, <5>3, <5>4 DEF GenStep, MarkResend
      <4>2. CASE ~(\E h \in Generators : GenStep(h))
        BY <3>3, <4>2
        DEF Next, VerStep, Expire, ReadCode, CheckAttempts, CountFailure, DeleteCode,
            ExpireCode, ExpireCooldown, ExpireAttempts, ExpireRate, vars
      <4> QED
        BY <2>2, <4>1, <4>2
    <3> QED
      BY <3>1, <3>2, <3>3
  <2>3. ASSUME NEW v \in Verifiers, ver'[v].at # "idle"
        PROVE  drawn'[ver'[v].seen] = ver'[v].purpose
    <3>1. ASSUME ver'[v].seen = ver[v].seen, ver'[v].purpose = ver[v].purpose,
                 ver[v].at # "idle"
          PROVE  drawn'[ver'[v].seen] = ver'[v].purpose
      BY <3>1, VerTyped, DrawnOnce DEF PurposeInv
    <3>2. CASE ver'[v] = ver[v]
      BY <2>3, <3>1, <3>2
    <3>3. ASSUME NEW u \in Verifiers, VerStep(u), ver'[v] # ver[v]
          PROVE  drawn'[ver'[v].seen] = ver'[v].purpose
      <4>1. u = v
        BY <3>3
        DEF VerStep, ReadCode, CheckAttempts, CountFailure, DeleteCode, VerAt, TypeOK
      <4>2. CASE ReadCode(v)
        <5>1. PICK p \in Purposes :
                /\ otp[p] # NoCode
                /\ VerAt(v, [at |-> "attempts", purpose |-> p, seen |-> otp[p]])
          BY <4>2 DEF ReadCode
        <5>2. ver'[v].seen = otp[p] /\ ver'[v].purpose = p
          BY <5>1 DEF VerAt, TypeOK
        <5> QED
          BY <5>1, <5>2, DrawnOnce DEF PurposeInv, PurposeKept, TypeOK
      <4>3. CASE CheckAttempts(v)
        <5>1. ver[v].at = "attempts"
          BY <4>3 DEF CheckAttempts
        <5>2. PICK stage \in {"right", "wrong", "exhausted"} :
                VerAt(v, [ver[v] EXCEPT !.at = stage])
          BY <4>3 DEF CheckAttempts
        <5>3. ver'[v] = [ver[v] EXCEPT !.at = stage]
          BY <5>2 DEF VerAt, TypeOK
        <5>4. ver'[v].seen = ver[v].seen /\ ver'[v].purpose = ver[v].purpose
          BY <5>1, <5>3, VerTyped
        <5> QED
          BY <3>1, <5>1, <5>4
      <4>4. CASE CountFailure(v) \/ DeleteCode(v)
        BY <2>3, <4>4 DEF CountFailure, DeleteCode, VerAt, TypeOK
      <4> QED
        BY <3>3, <4>1, <4>2, <4>3, <4>4 DEF VerStep
    <3>4. CASE ~(\E u \in Verifiers : VerStep(u))
      <4>1. ver' = ver
        BY <3>4
        DEF Next, GenStep, Expire, CanResend, GenerateDirectly, CheckRate, StoreCode,
            ResetAttempts, CountCode, MarkResend, ExpireCode, ExpireCooldown,
            ExpireAttempts, ExpireRate, vars
      <4> QED
        BY <3>2, <4>1
    <3> QED
      BY <3>2, <3>3, <3>4
  <2>4. ASSUME NEW c \in Codes, NEW p \in Purposes, accepted'[c][p] > 0
        PROVE  drawn'[c] = p
    <3>1. CASE accepted'[c][p] = accepted[c][p]
      BY <2>4, <3>1, DrawnOnce DEF PurposeInv, PurposeKept
    <3>2. ASSUME NEW v \in Verifiers, DeleteCode(v), accepted'[c][p] # accepted[c][p]
          PROVE  drawn'[c] = p
      <4>1. /\ ver[v].at # "idle"
            /\ ver[v].seen \in Codes /\ ver[v].purpose \in Purposes
        BY <3>2, VerTyped DEF DeleteCode
      <4>2. c = ver[v].seen /\ p = ver[v].purpose
        BY <3>2, <4>1 DEF DeleteCode, TypeOK
      <4> QED
        BY <4>1, <4>2, DrawnOnce DEF PurposeInv
    <3>3. CASE ~(\E v \in Verifiers : DeleteCode(v))
      <4>1. accepted' = accepted
        BY <3>3
        DEF Next, GenStep, VerStep, Expire, CanResend, GenerateDirectly, CheckRate,
            StoreCode, ResetAttempts, CountCode, MarkResend, ReadCode, CheckAttempts,
            CountFailure, ExpireCode, ExpireCooldown, ExpireAttempts, ExpireRate, vars
      <4> QED
        BY <3>1, <4>1
    <3> QED
      BY <3>1, <3>2, <3>3
  <2> QED
    BY <2>1, <2>2, <2>3, <2>4 DEF PurposeInv, PurposeKept
<1> QED
  BY <1>1, <1>2, TypeCorrect, PTL DEF Spec

THEOREM PurposesKept == Spec => []PurposeKept
<1>1. PurposeInv => PurposeKept
  BY DEF PurposeInv
<1> QED
  BY <1>1, PurposeInvariant, PTL

-----------------------------------------------------------------------------
(***************************************************************************)
(* The codes themselves.  A code is drawn once and stored once, so that it *)
(* is Unstored, then stored for a purpose, then never again: only while it *)
(* is stored can a request begin to verify it.  At(stages, c) are the      *)
(* requests that verify the code c and stand at one of the stages.         *)
(***************************************************************************)
Unstored(c) ==
    drawn[c] = None \/ \E g \in Generators : gen[g].at = "store" /\ gen[g].code = c
Stored(c)   == \E p \in Purposes : otp[p] = c
NotReset(c) == \E g \in Generators : gen[g].at = "reset" /\ gen[g].code = c

At(stages, c) == {v \in Verifiers : ver[v].at \in stages /\ ver[v].seen = c}
Reading == {"attempts", "right", "wrong", "exhausted"}
Ahead   == {"attempts"}
Pending == {"right", "wrong"}

\* A request that is about to store a code, or to reset its counter, has drawn it.
InHand(g) == gen[g].at \in {"store", "reset"}
GensInv ==
    /\ \A g \in Generators : InHand(g) => drawn[gen[g].code] # None
    /\ \A g, h \in Generators : InHand(g) /\ InHand(h) /\ gen[g].code = gen[h].code => g = h

\* Nothing has happened yet to a code that is not stored yet.
Fresh(c) ==
    Unstored(c) =>
        /\ ~Stored(c) /\ At(Reading, c) = {}
        /\ attempts[c] = Absent /\ compared[c] = 0
        /\ \A p \in Purposes : accepted[c][p] = 0

\* What a step does to a code it is not about: a purpose may lose it, and its counter
\* may expire once none has it.
LeftAlone(c) ==
    /\ Stored(c)' => Stored(c)
    /\ Unstored(c)' => Unstored(c)
    /\ NotReset(c)' <=> NotReset(c)
    /\ attempts'[c] = attempts[c] \/ (attempts'[c] = Absent /\ ~Stored(c)')
    /\ compared'[c] = compared[c] /\ accepted'[c] = accepted[c]
    /\ At(Reading, c)' = At(Reading, c)
    /\ At(Ahead, c)' = At(Ahead, c)
    /\ At(Pending, c)' = At(Pending, c)

\* The verifications at some stages after one of them has moved.
LEMMA AtMoves ==
    ASSUME TypeOK, NEW v \in Verifiers, NEW rec, VerAt(v, rec), NEW stages, NEW c
    PROVE  At(stages, c)' = IF rec.at \in stages /\ rec.seen = c
                            THEN At(stages, c) \cup {v} ELSE At(stages, c) \ {v}
BY DEF TypeOK, VerAt, At

\* A request that moves on keeps what it knows.
LEMMA VerStage ==
    ASSUME TypeOK, NEW v \in Verifiers, ver[v].at # "idle", NEW stage
    PROVE  /\ [ver[v] EXCEPT !.at = stage].at = stage
           /\ [ver[v] EXCEPT !.at = stage].seen = ver[v].seen
BY VerTyped

LEMMA GenStage ==
    ASSUME TypeOK, NEW g \in Generators, gen[g].at \in {"store", "reset", "count"}, NEW stage
    PROVE  /\ [gen[g] EXCEPT !.at = stage].at = stage
           /\ [gen[g] EXCEPT !.at = stage].code = gen[g].code
BY GenTyped

LEMMA AtMovesOn ==
    ASSUME TypeOK, NEW v \in Verifiers, ver[v].at # "idle", NEW stage,
           VerAt(v, [ver[v] EXCEPT !.at = stage]), NEW stages, NEW c
    PROVE  At(stages, c)' = IF stage \in stages /\ ver[v].seen = c
                            THEN At(stages, c) \cup {v} ELSE At(stages, c) \ {v}
<1> DEFINE rec == [ver[v] EXCEPT !.at = stage]
<1>1. rec.at = stage /\ rec.seen = ver[v].seen
  BY VerStage
<1>2. VerAt(v, rec)
  OBVIOUS
<1> HIDE DEF rec
<1> QED
  BY <1>1, <1>2, AtMoves

\* A step of a verification leaves alone every code but the one it verifies.
LEMMA VerLeavesAlone ==
    ASSUME TypeOK, NEW v \in Verifiers, NEW rec, VerAt(v, rec), NEW c \in Codes,
           gen' = gen, drawn' = drawn, Stored(c)' => Stored(c),
           attempts'[c] = attempts[c], compared'[c] = compared[c],
           accepted'[c] = accepted[c],
           rec.at = "idle" \/ rec.seen # c,
           ver[v].at = "idle" \/ ver[v].seen # c
    PROVE  LeftAlone(c)
<1>1. ASSUME NEW stages \in {Reading, Ahead, Pending} PROVE At(stages, c)' = At(stages, c)
  <2>1. ~(rec.at \in stages /\ rec.seen = c) /\ v \notin At(stages, c)
    BY DEF At, Reading, Ahead, Pending
  <2> QED
    BY <2>1, AtMoves
<1> QED
  BY <1>1 DEF LeftAlone, Unstored, NotReset

\* A step of a generation leaves the verifications alone.
LEMMA GenLeavesAlone ==
    ASSUME NEW c \in Codes, ver' = ver, compared' = compared, accepted' = accepted,
           attempts'[c] = attempts[c], Stored(c)' => Stored(c),
           Unstored(c)' => Unstored(c), NotReset(c)' <=> NotReset(c)
    PROVE  LeftAlone(c)
BY DEF LeftAlone, At

\* A generating request that has a code in hand had it before, or has just drawn it.
LEMMA InHandFrom ==
    ASSUME TypeOK, [Next]_vars, NEW h \in Generators, InHand(h)'
    PROVE  \/ InHand(h) /\ gen'[h].code = gen[h].code
           \/ CheckRate(h) /\ drawn[gen'[h].code] = None /\ drawn'[gen'[h].code] # None
<1>1. CASE gen'[h] = gen[h]
  BY <1>1 DEF InHand
<1>2. ASSUME NEW g \in Generators, GenStep(g), gen'[h] # gen[h]
      PROVE  \/ InHand(h) /\ gen'[h].code = gen[h].code
             \/ CheckRate(h) /\ drawn[gen'[h].code] = None /\ drawn'[gen'[h].code] # None
  <2>1. g = h
    BY <1>2 DEF GenStep, CanResend, GenerateDirectly, CheckRate, StoreCode, ResetAttempts,
                CountCode, MarkResend, GenAt, TypeOK
  <2>2. ~GenAt(h, Idle)
    BY DEF InHand, GenAt, TypeOK
  <2>3. CASE CanResend(h) \/ GenerateDirectly(h)
    <3>1. \E p \in Purposes, b \in BOOLEAN :
            GenAt(h, [at |-> "rate", purpose |-> p, resend |-> b])
      BY <2>3 DEF CanResend, GenerateDirectly
    <3>2. gen'[h].at = "rate"
      BY <3>1 DEF GenAt, TypeOK
    <3> QED
      BY <3>2 DEF InHand
  <2>4. CASE CheckRate(h)
    <3>1. PICK c \in Codes :
            /\ drawn[c] = None /\ drawn' = [drawn EXCEPT ![c] = gen[h].purpose]
            /\ GenAt(h, [at |-> "store", purpose |-> gen[h].purpose,
                         resend |-> gen[h].resend, code |-> c])
      BY <2>2, <2>4 DEF CheckRate
    <3>2. gen'[h].code = c
      BY <3>1 DEF GenAt, TypeOK
    <3>3. gen[h].purpose \in Purposes
      BY <2>4, GenTyped DEF CheckRate
    <3>4. drawn'[c] = gen[h].purpose
      BY <3>1 DEF TypeOK
    <3> QED
      BY <2>4, <3>1, <3>2, <3>3, <3>4, NoneIsNoPurpose
  <2>5. CASE StoreCode(h) \/ ResetAttempts(h) \/ CountCode(h)
    <3>1. gen[h].at \in {"store", "reset", "count"}
      BY <2>5 DEF StoreCode, ResetAttempts, CountCode
    <3>2. PICK stage \in {"reset", "count", "mark"} :
            /\ GenAt(h, [gen[h] EXCEPT !.at = stage])
            /\ gen[h].at = "count" => stage = "mark"
      BY <2>2, <2>5 DEF StoreCode, ResetAttempts, CountCode
    <3>3. gen'[h] = [gen[h] EXCEPT !.at = stage]
      BY <3>2 DEF GenAt, TypeOK
    <3>4. gen'[h].at = stage /\ gen'[h].code = gen[h].code
      BY <3>1, <3>3, GenStage
    <3> QED
      BY <3>1, <3>2, <3>4 DEF InHand
  <2>6. CASE MarkResend(h)
    BY <2>2, <2>6 DEF MarkResend
  <2> QED
    BY <1>2, <2>1, <2>3, <2>4, <2>5, <2>6 DEF GenStep
<1>3. CASE ~(\E g \in Generators : GenStep(g))
  <2>1. gen' = gen
    BY <1>3
    DEF Next, VerStep, Expire, ReadCode, CheckAttempts, CountFailure, DeleteCode,
        ExpireCode, ExpireCooldown, ExpireAttempts, ExpireRate, vars
  <2> QED
    BY <1>1, <2>1
<1> QED
  BY <1>1, <1>2, <1>3

\* What was drawn stays drawn.
LEMMA StaysDrawn ==
    ASSUME TypeOK, [Next]_vars, NEW c \in Codes, drawn[c] # None
    PROVE  drawn'[c] # None
<1>1. drawn[c] \in Purposes
  BY DEF TypeOK
<1> QED
  BY <1>1, DrawnOnce

LEMMA GensStep ==
    ASSUME TypeOK, GensInv, [Next]_vars
    PROVE  GensInv'
<1>1. ASSUME NEW g \in Generators, InHand(g)' PROVE drawn'[gen'[g].code] # None
  <2>1. CASE InHand(g) /\ gen'[g].code = gen[g].code
    <3>1. gen[g].code \in Codes /\ drawn[gen[g].code] # None
      BY <2>1, GenTyped DEF InHand, GensInv
    <3> QED
      BY <2>1, <3>1, StaysDrawn
  <2> QED
    BY <1>1, <2>1, InHandFrom
<1>2. ASSUME NEW g \in Generators, NEW h \in Generators, InHand(g)', InHand(h)',
             gen'[g].code = gen'[h].code, g # h
      PROVE  FALSE
  <2>1. CheckRate(g) => gen'[h] = gen[h]
    BY <1>2 DEF CheckRate, GenAt, TypeOK
  <2>2. CheckRate(h) => gen'[g] = gen[g]
    BY <1>2 DEF CheckRate, GenAt, TypeOK
  <2>3. CASE InHand(g) /\ gen'[g].code = gen[g].code
    <3>1. drawn[gen'[g].code] # None
      BY <2>3 DEF GensInv
    <3>2. InHand(h) /\ gen'[h].code = gen[h].code
      BY <1>2, <3>1, InHandFrom
    <3> QED
      BY <1>2, <2>3, <3>2 DEF GensInv
  <2>4. CASE InHand(h) /\ gen'[h].code = gen[h].code
    <3>1. drawn[gen'[h].code] # None
      BY <2>4 DEF GensInv
    <3>2. InHand(g) /\ gen'[g].code = gen[g].code
      BY <1>2, <3>1, InHandFrom
    <3> QED
      BY <2>3, <3>2
  <2>5. CASE CheckRate(g) /\ CheckRate(h)
    <3>1. gen[h].at = "rate"
      BY <2>5 DEF CheckRate
    <3> QED
      BY <1>2, <2>1, <2>5, <3>1 DEF InHand
  <2> QED
    BY <1>2, <2>3, <2>4, <2>5, InHandFrom
<1> QED
  BY <1>1, <1>2 DEF GensInv

\* Which codes a step is about, and which it leaves alone.
LEMMA WhoTouches ==
    ASSUME TypeOK, GensInv, [Next]_vars, NEW c \in Codes
    PROVE  \/ LeftAlone(c)
           \/ \E g \in Generators : StoreCode(g) /\ gen[g].code = c
           \/ \E g \in Generators : ResetAttempts(g) /\ gen[g].code = c
           \/ \E v \in Verifiers, p \in Purposes :
                /\ otp[p] = c /\ VerAt(v, [at |-> "attempts", purpose |-> p, seen |-> c])
                /\ ReadCode(v)
           \/ \E v \in Verifiers : ver[v].seen = c /\
                (CheckAttempts(v) \/ CountFailure(v) \/ DeleteCode(v))
<1>1. ASSUME NEW g \in Generators, GenStep(g),
             ~(StoreCode(g) /\ gen[g].code = c), ~(ResetAttempts(g) /\ gen[g].code = c)
      PROVE  LeftAlone(c)
  <2>1. ver' = ver /\ compared' = compared /\ accepted' = accepted
    BY <1>1 DEF GenStep, CanResend, GenerateDirectly, CheckRate, StoreCode, ResetAttempts,
                CountCode, MarkResend, keys
  <2>2. attempts'[c] = attempts[c]
    <3>1. CASE ResetAttempts(g)
      <4>1. gen[g].code \in Codes /\ gen[g].code # c
        BY <1>1, <3>1, GenTyped DEF ResetAttempts
      <4> QED
        BY <3>1, <4>1 DEF ResetAttempts, TypeOK
    <3> QED
      BY <1>1, <3>1 DEF GenStep, CanResend, GenerateDirectly, CheckRate, StoreCode,
                        CountCode, MarkResend, keys
  <2>3. Stored(c)' => Stored(c)
    <3>1. CASE StoreCode(g)
      <4>1. gen[g].code # c /\ gen[g].purpose \in Purposes
        BY <1>1, <3>1, GenTyped DEF StoreCode
      <4> QED
        BY <3>1, <4>1 DEF StoreCode, Stored, TypeOK
    <3> QED
      BY <1>1, <3>1 DEF GenStep, CanResend, GenerateDirectly, CheckRate, ResetAttempts,
                        CountCode, MarkResend, keys, Stored
  <2>4. \A h \in Generators : h # g => gen'[h] = gen[h]
    BY <1>1 DEF GenStep, CanResend, GenerateDirectly, CheckRate, StoreCode, ResetAttempts,
                CountCode, MarkResend, GenAt, TypeOK
  <2>5. Unstored(c)' => Unstored(c)
    <3>1. ASSUME NEW h \in Generators, gen'[h].at = "store", gen'[h].code = c
          PROVE  Unstored(c)
      <4>1. InHand(h)'
        BY <3>1 DEF InHand
      <4>2. CASE CheckRate(h) /\ drawn[gen'[h].code] = None
        BY <3>1, <4>2 DEF Unstored
      <4>3. CASE InHand(h) /\ gen'[h].code = gen[h].code
        <5>1. CASE gen[h].at = "store"
          BY <3>1, <4>3, <5>1 DEF Unstored
        <5>2. CASE gen[h].at = "reset"
          <6>1. h = g /\ ResetAttempts(g)
            BY <1>1, <2>4, <3>1, <5>2
            DEF GenStep, CanResend, GenerateDirectly, CheckRate, StoreCode, ResetAttempts,
                CountCode, MarkResend
          <6> QED
            BY <1>1, <3>1, <4>3, <6>1
        <5> QED
          BY <4>3, <5>1, <5>2 DEF InHand
      <4> QED
        BY <4>1, <4>2, <4>3, InHandFrom
    <3>2. drawn'[c] = None => drawn[c] = None
      BY StaysDrawn
    <3> QED
      BY <3>1, <3>2 DEF Unstored
  <2>6. NotReset(c)' <=> NotReset(c)
    <3>1. (gen'[g].at = "reset" /\ gen'[g].code = c) <=> (gen[g].at = "reset" /\ gen[g].code = c)
      <4>1. ASSUME NEW rec, GenAt(g, rec) PROVE gen'[g] = rec
        BY <4>1 DEF GenAt, TypeOK
      <4>2. CASE CanResend(g) \/ GenerateDirectly(g)
        <5>1. \E p \in Purposes, b \in BOOLEAN :
                GenAt(g, [at |-> "rate", purpose |-> p, resend |-> b])
          BY <4>2 DEF CanResend, GenerateDirectly
        <5>2. gen[g].at = "idle" /\ gen'[g].at = "rate"
          BY <4>1, <4>2, <5>1 DEF CanResend, GenerateDirectly
        <5> QED
          BY <5>2
      <4>3. CASE CheckRate(g)
        <5>1. \/ GenAt(g, Idle)
              \/ \E d \in Codes : GenAt(g, [at |-> "store", purpose |-> gen[g].purpose,
                                           resend |-> gen[g].resend, code |-> d])
          BY <4>3 DEF CheckRate
        <5>2. gen[g].at = "rate"
          BY <4>3 DEF CheckRate
        <5>3. CASE GenAt(g, Idle)
          BY <4>1, <5>2, <5>3
        <5>4. ASSUME NEW rec, GenAt(g, rec), rec.at = "store" PROVE gen'[g].at = "store"
          BY <4>1, <5>4
        <5> QED
          BY <5>1, <5>2, <5>3, <5>4
      <4>4. CASE StoreCode(g)
        <5>1. gen[g].at = "store" /\ gen[g].code # c
          BY <1>1, <4>4 DEF StoreCode
        <5>2. gen'[g] = Idle \/ gen'[g] = [gen[g] EXCEPT !.at = "reset"]
          BY <4>1, <4>4 DEF StoreCode
        <5>3. CASE gen'[g] = [gen[g] EXCEPT !.at = "reset"]
          <6>1. gen'[g].code = gen[g].code
            BY <5>1, <5>3, GenTyped
          <6> QED
            BY <5>1, <6>1
        <5> QED
          BY <5>1, <5>2, <5>3
      <4>5. CASE ResetAttempts(g)
        <5>1. gen[g].at = "reset" /\ gen[g].code # c
          BY <1>1, <4>5 DEF ResetAttempts
        <5>2. gen'[g] = [gen[g] EXCEPT !.at = "count"]
          BY <4>1, <4>5 DEF ResetAttempts
        <5> QED
          BY <5>1, <5>2, GenStage
      <4>6. CASE CountCode(g)
        <5>1. gen[g].at = "count"
          BY <4>6 DEF CountCode
        <5>2. gen'[g] = Idle \/ gen'[g] = [gen[g] EXCEPT !.at = "mark"]
          BY <4>1, <4>6 DEF CountCode
        <5>3. CASE gen'[g] = [gen[g] EXCEPT !.at = "mark"]
          <6>1. gen'[g].at = "mark"
            BY <5>1, <5>3, GenTyped
          <6> QED
            BY <5>1, <6>1
        <5> QED
          BY <5>1, <5>2, <5>3
      <4>7. CASE MarkResend(g)
        BY <4>1, <4>7 DEF MarkResend
      <4> QED
        BY <1>1, <4>2, <4>3, <4>4, <4>5, <4>6, <4>7 DEF GenStep
    <3> QED
      BY <2>4, <3>1 DEF NotReset
  <2> QED
    BY <2>1, <2>2, <2>3, <2>5, <2>6, GenLeavesAlone
<1>2. ASSUME NEW v \in Verifiers, ReadCode(v)
      PROVE  \/ LeftAlone(c)
             \/ \E p \in Purposes : /\ otp[p] = c
                                    /\ VerAt(v, [at |-> "attempts", purpose |-> p, seen |-> c])
  <2>1. PICK p \in Purposes : VerAt(v, [at |-> "attempts", purpose |-> p, seen |-> otp[p]])
    BY <1>2 DEF ReadCode
  <2>2. CASE otp[p] = c
    BY <2>1, <2>2
  <2>3. CASE otp[p] # c
    <3>1. UNCHANGED <<gen, drawn, otp, attempts, compared, accepted>> /\ ver[v].at = "idle"
      BY <1>2 DEF ReadCode, keys
    <3> QED
      BY <2>1, <2>3, <3>1, VerLeavesAlone DEF Stored
  <2> QED
    BY <2>2, <2>3
<1>3. ASSUME NEW v \in Verifiers, CheckAttempts(v), ver[v].seen # c PROVE LeftAlone(c)
  <2>1. ver[v].at # "idle" /\ ver[v].seen \in Codes
    BY <1>3, VerTyped DEF CheckAttempts
  <2>2. PICK stage \in {"right", "wrong", "exhausted"} : VerAt(v, [ver[v] EXCEPT !.at = stage])
    BY <1>3 DEF CheckAttempts
  <2>3. compared'[c] = compared[c]
    BY <1>3, <2>1 DEF CheckAttempts, TypeOK
  <2>4. UNCHANGED <<gen, drawn, otp, attempts, accepted>>
    BY <1>3 DEF CheckAttempts, keys
  <2>5. [ver[v] EXCEPT !.at = stage].seen # c
    BY <1>3, <2>1, VerStage
  <2> QED
    BY <1>3, <2>2, <2>3, <2>4, <2>5, VerLeavesAlone DEF Stored
<1>4. ASSUME NEW v \in Verifiers, CountFailure(v), ver[v].seen # c PROVE LeftAlone(c)
  <2>1. ver[v].seen \in Codes
    BY <1>4, VerTyped DEF CountFailure
  <2>2. attempts'[c] = attempts[c]
    BY <1>4, <2>1 DEF CountFailure, TypeOK
  <2>3. UNCHANGED <<gen, drawn, otp, compared, accepted>> /\ VerAt(v, Idle)
    BY <1>4 DEF CountFailure
  <2> QED
    BY <1>4, <2>2, <2>3, VerLeavesAlone DEF Stored
<1>5. ASSUME NEW v \in Verifiers, DeleteCode(v), ver[v].seen # c PROVE LeftAlone(c)
  <2>1. ver[v].seen \in Codes /\ ver[v].purpose \in Purposes
    BY <1>5, VerTyped DEF DeleteCode
  <2>2. attempts'[c] = attempts[c] /\ accepted'[c] = accepted[c]
    BY <1>5, <2>1 DEF DeleteCode, TypeOK
  <2>3. UNCHANGED <<gen, drawn, compared>> /\ VerAt(v, Idle)
    BY <1>5 DEF DeleteCode
  <2>4. Stored(c)' => Stored(c)
    BY <1>5, <2>1, NoCodeIsNone DEF DeleteCode, Stored, TypeOK
  <2> QED
    BY <1>5, <2>2, <2>3, <2>4, VerLeavesAlone
<1>6. CASE Expire
  <2>1. UNCHANGED <<gen, ver, drawn, compared, accepted>>
    BY <1>6 DEF Expire, ExpireCode, ExpireCooldown, ExpireAttempts, ExpireRate
  <2>2. Stored(c)' => Stored(c)
    BY <1>6, NoCodeIsNone
    DEF Expire, ExpireCode, ExpireCooldown, ExpireAttempts, ExpireRate, Stored, TypeOK
  <2>3. attempts'[c] = attempts[c] \/ (attempts'[c] = Absent /\ ~Stored(c)')
    <3>1. ASSUME NEW d \in Codes, ExpireAttempts(d)
          PROVE  attempts'[c] = attempts[c] \/ (attempts'[c] = Absent /\ ~Stored(c)')
      BY <3>1 DEF ExpireAttempts, Stored, TypeOK
    <3> QED
      BY <1>6, <3>1 DEF Expire, ExpireCode, ExpireCooldown, ExpireRate
  <2> QED
    BY <2>1, <2>2, <2>3 DEF LeftAlone, Unstored, NotReset, At
<1>7. CASE UNCHANGED vars
  BY <1>7 DEF vars, LeftAlone, Stored, Unstored, NotReset, At
<1> QED
  BY <1>1, <1>2, <1>3, <1>4, <1>5, <1>6, <1>7 DEF Next, VerStep

\* A code somebody verifies, or finds stored, is not Unstored, nor is it after the step.
LEMMA VerifiedIsStored ==
    ASSUME TypeOK, NEW c \in Codes, Fresh(c), NEW v \in Verifiers,
           Stored(c) \/ (ver[v].at \in Reading /\ ver[v].seen = c),
           VerStep(v)
    PROVE  ~Unstored(c) /\ ~Unstored(c)'
<1>1. ~Unstored(c)
  BY DEF Fresh, At
<1>2. gen' = gen /\ drawn' = drawn
  BY DEF VerStep, ReadCode, CheckAttempts, CountFailure, DeleteCode
<1> QED
  BY <1>1, <1>2 DEF Unstored

LEMMA FreshStep ==
    ASSUME TypeOK, GensInv, [Next]_vars, NEW c \in Codes, Fresh(c)
    PROVE  Fresh(c)'
<1>0. GensInv'
  BY GensStep
<1>1. CASE LeftAlone(c)
  BY <1>1 DEF Fresh, LeftAlone
<1>2. ASSUME NEW g \in Generators, InHand(g), gen[g].code = c, drawn' = drawn,
             NEW rec, rec.at # "store", GenAt(g, rec)
      PROVE  ~Unstored(c)'
  <2>1. drawn'[c] # None
    BY <1>2 DEF GensInv
  <2>2. ASSUME NEW h \in Generators, gen'[h].at = "store", gen'[h].code = c PROVE FALSE
    <3>1. h # g /\ gen'[h] = gen[h]
      BY <1>2, <2>2 DEF GenAt, TypeOK
    <3> QED
      BY <1>2, <2>2, <3>1 DEF GensInv, InHand
  <2> QED
    BY <2>1, <2>2 DEF Unstored
<1>3. ASSUME NEW g \in Generators, StoreCode(g), gen[g].code = c PROVE ~Unstored(c)'
  <2>1. gen[g].at = "store" /\ drawn' = drawn
    BY <1>3 DEF StoreCode
  <2>2. GenAt(g, Idle) \/ GenAt(g, [gen[g] EXCEPT !.at = "reset"])
    BY <1>3 DEF StoreCode
  <2>3. [gen[g] EXCEPT !.at = "reset"].at # "store"
    BY <2>1, GenTyped
  <2>4. Idle.at # "store"
    OBVIOUS
  <2>5. CASE GenAt(g, Idle)
    BY <1>2, <1>3, <2>1, <2>4, <2>5 DEF InHand
  <2>6. CASE GenAt(g, [gen[g] EXCEPT !.at = "reset"])
    BY <1>2, <1>3, <2>1, <2>3, <2>6 DEF InHand
  <2> QED
    BY <2>2, <2>5, <2>6
<1>4. ASSUME NEW g \in Generators, ResetAttempts(g), gen[g].code = c PROVE ~Unstored(c)'
  <2>1. gen[g].at = "reset" /\ drawn' = drawn /\ GenAt(g, [gen[g] EXCEPT !.at = "count"])
    BY <1>4 DEF ResetAttempts
  <2>2. [gen[g] EXCEPT !.at = "count"].at # "store"
    BY <2>1, GenTyped
  <2> QED
    BY <1>2, <1>4, <2>1, <2>2 DEF InHand
<1>5. ASSUME NEW v \in Verifiers, ReadCode(v), Stored(c) PROVE ~Unstored(c)'
  BY <1>5, VerifiedIsStored DEF VerStep
<1>6. ASSUME NEW v \in Verifiers, ver[v].seen = c,
             CheckAttempts(v) \/ CountFailure(v) \/ DeleteCode(v)
      PROVE  ~Unstored(c)'
  <2>1. ver[v].at \in Reading
    BY <1>6 DEF CheckAttempts, CountFailure, DeleteCode, Reading
  <2> QED
    BY <1>6, <2>1, VerifiedIsStored DEF VerStep
<1>7. ~Unstored(c)' => Fresh(c)'
  BY DEF Fresh
<1> QED
  BY <1>1, <1>3, <1>4, <1>5, <1>6, <1>7, WhoTouches DEF Stored

CodesInv == GensInv /\ \A c \in Codes : Fresh(c)

LEMMA CodesInit == Init => CodesInv
BY NoCodeIsNone DEF Init, CodesInv, GensInv, InHand, Fresh, Stored, At, Reading

LEMMA CodesStep == TypeOK /\ CodesInv /\ [Next]_vars => CodesInv'
BY GensStep, FreshStep DEF CodesInv

LEMMA CodesInvariant == Spec => []CodesInv
BY CodesInit, CodesStep, TypeCorrect, PTL DEF Spec

-----------------------------------------------------------------------------
(***************************************************************************)
(* Single use.  While a code is stored nobody has accepted it; the first   *)
(* request that accepts it takes it away, and those that can still accept  *)
(* it are the ones that had read it by then.  So its uses and the requests *)
(* that verify it are together at most the requests.  The answer of a DEL  *)
(* may be lost, for the keys are gone; but it must not fail.               *)
(***************************************************************************)
Used(c) ==
    \A p \in Purposes :
        /\ Stored(c) => accepted[c][p] = 0
        /\ accepted[c][p] + Cardinality(At(Reading, c)) <= Cardinality(Verifiers)

LEMMA ReadersFinite ==
    ASSUME NEW stages, NEW c
    PROVE  /\ Cardinality(Verifiers) \in Nat
           /\ Cardinality(At(stages, c)) \in Nat
           /\ Cardinality(At(stages, c)) <= Cardinality(Verifiers)
           /\ \A v \in Verifiers :
                /\ v \in At(stages, c) =>
                     Cardinality(At(stages, c) \ {v}) = Cardinality(At(stages, c)) - 1
                /\ v \notin At(stages, c) =>
                     /\ Cardinality(At(stages, c) \cup {v}) = Cardinality(At(stages, c)) + 1
                     /\ Cardinality(At(stages, c)) + 1 <= Cardinality(Verifiers)
<1>1. At(stages, c) \in SUBSET Verifiers
  BY DEF At
<1>2. \A v \in Verifiers : At(stages, c) \cup {v} \in SUBSET Verifiers
  BY <1>1
<1> HIDE DEF At
<1> QED
  BY <1>1, <1>2, VerifiersAreFinite, PartsOfFinite

\* A DEL that takes effect takes away the code its request has verified.
LEMMA DeleteTakes ==
    ASSUME "err" \notin Faults, TypeOK, PurposeInv, NEW v \in Verifiers, DeleteCode(v),
           NEW c, c = ver[v].seen
    PROVE  ~Stored(c)'
<1>1. otp' = [otp EXCEPT ![ver[v].purpose] = NoCode]
  BY DEF DeleteCode, Applied
<1>2. c \in Codes
  BY VerTyped DEF DeleteCode
<1>3. \A q \in Purposes : otp[q] = c => q = ver[v].purpose
  BY <1>2, NoCodeIsNone DEF DeleteCode, PurposeInv, PurposeKept
<1>4. \A q \in Purposes : otp'[q] # c
  BY <1>1, <1>2, <1>3, NoCodeIsNone DEF TypeOK
<1> QED
  BY <1>4 DEF Stored

LEMMA UsedStep ==
    ASSUME "err" \notin Faults, TypeOK, CodesInv, PurposeInv, [Next]_vars,
           NEW c \in Codes, Used(c)
    PROVE  Used(c)'
<1> SUFFICES ASSUME NEW p \in Purposes
             PROVE  /\ Stored(c)' => accepted'[c][p] = 0
                    /\ accepted'[c][p] + Cardinality(At(Reading, c)') <= Cardinality(Verifiers)
  BY DEF Used
<1>0. /\ accepted[c][p] \in Nat
      /\ Stored(c) => accepted[c][p] = 0
      /\ accepted[c][p] + Cardinality(At(Reading, c)) <= Cardinality(Verifiers)
  BY DEF TypeOK, Used
<1> DEFINE Goal == /\ Stored(c)' => accepted'[c][p] = 0
                   /\ accepted'[c][p] + Cardinality(At(Reading, c)') <= Cardinality(Verifiers)
<1>1. CASE LeftAlone(c)
  BY <1>0, <1>1 DEF LeftAlone
<1>2. ASSUME NEW g \in Generators, StoreCode(g) \/ ResetAttempts(g), gen[g].code = c
      PROVE  Goal
  <2>1. accepted' = accepted /\ At(Reading, c)' = At(Reading, c)
    BY <1>2 DEF StoreCode, ResetAttempts, At
  <2>2. CASE StoreCode(g)
    <3>1. Unstored(c)
      BY <1>2, <2>2 DEF StoreCode, Unstored
    <3>2. accepted[c][p] = 0
      BY <3>1 DEF CodesInv, Fresh
    <3> QED
      BY <1>0, <2>1, <3>2
  <2>3. CASE ResetAttempts(g)
    BY <1>0, <2>1, <2>3 DEF ResetAttempts, Stored
  <2> QED
    BY <1>2, <2>2, <2>3
<1>3. ASSUME NEW v \in Verifiers, ReadCode(v), Stored(c) PROVE Goal
  <2>1. accepted' = accepted /\ accepted[c][p] = 0
    BY <1>0, <1>3 DEF ReadCode
  <2>2. /\ Cardinality(Verifiers) \in Nat
        /\ Cardinality(At(Reading, c)') \in Nat
        /\ Cardinality(At(Reading, c)') <= Cardinality(Verifiers)
    <3>1. At(Reading, c)' \in SUBSET Verifiers
      BY DEF At
    <3> QED
      BY <3>1, VerifiersAreFinite, PartsOfFinite
  <2> QED
    BY <2>1, <2>2
<1>4. ASSUME NEW v \in Verifiers, ver[v].seen = c, CheckAttempts(v) PROVE Goal
  <2>1. accepted' = accepted /\ otp' = otp /\ ver[v].at = "attempts"
    BY <1>4 DEF CheckAttempts, keys
  <2>2. PICK stage \in {"right", "wrong", "exhausted"} : VerAt(v, [ver[v] EXCEPT !.at = stage])
    BY <1>4 DEF CheckAttempts
  <2>3. v \in At(Reading, c)
    BY <1>4, <2>1 DEF At, Reading
  <2>4. At(Reading, c)' = At(Reading, c)
    BY <1>4, <2>1, <2>2, <2>3, AtMovesOn DEF Reading
  <2> QED
    BY <1>0, <2>1, <2>4 DEF Stored
<1>5. ASSUME NEW v \in Verifiers, ver[v].seen = c, CountFailure(v) \/ DeleteCode(v) PROVE Goal
  <2>1. v \in At(Reading, c) /\ VerAt(v, Idle)
    BY <1>5 DEF CountFailure, DeleteCode, At, Reading
  <2>2. At(Reading, c)' = At(Reading, c) \ {v}
    BY <2>1, AtMoves DEF Reading
  <2>3. Cardinality(At(Reading, c)') = Cardinality(At(Reading, c)) - 1
    BY <2>1, <2>2, ReadersFinite
  <2>4. CASE CountFailure(v)
    <3>1. accepted' = accepted /\ otp' = otp
      BY <2>4 DEF CountFailure
    <3> QED
      BY <1>0, <2>3, <3>1, ReadersFinite DEF Stored
  <2>5. CASE DeleteCode(v)
    <3>1. accepted'[c][p] \in {accepted[c][p], accepted[c][p] + 1}
      <4>1. ver[v].purpose \in Purposes
        BY <2>5, VerTyped DEF DeleteCode
      <4> QED
        BY <1>5, <2>5, <4>1 DEF DeleteCode, TypeOK
    <3>2. ~Stored(c)'
      BY <1>5, <2>5, DeleteTakes
    <3> QED
      BY <1>0, <2>3, <3>1, <3>2, ReadersFinite
  <2> QED
    BY <1>5, <2>4, <2>5
<1> QED
  BY <1>1, <1>2, <1>3, <1>4, <1>5, WhoTouches DEF CodesInv, Stored

\* However verifications race, a code is accepted at most once per request that
\* verifies, for any number of requests, as long as no command fails before it took
\* effect.
THEOREM CodesAreSingleUse == ASSUME "err" \notin Faults PROVE Spec => []SingleUse
<1> DEFINE UseInv == \A c \in Codes : Used(c)
<1>1. Init => UseInv
  <2> SUFFICES ASSUME Init, NEW c \in Codes PROVE Used(c)
    OBVIOUS
  <2>1. At(Reading, c) = {} /\ \A p \in Purposes : accepted[c][p] = 0
    BY DEF Init, At, Reading
  <2> QED
    BY <2>1, FS_EmptySet, ReadersFinite DEF Used
<1>2. TypeOK /\ CodesInv /\ PurposeInv /\ UseInv /\ [Next]_vars => UseInv'
  BY UsedStep
<1>3. TypeOK /\ UseInv => SingleUse
  <2> SUFFICES ASSUME TypeOK, UseInv, NEW c \in Codes, NEW p \in Purposes
               PROVE  accepted[c][p] <= Cardinality(Verifiers)
    BY DEF SingleUse
  <2>1. accepted[c][p] \in Nat
    BY DEF TypeOK
  <2> QED
    BY <2>1, ReadersFinite DEF Used
<1> QED
  BY <1>1, <1>2, <1>3, TypeCorrect, CodesInvariant, PurposeInvariant, PTL DEF Spec

-----------------------------------------------------------------------------
(***************************************************************************)
(* Guesses.  A guess is compared only when the counter was below the       *)
(* limit, and afterwards it is pending until it has been counted: so what  *)
(* was compared since the counter last started is at most the count and    *)
(* the pending guesses, and that is at most one Round.  While a code is    *)
(* stored the counter starts over once, when GenerateOTP writes its 0;     *)
(* once it is not, only those who have read it are Ahead of a comparison.  *)
(***************************************************************************)
Round == MaxAttempts + Cardinality(Verifiers) - 1
Count(c) == IF attempts[c] = Absent THEN 0 ELSE attempts[c]
Earlier(c) == IF NotReset(c) THEN 0 ELSE Round

Guessed(c) ==
    /\ Stored(c) =>
         /\ compared[c] <= Earlier(c) + Count(c) + Cardinality(At(Pending, c))
         /\ compared[c] <= Earlier(c) + Round
    /\ compared[c] + Cardinality(At(Ahead, c)) <= 2 * Round + Cardinality(Verifiers)

LEMMA GuessNumbers ==
    ASSUME TypeOK, NEW c \in Codes
    PROVE  /\ Cardinality(Verifiers) \in Nat /\ Round \in Int
           /\ \A v \in Verifiers : Round \in Nat /\ Round >= MaxAttempts
           /\ MaxAttempts \in Nat \ {0} /\ Count(c) \in Nat /\ compared[c] \in Nat
           /\ Earlier(c) \in {0, Round}
<1>1. Cardinality(Verifiers) \in Nat /\ MaxAttempts \in Nat \ {0}
  BY VerifiersAreFinite, FS_CardinalityType, AttemptsAreNat
<1>2. ASSUME NEW v \in Verifiers PROVE Cardinality(Verifiers) # 0
  BY <1>2, VerifiersAreFinite, FS_EmptySet
<1>3. Count(c) \in Nat /\ compared[c] \in Nat
  BY DEF TypeOK, Count
<1> QED
  BY <1>1, <1>2, <1>3 DEF Round, Earlier

LEMMA GuessedStep ==
    ASSUME Faults = {}, TypeOK, CodesInv, PurposeInv, [Next]_vars,
           NEW c \in Codes, Guessed(c)
    PROVE  Guessed(c)'
<1> DEFINE pending == Cardinality(At(Pending, c))
           ahead   == Cardinality(At(Ahead, c))
<1>0. TypeOK' /\ Outcomes = {"ok"}
  BY TypeStep
<1>n. /\ Cardinality(Verifiers) \in Nat /\ Round \in Nat
      /\ Count(c) \in Nat /\ compared[c] \in Nat /\ Earlier(c) \in {0, Round}
      /\ pending \in Nat /\ ahead \in Nat /\ ahead <= Cardinality(Verifiers)
  BY GuessNumbers, ReadersFinite, AttemptsAreNat DEF Round
<1>m. Cardinality(At(Pending, c)') \in Nat /\ Count(c)' \in Nat /\ Earlier(c)' \in {0, Round}
  <2>1. At(Pending, c)' \in SUBSET Verifiers
    BY DEF At
  <2>2. Count(c)' \in Nat /\ Earlier(c)' \in {0, Round}
    BY <1>0 DEF TypeOK, Count, Earlier
  <2> QED
    BY <2>1, <2>2, VerifiersAreFinite, PartsOfFinite
<1> HIDE DEF pending, ahead
<1>1. CASE LeftAlone(c)
  BY <1>1 DEF LeftAlone, Guessed, Earlier, Count
<1>2. ASSUME NEW g \in Generators, StoreCode(g), gen[g].code = c PROVE Guessed(c)'
  <2>1. /\ compared' = compared /\ At(Ahead, c)' = At(Ahead, c)
    BY <1>2 DEF StoreCode, At
  <2>2. compared[c] = 0
    BY <1>2 DEF StoreCode, CodesInv, Fresh, Unstored
  <2> QED
    BY <1>n, <1>m, <2>1, <2>2 DEF Guessed
<1>3. ASSUME NEW g \in Generators, ResetAttempts(g), gen[g].code = c PROVE Guessed(c)'
  <2>1. /\ UNCHANGED <<compared, otp, ver>> /\ gen[g].at = "reset"
        /\ attempts' = [attempts EXCEPT ![c] = 0]
        /\ GenAt(g, [gen[g] EXCEPT !.at = "count"])
    BY <1>0, <1>3 DEF ResetAttempts, Applied
  <2>2. At(Ahead, c)' = At(Ahead, c)
    BY <2>1 DEF At
  <2>3. Earlier(c) = 0
    BY <1>3, <2>1 DEF Earlier, NotReset
  <2>4. ~NotReset(c)'
    <3>1. gen'[g].at = "count"
      BY <2>1, GenTyped DEF GenAt, TypeOK
    <3>2. ASSUME NEW h \in Generators, h # g, gen'[h].at = "reset", gen'[h].code = c
          PROVE  FALSE
      <4>1. gen'[h] = gen[h]
        BY <2>1, <3>2 DEF GenAt, TypeOK
      <4> QED
        BY <1>3, <2>1, <3>2, <4>1 DEF CodesInv, GensInv, InHand
    <3> QED
      BY <3>1, <3>2 DEF NotReset
  <2>5. Earlier(c)' = Round
    BY <2>4 DEF Earlier
  <2>6. Stored(c)' => Stored(c)
    BY <2>1 DEF Stored
  <2>7. Stored(c) => compared[c] <= Round
    BY <1>n, <2>3 DEF Guessed
  <2> QED
    BY <1>n, <1>m, <2>1, <2>2, <2>5, <2>6, <2>7 DEF Guessed
<1>4. ASSUME NEW v \in Verifiers, NEW p \in Purposes, ReadCode(v), otp[p] = c,
             VerAt(v, [at |-> "attempts", purpose |-> p, seen |-> c])
      PROVE  Guessed(c)'
  <2>1. UNCHANGED <<compared, otp, attempts, gen>> /\ ver[v].at = "idle"
    BY <1>4 DEF ReadCode, keys
  <2>2. v \notin At(Pending, c)
    BY <2>1 DEF At, Pending
  <2>3. At(Pending, c)' = At(Pending, c)
    <3> DEFINE rec == [at |-> "attempts", purpose |-> p, seen |-> c]
    <3>1. rec.at \notin Pending /\ VerAt(v, rec)
      BY <1>4 DEF Pending
    <3> HIDE DEF rec
    <3> QED
      BY <2>2, <3>1, AtMoves
  <2>4. Stored(c)' /\ Stored(c) /\ Earlier(c)' = Earlier(c) /\ Count(c)' = Count(c)
    BY <1>4, <2>1 DEF Stored, Earlier, NotReset, Count
  <2>5. Cardinality(At(Ahead, c)') \in Nat /\ Cardinality(At(Ahead, c)') <= Cardinality(Verifiers)
    <3>1. At(Ahead, c)' \in SUBSET Verifiers
      BY DEF At
    <3> QED
      BY <3>1, VerifiersAreFinite, PartsOfFinite
  <2>6. compared[c] <= 2 * Round
    BY <1>n, <2>4 DEF Guessed
  <2> QED
    BY <1>n, <2>1, <2>3, <2>4, <2>5, <2>6 DEF Guessed
<1>5. ASSUME NEW v \in Verifiers, ver[v].seen = c, CheckAttempts(v) PROVE Guessed(c)'
  <2>1. /\ UNCHANGED <<otp, attempts, gen>> /\ ver[v].at = "attempts"
        /\ v \in At(Ahead, c) /\ v \notin At(Pending, c)
    BY <1>5 DEF CheckAttempts, keys, At, Ahead, Pending
  <2>2. /\ Stored(c)' => Stored(c)
        /\ Earlier(c)' = Earlier(c) /\ Count(c)' = Count(c)
    BY <2>1 DEF Stored, Earlier, NotReset, Count
  <2>3. PICK right \in BOOLEAN :
          \/ /\ Count(c) >= MaxAttempts /\ compared' = compared
             /\ VerAt(v, [ver[v] EXCEPT !.at = "exhausted"])
          \/ /\ Count(c) < MaxAttempts
             /\ compared' = [compared EXCEPT ![c] = compared[c] + 1]
             /\ VerAt(v, [ver[v] EXCEPT !.at = IF right THEN "right" ELSE "wrong"])
    BY <1>0, <1>5, <1>n, AttemptsAreNat DEF CheckAttempts, Count
  <2>4. \E stage \in {"right", "wrong", "exhausted"} : VerAt(v, [ver[v] EXCEPT !.at = stage])
    BY <2>3
  <2>5. At(Ahead, c)' = At(Ahead, c) \ {v}
    <3>1. \A stage \in {"right", "wrong", "exhausted"} : stage \notin Ahead
      BY DEF Ahead
    <3> QED
      BY <2>1, <2>4, <3>1, AtMovesOn
  <2>6. Cardinality(At(Ahead, c)') = ahead - 1
    BY <2>1, <2>5, ReadersFinite DEF ahead
  <2>7. CASE compared' = compared /\ VerAt(v, [ver[v] EXCEPT !.at = "exhausted"])
    <3>1. At(Pending, c)' = At(Pending, c) \ {v}
      <4>1. "exhausted" \notin Pending
        BY DEF Pending
      <4> QED
        BY <2>1, <2>7, <4>1, AtMovesOn
    <3>2. At(Pending, c)' = At(Pending, c)
      BY <2>1, <3>1
    <3> QED
      BY <1>n, <2>2, <2>6, <2>7, <3>2 DEF Guessed, ahead
  <2>8. CASE ~(compared' = compared /\ VerAt(v, [ver[v] EXCEPT !.at = "exhausted"]))
    <3>1. /\ Count(c) < MaxAttempts
          /\ compared' = [compared EXCEPT ![c] = compared[c] + 1]
      BY <2>3, <2>8
    <3>2. PICK stage \in Pending : VerAt(v, [ver[v] EXCEPT !.at = stage])
      BY <2>3, <2>8 DEF Pending
    <3>3. At(Pending, c)' = At(Pending, c) \cup {v}
      BY <1>5, <2>1, <3>2, AtMovesOn
    <3>4. Cardinality(At(Pending, c)') = pending + 1 /\ pending + 1 <= Cardinality(Verifiers)
      BY <2>1, <3>3, ReadersFinite DEF pending
    <3>5. compared'[c] = compared[c] + 1
      BY <3>1 DEF TypeOK
    <3>6. Stored(c) => compared[c] <= Earlier(c) + Count(c) + pending
      BY DEF Guessed, pending
    <3>7. compared[c] + ahead <= 2 * Round + Cardinality(Verifiers)
      BY DEF Guessed, ahead
    <3>8. Stored(c) => compared[c] + 1 <= Earlier(c) + Round
      BY <1>n, <3>1, <3>4, <3>6, AttemptsAreNat DEF Round
    <3> QED
      BY <1>n, <2>2, <2>6, <3>4, <3>5, <3>6, <3>7, <3>8 DEF Guessed
  <2> QED
    BY <2>7, <2>8
<1>6. ASSUME NEW v \in Verifiers, ver[v].seen = c, CountFailure(v) PROVE Guessed(c)'
  <2>1. /\ UNCHANGED <<otp, compared, gen>> /\ ver[v].at = "wrong" /\ VerAt(v, Idle)
        /\ v \in At(Pending, c) /\ v \notin At(Ahead, c)
    BY <1>6 DEF CountFailure, At, Ahead, Pending
  <2>2. attempts' = [attempts EXCEPT ![c] = IF attempts[c] = Absent THEN 1 ELSE attempts[c] + 1]
    BY <1>0, <1>6 DEF CountFailure, Applied
  <2>3. Count(c)' = Count(c) + 1
    <3>1. attempts'[c] = IF attempts[c] = Absent THEN 1 ELSE attempts[c] + 1
      BY <2>2 DEF TypeOK
    <3>2. attempts[c] \in Nat \/ attempts[c] = Absent
      BY DEF TypeOK
    <3> QED
      BY <3>1, <3>2 DEF Count
  <2>4. At(Pending, c)' = At(Pending, c) \ {v} /\ At(Ahead, c)' = At(Ahead, c)
    <3>1. Idle.at \notin Pending /\ Idle.at \notin Ahead
      BY DEF Idle, Pending, Ahead
    <3> QED
      BY <2>1, <3>1, AtMoves
  <2>5. Cardinality(At(Pending, c)') = pending - 1
    BY <2>1, <2>4, ReadersFinite DEF pending
  <2>6. (Stored(c)' => Stored(c)) /\ Earlier(c)' = Earlier(c)
    BY <2>1 DEF Stored, Earlier, NotReset
  <2> QED
    BY <1>n, <2>1, <2>3, <2>4, <2>5, <2>6 DEF Guessed, pending
<1>7. ASSUME NEW v \in Verifiers, ver[v].seen = c, DeleteCode(v) PROVE Guessed(c)'
  <2>1. /\ compared' = compared /\ VerAt(v, Idle) /\ v \notin At(Ahead, c)
    BY <1>7 DEF DeleteCode, At, Ahead
  <2>2. At(Ahead, c)' = At(Ahead, c)
    <3>1. Idle.at \notin Ahead
      BY DEF Idle, Ahead
    <3> QED
      BY <2>1, <3>1, AtMoves
  <2>3. ~Stored(c)'
    BY <1>7, DeleteTakes
  <2> QED
    BY <2>1, <2>2, <2>3 DEF Guessed
<1> QED
  BY <1>1, <1>2, <1>3, <1>4, <1>5, <1>6, <1>7, WhoTouches DEF CodesInv

\* However generations and verifications race, no more than two rounds of guesses, and
\* those already begun, are compared with one code, for any number of requests and any
\* limit, as long as no command fails.
THEOREM FewGuesses == ASSUME Faults = {} PROVE Spec => []GuessesBounded
<1> DEFINE GuessInv == \A c \in Codes : Guessed(c)
<1>1. TypeOK /\ Init => GuessInv
  <2> SUFFICES ASSUME TypeOK, Init, NEW c \in Codes PROVE Guessed(c)
    OBVIOUS
  <2>1. At(Ahead, c) = {} /\ compared[c] = 0 /\ ~Stored(c)
    BY NoCodeIsNone DEF Init, At, Ahead, Stored
  <2>2. Cardinality(At(Ahead, c)) = 0
    BY <2>1, FS_EmptySet
  <2> QED
    BY <2>1, <2>2, GuessNumbers, AttemptsAreNat DEF Guessed, Round
<1>2. TypeOK /\ CodesInv /\ PurposeInv /\ GuessInv /\ [Next]_vars => GuessInv'
  BY GuessedStep
<1>3. TypeOK /\ GuessInv => GuessesBounded
  <2> SUFFICES ASSUME TypeOK, GuessInv, NEW c \in Codes
               PROVE  compared[c] <= 2 * Round + Cardinality(Verifiers)
    BY DEF GuessesBounded, Round
  <2> QED
    BY GuessNumbers, ReadersFinite DEF Guessed
<1> QED
  BY <1>1, <1>2, <1>3, TypeCorrect, CodesInvariant, PurposeInvariant, PTL DEF Spec

=============================================================================
