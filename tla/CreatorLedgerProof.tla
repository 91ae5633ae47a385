------------------------- MODULE CreatorLedgerProof --------------------------
(***************************************************************************)
(* Theorems about CreatorLedger, for all sets of creators and requests,    *)
(* all amounts, fees and thresholds.                                       *)
(***************************************************************************)
EXTENDS MCCreatorLedger, FiniteSetTheorems, WellFoundedInduction, TLAPS

(***************************************************************************)
(* What a tip credits is an integer, and a natural number if the tip is:   *)
(* the fee of a natural number is at most the number.                      *)
(***************************************************************************)
LEMMA NetIsInt ==
    ASSUME NEW gross \in Int
    PROVE  Net(gross) \in Int
<1> DEFINE product == gross * PlatformFeePct
<1>1. PlatformFeePct \in Int
  BY FeeIsPercentage
<1>2. product \in Int
  BY <1>1
<1> HIDE DEF product
<1>3. product \div 100 \in Int
  BY <1>2
<1> QED
  BY <1>3 DEF Net, product

LEMMA NetIsNat ==
    ASSUME NEW gross \in Nat
    PROVE  Net(gross) \in Nat
<1>1. PlatformFeePct \in Int /\ 0 <= PlatformFeePct /\ PlatformFeePct <= 100
  BY FeeIsPercentage
<1> DEFINE product == gross * PlatformFeePct
<1>2. product \in Int /\ 0 <= product /\ product <= gross * 100
  BY <1>1, SMTT(30)
<1> HIDE DEF product
<1>3. (product \div 100) \in Int /\ product \div 100 <= gross
  BY <1>1, <1>2, SMTT(30)
<1>4. gross - (product \div 100) \in Nat
  BY <1>1, <1>3
<1> QED
  BY <1>4 DEF Net, product

-----------------------------------------------------------------------------
(***************************************************************************)
(* The type invariant is inductive together with what a started request    *)
(* knows: its creator is a creator, a tip's or manual payout's amount is   *)
(* one a client sends, and a payout goes on only above the threshold; a    *)
(* request that has not started names nobody.                              *)
(***************************************************************************)
LocalsOK ==
    /\ \A r \in Requests : pc[r] = "idle" => creator[r] = NoCreator
    /\ \A r \in Requests : pc[r] # "idle" => creator[r] \in Creators
    /\ \A r \in Tips \cup Manuals : pc[r] # "idle" => amount[r] \in Amounts
    /\ \A p \in Payouts :
        pc[p] \in {"deduct", "insert", "send"} => amount[p] >= PayoutThreshold

TypeInv == TypeOK /\ LocalsOK

USE DEF Requests, PayoutRequests, Outcomes, Stages, Statuses, locals

LEMMA TypeInit == Init => TypeInv
BY NoCreatorIsNone DEF Init, TypeInv, TypeOK, LocalsOK

LEMMA TypeStep == TypeInv /\ [Next]_vars => TypeInv'
<1> USE AmountsAreInt, FaultsAreKnown, RequestsDisjoint, ThresholdIsNat
<1> SUFFICES ASSUME TypeInv, [Next]_vars PROVE TypeOK' /\ LocalsOK'
  BY DEF TypeInv
<1>1. ASSUME NEW t \in Tips, TipRecord(t) PROVE TypeOK' /\ LocalsOK'
  BY <1>1 DEF TypeInv, TypeOK, LocalsOK, TipRecord, Goto, Applied
<1>2. ASSUME NEW t \in Tips, TipCredit(t) PROVE TypeOK' /\ LocalsOK'
  <2>1. creator[t] \in Creators /\ Net(amount[t]) \in Int
    BY <1>2, NetIsInt DEF TypeInv, LocalsOK, TipCredit
  <2>2. TypeOK'
    BY <1>2, <2>1 DEF TypeInv, TypeOK, TipCredit
  <2>3. LocalsOK'
    BY <1>2 DEF TypeInv, TypeOK, LocalsOK, TipCredit
  <2> QED
    BY <2>2, <2>3
<1>3. ASSUME NEW t \in Tips, IssueRefund(t) PROVE TypeOK' /\ LocalsOK'
  BY <1>3 DEF TypeInv, TypeOK, LocalsOK, IssueRefund
<1>4. ASSUME NEW p \in Payouts, PayoutRead(p) PROVE TypeOK' /\ LocalsOK'
  <2>1. PICK c \in Creators, balance \in Int :
          /\ creator' = [creator EXCEPT ![p] = c]
          /\ amount' = [amount EXCEPT ![p] = balance]
          /\ Proceed(p, c, IF balance < PayoutThreshold THEN "refused" ELSE "deduct")
    <3>1. \A c \in Creators \cup {NoCreator}, o \in Outcomes : BalanceRead(c, o) \in Int
      BY DEF TypeInv, TypeOK, BalanceRead
    <3> QED
      BY <1>4, <3>1 DEF PayoutRead
  <2>2. UNCHANGED <<ledger, txn, payout, paypal, debit, credited, paid>>
    BY <1>4 DEF PayoutRead
  <2>3. /\ pc' = [pc EXCEPT ![p] = IF balance < PayoutThreshold THEN "refused" ELSE "deduct"]
        /\ raced' \subseteq Creators
    BY <2>1 DEF Proceed, TypeInv, TypeOK
  <2>4. TypeOK'
    BY <2>1, <2>2, <2>3 DEF TypeInv, TypeOK
  <2>5. LocalsOK'
    BY <2>1, <2>2, <2>3 DEF TypeInv, TypeOK, LocalsOK
  <2> QED
    BY <2>4, <2>5
<1>5. ASSUME NEW p \in Payouts, PayoutDeduct(p) PROVE TypeOK' /\ LocalsOK'
  <2>1. creator[p] \in Creators /\ amount[p] \in Int
    BY <1>5 DEF TypeInv, TypeOK, LocalsOK, PayoutDeduct
  <2>2. ledger' \in [Creators -> [balance : Int, lifetime : Int, pending : Int]]
    <3>1. \/ ledger' = ledger
          \/ ledger' = [ledger EXCEPT ![creator[p]].balance = 0,
                                ![creator[p]].pending = ledger[creator[p]].balance]
      BY <1>5 DEF PayoutDeduct
    <3> QED
      BY <2>1, <3>1 DEF TypeInv, TypeOK
  <2>3. debit' \in [Requests -> Int]
    BY <1>5, <2>1 DEF TypeInv, TypeOK, PayoutDeduct
  <2>4. pc' \in [Requests -> Stages]
    BY <1>5 DEF TypeInv, TypeOK, PayoutDeduct, Goto
  <2>5. UNCHANGED <<txn, payout, paypal, creator, amount, credited, paid, raced>>
    BY <1>5 DEF PayoutDeduct
  <2>6. TypeOK'
    BY <2>2, <2>3, <2>4, <2>5 DEF TypeInv, TypeOK
  <2>7. LocalsOK'
    BY <1>5 DEF TypeInv, TypeOK, LocalsOK, PayoutDeduct, Goto
  <2> QED
    BY <2>6, <2>7
<1>6. ASSUME NEW p \in Payouts, PayoutInsert(p) PROVE TypeOK' /\ LocalsOK'
  <2>1. creator[p] \in Creators /\ amount[p] \in Int /\ debit[p] \in Int
    BY <1>6 DEF TypeInv, TypeOK, LocalsOK, PayoutInsert
  <2>2. payout' \in [PayoutRequests -> [status : Statuses, amount : Int]]
    <3> DEFINE row == [status |-> "pending", amount |-> amount[p]]
    <3>1. row \in [status : Statuses, amount : Int]
      BY <2>1
    <3>2. payout' = payout \/ payout' = [payout EXCEPT ![p] = row]
      BY <1>6 DEF PayoutInsert
    <3> HIDE DEF row
    <3> QED
      BY <3>1, <3>2 DEF TypeInv, TypeOK
  <2>3. paid' \in [Creators -> Int]
    BY <1>6, <2>1 DEF TypeInv, TypeOK, PayoutInsert
  <2>4. pc' \in [Requests -> Stages]
    BY <1>6 DEF TypeInv, TypeOK, PayoutInsert, Goto
  <2>5. UNCHANGED <<ledger, txn, paypal, creator, amount, debit, credited, raced>>
    BY <1>6 DEF PayoutInsert
  <2>6. TypeOK'
    BY <2>2, <2>3, <2>4, <2>5 DEF TypeInv, TypeOK
  <2>7. LocalsOK'
    BY <1>6 DEF TypeInv, TypeOK, LocalsOK, PayoutInsert, Goto
  <2> QED
    BY <2>6, <2>7
<1>7. ASSUME NEW p \in Payouts, PayoutSend(p) PROVE TypeOK' /\ LocalsOK'
  BY <1>7 DEF TypeInv, TypeOK, LocalsOK, PayoutSend
<1>8. ASSUME NEW m \in Manuals, ManualRead(m) PROVE TypeOK' /\ LocalsOK'
  <2>1. PICK c \in Creators, a \in Amounts, stage \in {"deduct", "insert"} :
          /\ creator' = [creator EXCEPT ![m] = c]
          /\ amount' = [amount EXCEPT ![m] = a]
          /\ Proceed(m, c, stage)
    BY <1>8 DEF ManualRead
  <2>2. UNCHANGED <<ledger, txn, payout, paypal, debit, credited, paid>>
    BY <1>8 DEF ManualRead
  <2>3. pc' = [pc EXCEPT ![m] = stage] /\ raced' \subseteq Creators
    BY <2>1 DEF Proceed, TypeInv, TypeOK
  <2>4. TypeOK'
    BY <2>1, <2>2, <2>3 DEF TypeInv, TypeOK
  <2>5. LocalsOK'
    BY <2>1, <2>2, <2>3 DEF TypeInv, TypeOK, LocalsOK
  <2> QED
    BY <2>4, <2>5
<1>9. ASSUME NEW m \in Manuals, ManualDeduct(m) PROVE TypeOK' /\ LocalsOK'
  <2>1. creator[m] \in Creators /\ amount[m] \in Int
    BY <1>9 DEF TypeInv, TypeOK, LocalsOK, ManualDeduct
  <2>2. ledger' \in [Creators -> [balance : Int, lifetime : Int, pending : Int]]
    <3>1. \/ ledger' = ledger
          \/ ledger' = [ledger EXCEPT ![creator[m]].balance = @ - amount[m],
                                ![creator[m]].pending = @ + amount[m]]
      BY <1>9 DEF ManualDeduct
    <3> QED
      BY <2>1, <3>1 DEF TypeInv, TypeOK
  <2>3. debit' \in [Requests -> Int]
    BY <1>9, <2>1 DEF TypeInv, TypeOK, ManualDeduct
  <2>4. pc' \in [Requests -> Stages]
    BY <1>9 DEF TypeInv, TypeOK, ManualDeduct, Goto
  <2>5. UNCHANGED <<txn, payout, paypal, creator, amount, credited, paid, raced>>
    BY <1>9 DEF ManualDeduct
  <2>6. TypeOK'
    BY <2>2, <2>3, <2>4, <2>5 DEF TypeInv, TypeOK
  <2>7. LocalsOK'
    BY <1>9 DEF TypeInv, TypeOK, LocalsOK, ManualDeduct, Goto
  <2> QED
    BY <2>6, <2>7
<1>10. ASSUME NEW m \in Manuals, ManualInsert(m) PROVE TypeOK' /\ LocalsOK'
  <2>1. creator[m] \in Creators /\ amount[m] \in Int /\ debit[m] \in Int
    BY <1>10 DEF TypeInv, TypeOK, LocalsOK, ManualInsert
  <2>2. payout' \in [PayoutRequests -> [status : Statuses, amount : Int]]
    <3> DEFINE row == [status |-> "pending_manual", amount |-> amount[m]]
    <3>1. row \in [status : Statuses, amount : Int]
      BY <2>1
    <3>2. payout' = payout \/ payout' = [payout EXCEPT ![m] = row]
      BY <1>10 DEF ManualInsert
    <3> HIDE DEF row
    <3> QED
      BY <3>1, <3>2 DEF TypeInv, TypeOK
  <2>3. paid' \in [Creators -> Int]
    BY <1>10, <2>1 DEF TypeInv, TypeOK, ManualInsert
  <2>4. pc' \in [Requests -> Stages]
    BY <1>10 DEF TypeInv, TypeOK, ManualInsert, Goto
  <2>5. UNCHANGED <<ledger, txn, paypal, creator, amount, debit, credited, raced>>
    BY <1>10 DEF ManualInsert
  <2>6. TypeOK'
    BY <2>2, <2>3, <2>4, <2>5 DEF TypeInv, TypeOK
  <2>7. LocalsOK'
    BY <1>10 DEF TypeInv, TypeOK, LocalsOK, ManualInsert, Goto
  <2> QED
    BY <2>6, <2>7
<1>11. CASE UNCHANGED vars
  BY <1>11 DEF TypeInv, TypeOK, LocalsOK, vars
<1> QED
  BY <1>1, <1>2, <1>3, <1>4, <1>5, <1>6, <1>7, <1>8, <1>9, <1>10, <1>11
  DEF Next, TipStep, PayoutStep, ManualStep

(***************************************************************************)
(* Every reachable state is well typed, whatever requests interleave.      *)
(***************************************************************************)
THEOREM TypeCorrect == Spec => []TypeOK
<1>1. TypeInv => TypeOK
  BY DEF TypeInv
<1> QED
  BY TypeInit, TypeStep, <1>1, PTL DEF Spec

LEMMA TypeInvariant == Spec => []TypeInv
BY TypeInit, TypeStep, PTL DEF Spec

-----------------------------------------------------------------------------
(***************************************************************************)
(* What each action does to a creator's row, for the proofs below.         *)
(***************************************************************************)
LEMMA TipCreditEffect ==
    ASSUME TypeInv, NEW t \in Tips, TipCredit(t), NEW c \in Creators
    PROVE  \E n \in Int :
            /\ ledger'[c].balance = ledger[c].balance + n
            /\ ledger'[c].lifetime = ledger[c].lifetime + n
            /\ ledger'[c].pending = ledger[c].pending
            /\ n # 0 => c = creator[t]
            /\ ~NegativeTip(c) => n >= 0
<1>1. creator[t] \in Creators /\ Net(amount[t]) \in Int /\ amount[t] \in Int
  BY NetIsInt DEF TypeInv, TypeOK, LocalsOK, TipCredit
<1>2. \/ ledger' = ledger
      \/ ledger' = [ledger EXCEPT ![creator[t]].balance = @ + Net(amount[t]),
                                  ![creator[t]].lifetime = @ + Net(amount[t])]
  BY DEF TipCredit
<1>3. ledger \in [Creators -> [balance : Int, lifetime : Int, pending : Int]]
  BY DEF TypeInv, TypeOK
<1>4. CASE ledger' = ledger \/ c # creator[t]
  <2>1. /\ ledger'[c].balance = ledger[c].balance + 0
        /\ ledger'[c].lifetime = ledger[c].lifetime + 0
        /\ ledger'[c].pending = ledger[c].pending
    <3>1. ledger'[c] = ledger[c]
      BY <1>1, <1>2, <1>3, <1>4
    <3> QED
      BY <1>3, <3>1
  <2> QED
    BY <2>1
<1>5. CASE ledger' # ledger /\ c = creator[t]
  <2>1. ledger'[c] = [ledger[c] EXCEPT !.balance = ledger[c].balance + Net(amount[t]),
                                       !.lifetime = ledger[c].lifetime + Net(amount[t])]
    BY <1>2, <1>3, <1>5
  <2>2. ~NegativeTip(c) => Net(amount[t]) >= 0
    <3>1. ~NegativeTip(c) => amount[t] \in Nat
      BY <1>1, <1>5 DEF NegativeTip
    <3> QED
      BY <3>1, NetIsNat
  <2>3. ledger[c] \in [balance : Int, lifetime : Int, pending : Int]
    BY <1>3
  <2> QED
    BY <1>1, <1>5, <2>1, <2>2, <2>3
<1> QED
  BY <1>4, <1>5

LEMMA PayoutDeductEffect ==
    ASSUME TypeInv, NEW p \in Payouts, PayoutDeduct(p), NEW c \in Creators
    PROVE  /\ ledger'[c].lifetime = ledger[c].lifetime
           /\ \/ /\ ledger'[c].balance = ledger[c].balance
                 /\ ledger'[c].pending = ledger[c].pending
              \/ /\ c = creator[p]
                 /\ ledger'[c].balance = 0
                 /\ ledger'[c].pending = ledger[c].balance
<1>1. creator[p] \in Creators
  BY DEF TypeInv, LocalsOK, PayoutDeduct
<1>2. \/ ledger' = ledger
      \/ ledger' = [ledger EXCEPT ![creator[p]].balance = 0,
                                  ![creator[p]].pending = ledger[creator[p]].balance]
  BY DEF PayoutDeduct
<1>3. ledger \in [Creators -> [balance : Int, lifetime : Int, pending : Int]]
  BY DEF TypeInv, TypeOK
<1>4. CASE ledger' = ledger
  BY <1>4
<1>5. CASE ledger' # ledger /\ c = creator[p]
  <2>1. ledger'[c] = [ledger[c] EXCEPT !.balance = 0, !.pending = ledger[c].balance]
    BY <1>2, <1>3, <1>5
  <2>2. ledger[c] \in [balance : Int, lifetime : Int, pending : Int]
    BY <1>3
  <2> QED
    BY <1>5, <2>1, <2>2
<1>6. CASE ledger' # ledger /\ c # creator[p]
  <2>1. ledger'[c] = ledger[c]
    BY <1>1, <1>2, <1>3, <1>6
  <2> QED
    BY <2>1
<1> QED
  BY <1>4, <1>5, <1>6

LEMMA ManualDeductEffect ==
    ASSUME TypeInv, NEW m \in Manuals, ManualDeduct(m), NEW c \in Creators
    PROVE  /\ ledger'[c].lifetime = ledger[c].lifetime
           /\ \/ /\ ledger'[c].balance = ledger[c].balance
                 /\ ledger'[c].pending = ledger[c].pending
              \/ /\ c = creator[m]
                 /\ ledger'[c].balance = ledger[c].balance - amount[m]
                 /\ ledger'[c].pending = ledger[c].pending + amount[m]
<1>1. creator[m] \in Creators
  BY DEF TypeInv, LocalsOK, ManualDeduct
<1>2. \/ ledger' = ledger
      \/ ledger' = [ledger EXCEPT ![creator[m]].balance = @ - amount[m],
                                  ![creator[m]].pending = @ + amount[m]]
  BY DEF ManualDeduct
<1>3. ledger \in [Creators -> [balance : Int, lifetime : Int, pending : Int]]
  BY DEF TypeInv, TypeOK
<1>4. CASE ledger' = ledger
  BY <1>4
<1>5. CASE ledger' # ledger /\ c = creator[m]
  <2>1. ledger'[c] = [ledger[c] EXCEPT !.balance = ledger[c].balance - amount[m], !.pending = ledger[c].pending + amount[m]]
    BY <1>2, <1>3, <1>5
  <2>2. ledger[c] \in [balance : Int, lifetime : Int, pending : Int]
    BY <1>3
  <2> QED
    BY <1>5, <2>1, <2>2
<1>6. CASE ledger' # ledger /\ c # creator[m]
  <2>1. ledger'[c] = ledger[c]
    BY <1>1, <1>2, <1>3, <1>6
  <2> QED
    BY <2>1
<1> QED
  BY <1>4, <1>5, <1>6

\* What TypeInv says of the numbers a proof about the rows needs.
LEMMA Numbers ==
    ASSUME TypeInv
    PROVE  /\ \A c \in Creators : /\ ledger[c].balance \in Int
                                  /\ ledger[c].lifetime \in Int
                                  /\ ledger[c].pending \in Int
                                  /\ paid[c] \in Int
           /\ \A r \in PayoutRequests : /\ amount[r] \in Int
                                        /\ debit[r] \in Int
                                        /\ pc[r] # "idle" => creator[r] \in Creators
BY DEF TypeInv, TypeOK, LocalsOK

LEMMA InitialRows ==
    ASSUME Init, NEW c \in Creators
    PROVE  ledger[c].balance = 0 /\ ledger[c].lifetime = 0 /\ ledger[c].pending = 0
<1>1. ledger[c] = [balance |-> 0, lifetime |-> 0, pending |-> 0]
  BY DEF Init
<1> QED
  BY <1>1

\* Only three actions write creator_ledger.
LEMMA LedgerWriters ==
    ASSUME [Next]_vars
    PROVE  \/ UNCHANGED ledger
           \/ \E t \in Tips : TipCredit(t)
           \/ \E p \in Payouts : PayoutDeduct(p)
           \/ \E m \in Manuals : ManualDeduct(m)
BY DEF Next, TipStep, PayoutStep, ManualStep, TipRecord, IssueRefund, PayoutRead,
       PayoutInsert, PayoutSend, ManualRead, ManualInsert, vars

-----------------------------------------------------------------------------
(***************************************************************************)
(* A request keeps its creator and its amount once it has started, and a   *)
(* race is not forgotten: who is careful was so before.                    *)
(***************************************************************************)
LEMMA CausesStay ==
    ASSUME TypeInv, [Next]_vars
    PROVE  /\ \A c \in Creators : NegativeTip(c) => NegativeTip(c)'
           /\ \A c \in Creators : NegativeManual(c) => NegativeManual(c)'
           /\ Unsigned' \subseteq Unsigned
           /\ Careful' \subseteq Careful
<1> USE RequestsDisjoint
<1>1. ASSUME NEW r \in Tips \cup Manuals, pc[r] # "idle"
      PROVE  creator'[r] = creator[r] /\ amount'[r] = amount[r]
  <2>1. CASE \E t \in Tips : TipStep(t)
    BY <1>1, <2>1 DEF TipStep, TipRecord, TipCredit, IssueRefund, TypeInv, TypeOK
  <2>2. CASE \E p \in Payouts : PayoutStep(p)
    BY <1>1, <2>2
    DEF PayoutStep, PayoutRead, PayoutDeduct, PayoutInsert, PayoutSend, TypeInv, TypeOK
  <2>3. CASE \E m \in Manuals : ManualStep(m)
    BY <1>1, <2>3 DEF ManualStep, ManualRead, ManualDeduct, ManualInsert, TypeInv, TypeOK
  <2> QED
    BY <2>1, <2>2, <2>3 DEF Next, vars
<1>2. raced \subseteq raced'
  BY DEF Next, TipStep, TipRecord, TipCredit, IssueRefund, PayoutStep, PayoutRead, Proceed,
         PayoutDeduct, PayoutInsert, PayoutSend, ManualStep, ManualRead, ManualDeduct,
         ManualInsert, vars
<1>3. ASSUME NEW r \in Tips \cup Manuals, creator[r] \in Creators PROVE pc[r] # "idle"
  BY <1>3, NoCreatorIsNone DEF TypeInv, LocalsOK
<1>4. ASSUME NEW c \in Creators, NegativeTip(c) PROVE NegativeTip(c)'
  BY <1>1, <1>3, <1>4 DEF NegativeTip
<1>5. ASSUME NEW c \in Creators, NegativeManual(c) PROVE NegativeManual(c)'
  BY <1>1, <1>3, <1>5 DEF NegativeManual
<1>6. Unsigned' \subseteq Unsigned
  BY <1>4, <1>5 DEF Unsigned
<1>7. Careful' \subseteq Careful
  BY <1>2, <1>6 DEF Careful
<1> QED
  BY <1>4, <1>5, <1>6, <1>7

-----------------------------------------------------------------------------
(***************************************************************************)
(* No interleaving and no failed or half-answered statement makes a row    *)
(* show more money than the creator earned: SendTip raises balance and     *)
(* lifetime together, AdminTriggerPayout moves an amount from balance to   *)
(* pending, and what ProcessPayout writes into pending is the balance.     *)
(* Only a negative amount moves money the other way; the 0 ProcessPayout   *)
(* writes into the balance is no gain while the lifetime is not below 0.   *)
(***************************************************************************)
BoundedInv ==
    /\ LedgerBounded
    /\ \A c \in Unsigned : ledger[c].lifetime >= 0

LEMMA BoundedInvariant == Spec => []BoundedInv
<1>1. Init => BoundedInv
  <2> SUFFICES ASSUME Init, NEW c \in Unsigned
               PROVE  /\ ledger[c].balance <= ledger[c].lifetime
                      /\ ledger[c].balance + ledger[c].pending <= ledger[c].lifetime
                      /\ ledger[c].lifetime >= 0
    BY DEF BoundedInv, LedgerBounded
  <2>1. ledger[c].balance = 0 /\ ledger[c].lifetime = 0 /\ ledger[c].pending = 0
    BY InitialRows DEF Unsigned
  <2> QED
    BY <2>1
<1>2. TypeInv /\ BoundedInv /\ [Next]_vars => BoundedInv'
  <2> SUFFICES ASSUME TypeInv, BoundedInv, [Next]_vars, NEW c \in Unsigned'
               PROVE  /\ ledger'[c].balance <= ledger'[c].lifetime
                      /\ ledger'[c].balance + ledger'[c].pending <= ledger'[c].lifetime
                      /\ ledger'[c].lifetime >= 0
    BY DEF BoundedInv, LedgerBounded
  <2>0. c \in Unsigned /\ c \in Creators /\ ~NegativeTip(c) /\ ~NegativeManual(c)
    BY CausesStay DEF Unsigned
  <2>1. /\ ledger[c].balance \in Int
        /\ ledger[c].pending \in Int
        /\ ledger[c].lifetime \in Int
    BY <2>0, Numbers
  <2>2. /\ ledger[c].balance <= ledger[c].lifetime
        /\ ledger[c].balance + ledger[c].pending <= ledger[c].lifetime
        /\ ledger[c].lifetime >= 0
    BY <2>0 DEF BoundedInv, LedgerBounded
  <2>3. CASE UNCHANGED ledger
    BY <2>2, <2>3
  <2>4. ASSUME NEW t \in Tips, TipCredit(t)
        PROVE  /\ ledger'[c].balance <= ledger'[c].lifetime
               /\ ledger'[c].balance + ledger'[c].pending <= ledger'[c].lifetime
               /\ ledger'[c].lifetime >= 0
    BY <2>0, <2>1, <2>2, <2>4, TipCreditEffect
  <2>5. ASSUME NEW p \in Payouts, PayoutDeduct(p)
        PROVE  /\ ledger'[c].balance <= ledger'[c].lifetime
               /\ ledger'[c].balance + ledger'[c].pending <= ledger'[c].lifetime
               /\ ledger'[c].lifetime >= 0
    BY <2>0, <2>1, <2>2, <2>5, PayoutDeductEffect
  <2>6. ASSUME NEW m \in Manuals, ManualDeduct(m)
        PROVE  /\ ledger'[c].balance <= ledger'[c].lifetime
               /\ ledger'[c].balance + ledger'[c].pending <= ledger'[c].lifetime
               /\ ledger'[c].lifetime >= 0
    <3>1. amount[m] \in Int /\ (c = creator[m] => amount[m] >= 0)
      BY <2>0, <2>6 DEF TypeInv, TypeOK, NegativeManual
    <3> QED
      BY <2>0, <2>1, <2>2, <2>6, <3>1, ManualDeductEffect
  <2> QED
    BY <2>3, <2>4, <2>5, <2>6, LedgerWriters
<1> QED
  BY <1>1, <1>2, TypeInvariant, PTL DEF Spec

\* Whatever races and whatever fails, no row of a creator for whom no negative amount
\* was sent shows more than the creator earned.
THEOREM Bounded == Spec => []LedgerBounded
<1>1. BoundedInv => LedgerBounded
  BY DEF BoundedInv
<1> QED
  BY <1>1, BoundedInvariant, PTL

-----------------------------------------------------------------------------
(***************************************************************************)
(* The careful creators: no two payouts of theirs were under way at once   *)
(* and nobody sent a negative amount.  The invariant follows a payout      *)
(* request of theirs: the amount it is about to deduct is still in the     *)
(* balance, and what it deducted is not yet in a payouts row but already   *)
(* out of the balance.                                                     *)
(***************************************************************************)
OneUnderway ==
    \A r1, r2 \in PayoutRequests :
        (Underway(r1) /\ Underway(r2) /\ creator[r1] = creator[r2] /\ creator[r1] \notin raced)
            => r1 = r2

NothingTaken == \A r \in PayoutRequests : pc[r] \in {"idle", "deduct"} => debit[r] = 0

DeductionCovered ==
    \A r \in PayoutRequests :
        pc[r] = "deduct" /\ creator[r] \in Careful =>
            0 <= amount[r] /\ amount[r] <= ledger[creator[r]].balance

InsertionCovered ==
    \A r \in PayoutRequests :
        pc[r] = "insert" /\ creator[r] \in Careful =>
            /\ debit[r] >= 0
            /\ paid[creator[r]] + debit[r] + ledger[creator[r]].balance
                    <= ledger[creator[r]].lifetime

PendingNonNegative == \A c \in Careful : ledger[c].pending >= 0

CarefulInv ==
    /\ OneUnderway
    /\ NothingTaken
    /\ DeductionCovered
    /\ InsertionCovered
    /\ NoOverpay
    /\ OverdrawnOnlyByRaces
    /\ PendingNonNegative

LEMMA CarefulAreCreators == Careful \subseteq Creators /\ Careful \cap raced = {}
BY DEF Careful, Unsigned

LEMMA CarefulInit == Init => CarefulInv
<1> SUFFICES ASSUME Init PROVE CarefulInv
  OBVIOUS
<1>1. ASSUME NEW c \in Careful
      PROVE  /\ ledger[c].balance = 0 /\ ledger[c].lifetime = 0
             /\ ledger[c].pending = 0 /\ paid[c] = 0
  <2>1. c \in Creators
    BY CarefulAreCreators
  <2>2. paid[c] = 0
    BY <2>1 DEF Init
  <2> QED
    BY <2>1, <2>2, InitialRows
<1>2. NoOverpay /\ OverdrawnOnlyByRaces /\ PendingNonNegative
  BY <1>1 DEF NoOverpay, OverdrawnOnlyByRaces, PendingNonNegative
<1>3. \A r \in PayoutRequests : pc[r] = "idle" /\ debit[r] = 0
  BY DEF Init
<1> QED
  BY <1>2, <1>3 DEF CarefulInv, OneUnderway, Underway, NothingTaken, DeductionCovered,
                    InsertionCovered

\* A step of another kind of request: rows only gain, payout requests stay put.
LEMMA CarefulFrame ==
    ASSUME TypeInv, CarefulInv, Careful' \subseteq Careful,
           \A c \in Careful' : \E n \in Nat :
                /\ ledger'[c].balance = ledger[c].balance + n
                /\ ledger'[c].lifetime = ledger[c].lifetime + n
                /\ ledger'[c].pending = ledger[c].pending,
           UNCHANGED <<paid, debit, raced>>,
           \A r \in PayoutRequests : /\ pc'[r] = pc[r]
                                     /\ creator'[r] = creator[r]
                                     /\ amount'[r] = amount[r]
    PROVE  CarefulInv'
<1>1. OneUnderway' /\ NothingTaken'
  BY DEF CarefulInv, OneUnderway, Underway, NothingTaken
<1>2. DeductionCovered'
  <2> SUFFICES ASSUME NEW r \in PayoutRequests, pc[r] = "deduct", creator[r] \in Careful'
               PROVE  0 <= amount[r] /\ amount[r] <= ledger'[creator[r]].balance
    BY DEF DeductionCovered
  <2>1. 0 <= amount[r] /\ amount[r] <= ledger[creator[r]].balance
    BY DEF CarefulInv, DeductionCovered
  <2> QED
    BY <2>1, Numbers
<1>3. InsertionCovered'
  <2> SUFFICES ASSUME NEW r \in PayoutRequests, pc[r] = "insert", creator[r] \in Careful'
               PROVE  /\ debit[r] >= 0
                      /\ paid[creator[r]] + debit[r] + ledger'[creator[r]].balance
                            <= ledger'[creator[r]].lifetime
    BY DEF InsertionCovered
  <2>1. /\ debit[r] >= 0
        /\ paid[creator[r]] + debit[r] + ledger[creator[r]].balance
                            <= ledger[creator[r]].lifetime
    BY DEF CarefulInv, InsertionCovered
  <2> QED
    BY <2>1, Numbers
<1>4. NoOverpay' /\ OverdrawnOnlyByRaces' /\ PendingNonNegative'
  <2> SUFFICES ASSUME NEW c \in Careful'
               PROVE  /\ paid[c] + ledger'[c].balance <= ledger'[c].lifetime
                      /\ ledger'[c].balance >= 0
                      /\ ledger'[c].pending >= 0
    BY DEF NoOverpay, OverdrawnOnlyByRaces, PendingNonNegative
  <2>1. c \in Creators /\ c \in Careful
    BY CarefulAreCreators
  <2> QED
    BY <2>1, Numbers DEF CarefulInv, NoOverpay, OverdrawnOnlyByRaces, PendingNonNegative
<1> QED
  BY <1>1, <1>2, <1>3, <1>4 DEF CarefulInv

\* The other requests stay put while request q takes a step.
OthersSame(q) ==
    \A r \in PayoutRequests \ {q} : /\ pc'[r] = pc[r]
                                    /\ creator'[r] = creator[r]
                                    /\ amount'[r] = amount[r]
                                    /\ debit'[r] = debit[r]

\* A request of a careful creator is the only one under way for them.
LEMMA OnlyOne ==
    ASSUME CarefulInv, NEW q \in PayoutRequests, Underway(q), creator[q] \notin raced,
           NEW r \in PayoutRequests \ {q}, Underway(r)
    PROVE  creator[r] # creator[q]
BY DEF CarefulInv, OneUnderway

\* A request reads a balance.
LEMMA CarefulRead ==
    ASSUME TypeInv, CarefulInv, TypeInv', Careful' \subseteq Careful,
           NEW q \in PayoutRequests, pc[q] = "idle", OthersSame(q),
           NEW stage \in {"refused", "deduct", "insert"},
           creator'[q] \in Creators, pc'[q] = stage, Proceed(q, creator'[q], stage),
           UNCHANGED <<ledger, paid, debit>>,
           pc'[q] = "deduct" /\ creator'[q] \in Careful' =>
                0 <= amount'[q] /\ amount'[q] <= ledger[creator'[q]].balance
    PROVE  CarefulInv'
<1>1. OneUnderway'
  <2> SUFFICES ASSUME NEW r1 \in PayoutRequests, NEW r2 \in PayoutRequests,
                      Underway(r1)', Underway(r2)', creator'[r1] = creator'[r2],
                      creator'[r1] \notin raced', r1 # r2
               PROVE  FALSE
    BY DEF OneUnderway
  <2>1. \A r \in PayoutRequests \ {q} : Underway(r)' => Underway(r) /\ creator'[r] = creator[r]
    BY DEF OthersSame, Underway
  <2>2. CASE r1 # q /\ r2 # q
    BY <2>1, <2>2 DEF CarefulInv, OneUnderway, Proceed
  <2>3. ASSUME NEW r \in PayoutRequests \ {q}, Underway(r)', Underway(q)',
               creator'[r] = creator'[q]
        PROVE  creator'[q] \in raced'
    BY <2>1, <2>3 DEF Proceed, Underway
  <2> QED
    BY <2>2, <2>3
<1>2. NothingTaken'
  BY DEF CarefulInv, NothingTaken, OthersSame
<1>3. DeductionCovered'
  BY DEF CarefulInv, DeductionCovered, OthersSame
<1>4. InsertionCovered'
  <2>1. \A r \in PayoutRequests \ {q} : pc'[r] = "insert" /\ creator'[r] \in Careful' =>
            /\ debit'[r] >= 0
            /\ paid'[creator'[r]] + debit'[r] + ledger'[creator'[r]].balance
                    <= ledger'[creator'[r]].lifetime
    BY DEF CarefulInv, InsertionCovered, OthersSame
  <2>2. debit'[q] = 0 /\ debit'[q] >= 0
    BY DEF CarefulInv, NothingTaken
  <2>3. creator'[q] \in Careful' =>
            paid[creator'[q]] + 0 + ledger[creator'[q]].balance <= ledger[creator'[q]].lifetime
    BY Numbers DEF CarefulInv, NoOverpay
  <2> QED
    BY <2>1, <2>2, <2>3 DEF InsertionCovered
<1>5. NoOverpay' /\ OverdrawnOnlyByRaces' /\ PendingNonNegative'
  BY DEF CarefulInv, NoOverpay, OverdrawnOnlyByRaces, PendingNonNegative
<1> QED
  BY <1>1, <1>2, <1>3, <1>4, <1>5 DEF CarefulInv

\* A request of a careful creator takes at least its debit out of the balance, and no
\* more than the balance; of another creator it may do anything.
LEMMA CarefulDeduct ==
    ASSUME TypeInv, CarefulInv, TypeInv', Careful' \subseteq Careful,
           NEW q \in PayoutRequests, pc[q] = "deduct", OthersSame(q),
           UNCHANGED <<paid, creator, amount, raced>>,
           \A c \in Careful :
                /\ ledger'[c].lifetime = ledger[c].lifetime
                /\ ledger'[c].pending >= 0
                /\ ledger'[c].balance >= 0
                /\ c # creator[q] => ledger'[c].balance = ledger[c].balance,
           creator[q] \in Careful =>
                /\ debit'[q] \in {0, amount[q]}
                /\ ledger'[creator[q]].balance <= ledger[creator[q]].balance - debit'[q],
           pc'[q] \in {"insert", "failed"}
    PROVE  CarefulInv'
<1> DEFINE d == creator[q]
<1>0. d \in Creators /\ amount[q] \in Int /\ (d \in Careful => amount[q] >= 0)
  BY Numbers DEF CarefulInv, DeductionCovered
<1>1. OneUnderway'
  BY DEF CarefulInv, OneUnderway, Underway, OthersSame
<1>n. NothingTaken'
  BY DEF CarefulInv, NothingTaken, OthersSame
<1>2. \A r \in PayoutRequests \ {q} : Underway(r) /\ creator[r] \in Careful => creator[r] # d
  BY OnlyOne, CarefulAreCreators DEF Underway
<1>3. DeductionCovered'
  <2>1. \A r \in PayoutRequests \ {q} : pc[r] = "deduct" /\ creator[r] \in Careful =>
            ledger'[creator[r]].balance = ledger[creator[r]].balance
    BY <1>2 DEF Underway
  <2> QED
    BY <2>1 DEF CarefulInv, DeductionCovered, OthersSame
<1>4. d \in Careful => paid[d] + debit'[q] + ledger'[d].balance <= ledger[d].lifetime
  <2> SUFFICES ASSUME d \in Careful
               PROVE  paid[d] + debit'[q] + ledger'[d].balance <= ledger[d].lifetime
    OBVIOUS
  <2>1. paid[d] + ledger[d].balance <= ledger[d].lifetime
    BY DEF CarefulInv, NoOverpay
  <2>2. ledger'[d].balance \in Int /\ debit'[q] \in Int
    BY <1>0 DEF TypeInv, TypeOK
  <2> QED
    BY <1>0, <2>1, <2>2, Numbers
<1>5. InsertionCovered'
  <2>1. \A r \in PayoutRequests \ {q} : pc[r] = "insert" /\ creator[r] \in Careful =>
            /\ ledger'[creator[r]].balance = ledger[creator[r]].balance
            /\ ledger'[creator[r]].lifetime = ledger[creator[r]].lifetime
    BY <1>2 DEF Underway
  <2>2. \A r \in PayoutRequests \ {q} : pc'[r] = "insert" /\ creator'[r] \in Careful' =>
            /\ debit'[r] >= 0
            /\ paid'[creator'[r]] + debit'[r] + ledger'[creator'[r]].balance
                    <= ledger'[creator'[r]].lifetime
    BY <2>1 DEF CarefulInv, InsertionCovered, OthersSame
  <2>3. d \in Careful =>
            /\ debit'[q] >= 0
            /\ paid'[d] + debit'[q] + ledger'[d].balance <= ledger'[d].lifetime
    BY <1>0, <1>4
  <2> QED
    BY <2>2, <2>3 DEF InsertionCovered
<1>6. NoOverpay'
  <2>1. \A c \in Careful : ledger'[c].balance <= ledger[c].balance
    <3>1. d \in Careful => ledger'[d].balance <= ledger[d].balance
      BY <1>0, Numbers DEF TypeInv, TypeOK
    <3>2. \A c \in Careful : c # d => ledger'[c].balance <= ledger[c].balance
      BY Numbers, CarefulAreCreators
    <3> QED
      BY <3>1, <3>2
  <2>2. \A c \in Creators : ledger'[c].balance \in Int
    BY DEF TypeInv, TypeOK
  <2> QED
    BY <2>1, <2>2, Numbers, CarefulAreCreators DEF CarefulInv, NoOverpay
<1>7. OverdrawnOnlyByRaces' /\ PendingNonNegative'
  BY DEF OverdrawnOnlyByRaces, PendingNonNegative
<1> QED
  BY <1>1, <1>n, <1>3, <1>5, <1>6, <1>7 DEF CarefulInv

\* A request moves its debit into a payouts row, or ends.
LEMMA CarefulInsert ==
    ASSUME TypeInv, CarefulInv, Careful' \subseteq Careful,
           NEW q \in PayoutRequests, pc[q] \in {"insert", "send"}, OthersSame(q),
           UNCHANGED <<ledger, creator, amount, debit, raced>>,
           \/ paid' = paid
           \/ pc[q] = "insert" /\ paid' = [paid EXCEPT ![creator[q]] = @ + debit[q]],
           pc'[q] \in {"send", "done", "failed"}
    PROVE  CarefulInv'
<1> DEFINE d == creator[q]
<1>0. d \in Creators
  BY Numbers
<1>1. OneUnderway'
  BY DEF CarefulInv, OneUnderway, Underway, OthersSame
<1>n. NothingTaken'
  BY DEF CarefulInv, NothingTaken, OthersSame
<1>2. pc[q] = "insert" =>
        \A r \in PayoutRequests \ {q} : Underway(r) /\ creator[r] \in Careful => creator[r] # d
  BY OnlyOne, CarefulAreCreators DEF Underway
<1>3. DeductionCovered'
  BY DEF CarefulInv, DeductionCovered, OthersSame
<1>4. \A c \in Creators : c # d \/ pc[q] # "insert" => paid'[c] = paid[c]
  BY <1>0 DEF TypeInv, TypeOK
<1>5. InsertionCovered'
  <2>1. \A r \in PayoutRequests \ {q} : pc[r] = "insert" /\ creator[r] \in Careful =>
            paid'[creator[r]] = paid[creator[r]]
    BY <1>2, <1>4, Numbers DEF Underway
  <2> QED
    BY <2>1 DEF CarefulInv, InsertionCovered, OthersSame
<1>6. NoOverpay'
  <2>1. d \in Careful => paid'[d] + ledger[d].balance <= ledger[d].lifetime
    <3>1. CASE paid' = paid
      BY <1>0, <3>1 DEF CarefulInv, NoOverpay
    <3>2. CASE pc[q] = "insert" /\ paid' = [paid EXCEPT ![d] = @ + debit[q]]
      <4>1. paid'[d] = paid[d] + debit[q]
        BY <1>0, <3>2 DEF TypeInv, TypeOK
      <4>2. d \in Careful => paid[d] + debit[q] + ledger[d].balance <= ledger[d].lifetime
        BY <3>2 DEF CarefulInv, InsertionCovered
      <4> QED
        BY <4>1, <4>2
    <3> QED
      BY <3>1, <3>2
  <2> QED
    BY <1>4, <2>1, CarefulAreCreators DEF CarefulInv, NoOverpay
<1>7. OverdrawnOnlyByRaces' /\ PendingNonNegative'
  BY DEF CarefulInv, OverdrawnOnlyByRaces, PendingNonNegative
<1> QED
  BY <1>1, <1>n, <1>3, <1>5, <1>6, <1>7 DEF CarefulInv

LEMMA CarefulStep ==
    ASSUME TypeInv, CarefulInv, [Next]_vars
    PROVE  CarefulInv'
<1> USE RequestsDisjoint
<1> DEFINE Gains == \A c \in Careful' : \E n \in Nat :
                /\ ledger'[c].balance = ledger[c].balance + n
                /\ ledger'[c].lifetime = ledger[c].lifetime + n
                /\ ledger'[c].pending = ledger[c].pending
<1>0. /\ \A c \in Creators : /\ ledger[c].balance \in Int
                             /\ ledger[c].lifetime \in Int
                             /\ ledger[c].pending \in Int
                             /\ paid[c] \in Int
      /\ \A r \in PayoutRequests : /\ amount[r] \in Int
                                   /\ debit[r] \in Int
                                   /\ pc[r] # "idle" => creator[r] \in Creators
  BY Numbers
<1>00. TypeInv' /\ Careful' \subseteq Careful /\ Careful \subseteq Creators
  BY TypeStep, CausesStay, CarefulAreCreators
<1>1. ASSUME UNCHANGED ledger PROVE Gains
  <2>1. \A c \in Careful' : /\ ledger'[c].balance = ledger[c].balance + 0
                            /\ ledger'[c].lifetime = ledger[c].lifetime + 0
                            /\ ledger'[c].pending = ledger[c].pending
    BY <1>0, <1>00, <1>1
  <2> QED
    BY <2>1
<1>2. ASSUME NEW t \in Tips, TipRecord(t) PROVE CarefulInv'
  <2>1. UNCHANGED <<ledger, paid, debit, raced>>
    BY <1>2 DEF TipRecord
  <2>2. \A r \in PayoutRequests : /\ pc'[r] = pc[r]
                                  /\ creator'[r] = creator[r]
                                  /\ amount'[r] = amount[r]
    BY <1>2 DEF TipRecord, Goto, TypeInv, TypeOK
  <2>3. Gains
    BY <1>1, <2>1
  <2> QED
    BY <1>00, <2>1, <2>2, <2>3, CarefulFrame
<1>3. ASSUME NEW t \in Tips, TipCredit(t) PROVE CarefulInv'
  <2>1. UNCHANGED <<paid, debit, raced>>
    BY <1>3 DEF TipCredit
  <2>2. \A r \in PayoutRequests : /\ pc'[r] = pc[r]
                                  /\ creator'[r] = creator[r]
                                  /\ amount'[r] = amount[r]
    BY <1>3 DEF TipCredit, TypeInv, TypeOK
  <2>3. Gains
    <3> SUFFICES ASSUME NEW c \in Careful'
                 PROVE  \E n \in Nat : /\ ledger'[c].balance = ledger[c].balance + n
                                       /\ ledger'[c].lifetime = ledger[c].lifetime + n
                                       /\ ledger'[c].pending = ledger[c].pending
      OBVIOUS
    <3>1. c \in Creators /\ ~NegativeTip(c)
      BY <1>00 DEF Careful, Unsigned
    <3>2. PICK n \in Int : /\ ledger'[c].balance = ledger[c].balance + n
                           /\ ledger'[c].lifetime = ledger[c].lifetime + n
                           /\ ledger'[c].pending = ledger[c].pending
                           /\ ~NegativeTip(c) => n >= 0
      BY <1>3, <3>1, TipCreditEffect
    <3>3. n \in Nat
      BY <3>1, <3>2
    <3> QED
      BY <3>2, <3>3
  <2> QED
    BY <1>00, <2>1, <2>2, <2>3, CarefulFrame
<1>4. ASSUME NEW t \in Tips, IssueRefund(t) PROVE CarefulInv'
  <2>1. UNCHANGED <<ledger, paid, debit, pc, creator, amount, raced>>
    BY <1>4 DEF IssueRefund
  <2>2. Gains
    BY <1>1, <2>1
  <2> QED
    BY <1>00, <2>1, <2>2, CarefulFrame
<1>5. ASSUME NEW p \in Payouts, PayoutRead(p) PROVE CarefulInv'
  <2>1. PICK c \in Creators, o \in Outcomes :
          LET balance == BalanceRead(IF RouteBindsCreator THEN c ELSE NoCreator, o)
          IN  /\ creator' = [creator EXCEPT ![p] = c]
              /\ amount' = [amount EXCEPT ![p] = balance]
              /\ Proceed(p, c, IF balance < PayoutThreshold THEN "refused" ELSE "deduct")
    BY <1>5 DEF PayoutRead
  <2> DEFINE balance == BalanceRead(IF RouteBindsCreator THEN c ELSE NoCreator, o)
             stage == IF balance < PayoutThreshold THEN "refused" ELSE "deduct"
  <2>2. pc[p] = "idle" /\ UNCHANGED <<ledger, paid, debit>>
    BY <1>5 DEF PayoutRead
  <2>3. creator' = [creator EXCEPT ![p] = c] /\ amount' = [amount EXCEPT ![p] = balance]
    BY <2>1
  <2>4. Proceed(p, c, stage)
    BY <2>1
  <2>5. balance \in {0, ledger[c].balance}
    BY NoCreatorIsNone DEF BalanceRead
  <2> HIDE DEF balance
  <2>6. pc' = [pc EXCEPT ![p] = stage]
    BY <2>4 DEF Proceed
  <2>7. creator'[p] = c /\ amount'[p] = balance /\ pc'[p] = stage /\ OthersSame(p)
    BY <2>2, <2>3, <2>6 DEF TypeInv, TypeOK, OthersSame
  <2>8. pc'[p] = "deduct" => 0 <= amount'[p] /\ amount'[p] <= ledger[c].balance
    BY <2>5, <2>7, <1>0, ThresholdIsNat
  <2>9. stage \in {"refused", "deduct", "insert"}
    OBVIOUS
  <2> HIDE DEF stage
  <2> QED
    BY <1>00, <2>2, <2>4, <2>7, <2>8, <2>9, CarefulRead
<1>6. ASSUME NEW p \in Payouts, PayoutDeduct(p) PROVE CarefulInv'
  <2>1. /\ pc[p] = "deduct"
        /\ UNCHANGED <<paid, creator, amount, raced>>
        /\ pc'[p] \in {"insert", "failed"}
        /\ OthersSame(p)
    BY <1>6 DEF PayoutDeduct, Goto, OthersSame, TypeInv, TypeOK
  <2>2. /\ creator[p] \in Creators
        /\ creator[p] \in Careful => 0 <= amount[p] /\ amount[p] <= ledger[creator[p]].balance
    BY <1>0, <2>1 DEF CarefulInv, DeductionCovered
  <2>3. \A c \in Careful :
            /\ ledger'[c].lifetime = ledger[c].lifetime
            /\ ledger'[c].pending >= 0
            /\ ledger'[c].balance >= 0
            /\ c # creator[p] => ledger'[c].balance = ledger[c].balance
    BY <1>0, <1>00, <1>6, PayoutDeductEffect DEF CarefulInv, OverdrawnOnlyByRaces, PendingNonNegative
  <2>4. creator[p] \in Careful =>
          /\ debit'[p] \in {0, amount[p]}
          /\ ledger'[creator[p]].balance <= ledger[creator[p]].balance - debit'[p]
    <3>1. \/ debit'[p] = amount[p] /\ ledger'[creator[p]].balance = 0
          \/ debit'[p] = 0 /\ ledger'[creator[p]].balance = ledger[creator[p]].balance
      <4>1. PICK o \in Outcomes :
              /\ ledger' = IF Applied(o)
                           THEN [ledger EXCEPT ![creator[p]].balance = 0,
                                               ![creator[p]].pending = ledger[creator[p]].balance]
                           ELSE ledger
              /\ debit' = [debit EXCEPT ![p] = IF Applied(o) THEN amount[p] ELSE 0]
        BY <1>6 DEF PayoutDeduct
      <4>2. debit'[p] = IF Applied(o) THEN amount[p] ELSE 0
        BY <4>1 DEF TypeInv, TypeOK
      <4>3. Applied(o) => ledger'[creator[p]].balance = 0
        BY <4>1, <2>2 DEF TypeInv, TypeOK
      <4> QED
        BY <4>1, <4>2, <4>3
    <3> QED
      BY <1>0, <2>2, <3>1
  <2> QED
    BY <1>00, <2>1, <2>3, <2>4, CarefulDeduct
<1>7. ASSUME NEW p \in Payouts, PayoutInsert(p) PROVE CarefulInv'
  <2>1. /\ pc[p] = "insert"
        /\ UNCHANGED <<ledger, creator, amount, debit, raced>>
        /\ pc'[p] \in {"send", "done", "failed"}
        /\ OthersSame(p)
    BY <1>7 DEF PayoutInsert, Goto, OthersSame, TypeInv, TypeOK
  <2>2. paid' = paid \/ paid' = [paid EXCEPT ![creator[p]] = @ + debit[p]]
    BY <1>7 DEF PayoutInsert
  <2> QED
    BY <1>00, <2>1, <2>2, CarefulInsert
<1>8. ASSUME NEW p \in Payouts, PayoutSend(p) PROVE CarefulInv'
  <2>1. /\ pc[p] = "send"
        /\ UNCHANGED <<ledger, creator, amount, debit, paid, raced>>
        /\ pc'[p] = "done"
        /\ OthersSame(p)
    BY <1>8 DEF PayoutSend, OthersSame, TypeInv, TypeOK
  <2> QED
    BY <1>00, <2>1, CarefulInsert
<1>9. ASSUME NEW m \in Manuals, ManualRead(m) PROVE CarefulInv'
  <2>1. PICK c \in Creators, a \in Amounts, o \in Outcomes :
          /\ creator' = [creator EXCEPT ![m] = c]
          /\ amount' = [amount EXCEPT ![m] = a]
          /\ Proceed(m, c, IF BalanceRead(c, o) >= a THEN "deduct" ELSE "insert")
    BY <1>9 DEF ManualRead
  <2> DEFINE stage == IF BalanceRead(c, o) >= a THEN "deduct" ELSE "insert"
  <2>2. pc[m] = "idle" /\ UNCHANGED <<ledger, paid, debit>>
    BY <1>9 DEF ManualRead
  <2>3. pc' = [pc EXCEPT ![m] = stage]
    BY <2>1 DEF Proceed
  <2>4. creator'[m] = c /\ amount'[m] = a /\ pc'[m] = stage /\ OthersSame(m)
    BY <2>1, <2>2, <2>3 DEF TypeInv, TypeOK, OthersSame
  <2>5. pc'[m] = "deduct" /\ c \in Careful' =>
            0 <= amount'[m] /\ amount'[m] <= ledger[c].balance
    <3> SUFFICES ASSUME pc'[m] = "deduct", c \in Careful'
                 PROVE  0 <= a /\ a <= ledger[c].balance
      BY <2>4
    <3>1. BalanceRead(c, o) \in {0, ledger[c].balance}
      BY DEF BalanceRead
    <3>2. ledger[c].balance >= 0
      BY <1>00 DEF CarefulInv, OverdrawnOnlyByRaces
    <3>3. a \in Int
      BY AmountsAreInt
    <3>4. a >= 0
      BY <2>4, <3>3 DEF Careful, Unsigned, NegativeManual
    <3>5. BalanceRead(c, o) >= a
      BY <2>4
    <3> QED
      BY <3>1, <3>2, <3>3, <3>4, <3>5, <1>0
  <2>6. stage \in {"refused", "deduct", "insert"} /\ Proceed(m, c, stage)
    BY <2>1
  <2> HIDE DEF stage
  <2> QED
    BY <1>00, <2>2, <2>4, <2>5, <2>6, CarefulRead
<1>10. ASSUME NEW m \in Manuals, ManualDeduct(m) PROVE CarefulInv'
  <2>1. /\ pc[m] = "deduct"
        /\ UNCHANGED <<paid, creator, amount, raced>>
        /\ pc'[m] \in {"insert", "failed"}
        /\ OthersSame(m)
    BY <1>10 DEF ManualDeduct, Goto, OthersSame, TypeInv, TypeOK
  <2>2. /\ creator[m] \in Creators
        /\ creator[m] \in Careful => 0 <= amount[m] /\ amount[m] <= ledger[creator[m]].balance
    BY <1>0, <2>1 DEF CarefulInv, DeductionCovered
  <2>3. \A c \in Careful :
            /\ ledger'[c].lifetime = ledger[c].lifetime
            /\ ledger'[c].pending >= 0
            /\ ledger'[c].balance >= 0
            /\ c # creator[m] => ledger'[c].balance = ledger[c].balance
    BY <1>0, <1>00, <1>10, <2>2, ManualDeductEffect
    DEF CarefulInv, OverdrawnOnlyByRaces, PendingNonNegative
  <2>4. creator[m] \in Careful =>
          /\ debit'[m] \in {0, amount[m]}
          /\ ledger'[creator[m]].balance <= ledger[creator[m]].balance - debit'[m]
    <3>1. \/ /\ debit'[m] = amount[m]
             /\ ledger'[creator[m]].balance = ledger[creator[m]].balance - amount[m]
          \/ debit'[m] = 0 /\ ledger'[creator[m]].balance = ledger[creator[m]].balance
      <4>1. PICK o \in Outcomes :
              /\ ledger' = IF Applied(o)
                           THEN [ledger EXCEPT ![creator[m]].balance = @ - amount[m],
                                               ![creator[m]].pending = @ + amount[m]]
                           ELSE ledger
              /\ debit' = [debit EXCEPT ![m] = IF Applied(o) THEN amount[m] ELSE 0]
        BY <1>10 DEF ManualDeduct
      <4>2. debit'[m] = IF Applied(o) THEN amount[m] ELSE 0
        BY <4>1 DEF TypeInv, TypeOK
      <4>3. Applied(o) =>
                ledger'[creator[m]].balance = ledger[creator[m]].balance - amount[m]
        BY <4>1, <2>2 DEF TypeInv, TypeOK
      <4> QED
        BY <4>1, <4>2, <4>3
    <3> QED
      BY <1>0, <2>2, <3>1
  <2> QED
    BY <1>00, <2>1, <2>3, <2>4, CarefulDeduct
<1>11. ASSUME NEW m \in Manuals, ManualInsert(m) PROVE CarefulInv'
  <2>1. /\ pc[m] = "insert"
        /\ UNCHANGED <<ledger, creator, amount, debit, raced>>
        /\ pc'[m] \in {"send", "done", "failed"}
        /\ OthersSame(m)
    BY <1>11 DEF ManualInsert, Goto, OthersSame, TypeInv, TypeOK
  <2>2. paid' = paid \/ paid' = [paid EXCEPT ![creator[m]] = @ + debit[m]]
    BY <1>11 DEF ManualInsert
  <2> QED
    BY <1>00, <2>1, <2>2, CarefulInsert
<1>12. CASE UNCHANGED vars
  <2>1. UNCHANGED <<ledger, paid, debit, pc, creator, amount, raced>>
    BY <1>12 DEF vars
  <2>2. Gains
    BY <1>1, <2>1
  <2> QED
    BY <1>00, <2>1, <2>2, CarefulFrame
<1> QED
  BY <1>2, <1>3, <1>4, <1>5, <1>6, <1>7, <1>8, <1>9, <1>10, <1>11, <1>12
  DEF Next, TipStep, PayoutStep, ManualStep

LEMMA CarefulInvariant == Spec => []CarefulInv
<1>1. TypeInv /\ CarefulInv /\ [Next]_vars => CarefulInv'
  BY CarefulStep
<1> QED
  BY CarefulInit, TypeInvariant, <1>1, PTL DEF Spec

(***************************************************************************)
(* Whatever the tips do, whatever fails and whatever happens to others, a  *)
(* creator is paid more than was earned, or a balance goes below zero,     *)
(* only after two payouts of that creator were under way at once or        *)
(* somebody sent a negative amount for them.                               *)
(***************************************************************************)
THEOREM NeverOverpaid == Spec => []NoOverpay
<1>1. CarefulInv => NoOverpay
  BY DEF CarefulInv
<1> QED
  BY CarefulInvariant, <1>1, PTL

THEOREM NeverOverdrawn == Spec => []OverdrawnOnlyByRaces
<1>1. CarefulInv => OverdrawnOnlyByRaces
  BY DEF CarefulInv
<1> QED
  BY CarefulInvariant, <1>1, PTL

(***************************************************************************)
(* With the same exceptions a balance falls only into pending_payout.      *)
(***************************************************************************)
THEOREM DebitsArePending == Spec => DebitsBecomePending
<1> DEFINE Falls(c) == ledger'[c].balance < ledger[c].balance =>
                          ledger'[c].pending >= ledger[c].balance - ledger'[c].balance
<1>1. TypeInv /\ CarefulInv /\ [Next]_vars => \A c \in Careful' : Falls(c)
  <2> SUFFICES ASSUME TypeInv, CarefulInv, [Next]_vars, NEW c \in Careful' PROVE Falls(c)
    OBVIOUS
  <2>0. c \in Careful /\ c \in Creators /\ ~NegativeTip(c) /\ ~NegativeManual(c)
    BY CausesStay DEF Careful, Unsigned
  <2>1. /\ ledger[c].balance \in Int
        /\ ledger[c].pending \in Int
        /\ ledger[c].pending >= 0
    BY <2>0, Numbers DEF CarefulInv, PendingNonNegative
  <2>2. CASE UNCHANGED ledger
    BY <2>1, <2>2
  <2>3. ASSUME NEW t \in Tips, TipCredit(t) PROVE Falls(c)
    BY <2>0, <2>1, <2>3, TipCreditEffect
  <2>4. ASSUME NEW p \in Payouts, PayoutDeduct(p) PROVE Falls(c)
    BY <2>0, <2>1, <2>4, PayoutDeductEffect
  <2>5. ASSUME NEW m \in Manuals, ManualDeduct(m) PROVE Falls(c)
    <3>1. amount[m] \in Int /\ (c = creator[m] => amount[m] >= 0)
      BY <2>0 DEF TypeInv, TypeOK, NegativeManual
    <3> QED
      BY <2>0, <2>1, <2>5, <3>1, ManualDeductEffect
  <2> QED
    BY <2>2, <2>3, <2>4, <2>5, LedgerWriters
<1>2. TypeInv /\ CarefulInv /\ [Next]_vars => [\A c \in Careful' : Falls(c)]_vars
  BY <1>1
<1> QED
  BY CarefulInvariant, TypeInvariant, <1>2, PTL DEF Spec, DebitsBecomePending

(***************************************************************************)
(* The ledger is an EarningsAccount: a credited tip is its Credit, an      *)
(* inserted payouts row its Debit, a race or a negative amount voids the   *)
(* account of the creator it is about and no other, and every other        *)
(* statement leaves the accounts alone.                                    *)
(***************************************************************************)
\* Each step is about one creator: what is earned by, paid to or known of the
\* others stays.
LEMMA OneCreatorMoves ==
    ASSUME TypeInv, [Next]_vars
    PROVE  \/ /\ \A c \in Creators : UNCHANGED <<ledger[c].lifetime, paid[c]>>
              /\ Careful' = Careful
           \/ \E d \in Creators :
                /\ \A c \in Creators \ {d} : UNCHANGED <<ledger[c].lifetime, paid[c]>>
                /\ Careful \ {d} \subseteq Careful'
<1> USE RequestsDisjoint
<1> DEFINE Moves(d) == /\ \A c \in Creators \ {d} : UNCHANGED <<ledger[c].lifetime, paid[c]>>
                       /\ Careful \ {d} \subseteq Careful'
<1>1. ASSUME NEW q \in Requests, NEW d \in Creators,
             \A r \in Requests \ {q} : creator'[r] = creator[r] /\ amount'[r] = amount[r],
             creator'[q] = d, raced' \subseteq raced \cup {d}
      PROVE  Careful \ {d} \subseteq Careful'
  <2>1. ASSUME NEW c \in Careful, c # d PROVE c \in Careful'
    BY <1>1, <2>1 DEF Careful, Unsigned, NegativeTip, NegativeManual
  <2> QED
    BY <2>1
<1>2. ASSUME UNCHANGED <<creator, amount, raced>> PROVE Careful' = Careful
  BY <1>2 DEF Careful, Unsigned, NegativeTip, NegativeManual
<1>3. ASSUME NEW t \in Tips, TipRecord(t) PROVE \E d \in Creators : Moves(d)
  <2>1. PICK d \in Creators, a \in Amounts : /\ creator' = [creator EXCEPT ![t] = d]
                                             /\ amount' = [amount EXCEPT ![t] = a]
    BY <1>3 DEF TipRecord
  <2>2. UNCHANGED <<ledger, paid, raced>>
    BY <1>3 DEF TipRecord
  <2>3. Careful \ {d} \subseteq Careful'
    BY <1>1, <2>1, <2>2 DEF TypeInv, TypeOK
  <2> QED
    BY <2>2, <2>3
<1>4. ASSUME NEW t \in Tips, TipCredit(t) PROVE \E d \in Creators : Moves(d)
  <2>1. creator[t] \in Creators
    BY <1>4 DEF TipCredit, TypeInv, LocalsOK
  <2>2. UNCHANGED <<creator, amount, raced, paid>>
    BY <1>4 DEF TipCredit
  <2>3. \A c \in Creators \ {creator[t]} : ledger'[c].lifetime = ledger[c].lifetime
    BY <1>4, TipCreditEffect, Numbers
  <2> QED
    BY <1>2, <2>1, <2>2, <2>3
<1>5. ASSUME NEW q \in PayoutRequests, NEW d \in Creators, NEW a, NEW stage,
             creator' = [creator EXCEPT ![q] = d], amount' = [amount EXCEPT ![q] = a],
             Proceed(q, d, stage), UNCHANGED <<ledger, paid>>
      PROVE  Moves(d)
  <2>1. raced' \subseteq raced \cup {d}
    BY <1>5 DEF Proceed
  <2>2. /\ creator'[q] = d
        /\ \A r \in Requests \ {q} : creator'[r] = creator[r] /\ amount'[r] = amount[r]
    BY <1>5 DEF TypeInv, TypeOK
  <2>3. Careful \ {d} \subseteq Careful'
    BY <1>1, <2>1, <2>2
  <2> QED
    BY <1>5, <2>3
<1>6. ASSUME NEW p \in Payouts, PayoutRead(p) PROVE \E d \in Creators : Moves(d)
  <2>1. PICK d \in Creators : \E a, stage :
          /\ creator' = [creator EXCEPT ![p] = d]
          /\ amount' = [amount EXCEPT ![p] = a]
          /\ Proceed(p, d, stage)
    BY <1>6 DEF PayoutRead
  <2>2. UNCHANGED <<ledger, paid>>
    BY <1>6 DEF PayoutRead
  <2> QED
    BY <1>5, <2>1, <2>2
<1>7. ASSUME NEW m \in Manuals, ManualRead(m) PROVE \E d \in Creators : Moves(d)
  <2>1. PICK d \in Creators : \E a, stage :
          /\ creator' = [creator EXCEPT ![m] = d]
          /\ amount' = [amount EXCEPT ![m] = a]
          /\ Proceed(m, d, stage)
    BY <1>7 DEF ManualRead
  <2>2. UNCHANGED <<ledger, paid>>
    BY <1>7 DEF ManualRead
  <2> QED
    BY <1>5, <2>1, <2>2
<1>8. ASSUME NEW q \in PayoutRequests, pc[q] # "idle", UNCHANGED <<creator, amount, raced>>,
             \A c \in Creators : ledger'[c].lifetime = ledger[c].lifetime,
             paid' = paid \/ paid' = [paid EXCEPT ![creator[q]] = @ + debit[q]]
      PROVE  \E d \in Creators : Moves(d)
  <2>1. creator[q] \in Creators
    BY <1>8, Numbers
  <2>2. \A c \in Creators \ {creator[q]} : paid'[c] = paid[c]
    BY <1>8, <2>1 DEF TypeInv, TypeOK
  <2> QED
    BY <1>2, <1>8, <2>1, <2>2
<1>9. ASSUME NEW p \in Payouts, PayoutDeduct(p) \/ PayoutInsert(p) \/ PayoutSend(p)
      PROVE  \E d \in Creators : Moves(d)
  <2>1. pc[p] # "idle" /\ UNCHANGED <<creator, amount, raced>>
    BY <1>9 DEF PayoutDeduct, PayoutInsert, PayoutSend
  <2>2. paid' = paid \/ paid' = [paid EXCEPT ![creator[p]] = @ + debit[p]]
    BY <1>9 DEF PayoutDeduct, PayoutInsert, PayoutSend
  <2>3. \A c \in Creators : ledger'[c].lifetime = ledger[c].lifetime
    BY <1>9, PayoutDeductEffect DEF PayoutInsert, PayoutSend
  <2> QED
    BY <1>8, <2>1, <2>2, <2>3
<1>10. ASSUME NEW m \in Manuals, ManualDeduct(m) \/ ManualInsert(m)
       PROVE  \E d \in Creators : Moves(d)
  <2>1. pc[m] # "idle" /\ UNCHANGED <<creator, amount, raced>>
    BY <1>10 DEF ManualDeduct, ManualInsert
  <2>2. paid' = paid \/ paid' = [paid EXCEPT ![creator[m]] = @ + debit[m]]
    BY <1>10 DEF ManualDeduct, ManualInsert
  <2>3. \A c \in Creators : ledger'[c].lifetime = ledger[c].lifetime
    BY <1>10, ManualDeductEffect DEF ManualInsert
  <2> QED
    BY <1>8, <2>1, <2>2, <2>3
<1>11. CASE (\E t \in Tips : IssueRefund(t)) \/ UNCHANGED vars
  <2>1. UNCHANGED <<ledger, paid, creator, amount, raced>>
    BY <1>11 DEF IssueRefund, vars
  <2> QED
    BY <1>2, <2>1
<1> HIDE DEF Moves
<1>12. CASE \E t \in Tips : TipStep(t)
  BY <1>3, <1>4, <1>11, <1>12 DEF TipStep, Moves
<1>13. CASE \E p \in Payouts : PayoutStep(p)
  BY <1>6, <1>9, <1>13 DEF PayoutStep, Moves
<1>14. CASE \E m \in Manuals : ManualStep(m)
  BY <1>7, <1>10, <1>14 DEF ManualStep, Moves
<1> QED
  BY <1>11, <1>12, <1>13, <1>14 DEF Next

THEOREM Refinement == Spec => ImplementsAccount
<1> DEFINE earned == [c \in Creators |-> ledger[c].lifetime]
           void == Creators \ Careful
<1>1. Init => Account!Init
  <2> SUFFICES ASSUME Init PROVE Account!Init
    OBVIOUS
  <2>1. ASSUME NEW c \in Creators PROVE ledger[c].lifetime = 0
    BY InitialRows
  <2>2. Careful = Creators
    BY NoCreatorIsNone DEF Init, Careful, Unsigned, NegativeTip, NegativeManual
  <2> QED
    BY <2>1, <2>2 DEF Init, Account!Init
<1>2. TypeInv /\ CarefulInv /\ TypeInv' /\ CarefulInv' /\ [Next]_vars
        => [Account!Next]_<<earned, paid, void>>
  <2> SUFFICES ASSUME TypeInv, CarefulInv, TypeInv', CarefulInv', [Next]_vars
               PROVE  Account!Next \/ UNCHANGED <<earned, paid, void>>
    OBVIOUS
  <2>f. /\ paid \in [Creators -> Int] /\ paid' \in [Creators -> Int]
        /\ Careful' \subseteq Careful /\ Careful \subseteq Creators
    BY CausesStay, CarefulAreCreators DEF TypeInv, TypeOK
  <2>1. CASE /\ \A c \in Creators : UNCHANGED <<ledger[c].lifetime, paid[c]>>
             /\ Careful' = Careful
    <3>1. earned' = earned /\ paid' = paid /\ void' = void
      BY <2>1, <2>f
    <3> QED
      BY <3>1
  <2>2. ASSUME NEW d \in Creators,
               \A c \in Creators \ {d} : UNCHANGED <<ledger[c].lifetime, paid[c]>>,
               Careful \ {d} \subseteq Careful'
        PROVE  Account!Next \/ UNCHANGED <<earned, paid, void>>
    <3>1. /\ earned' = [earned EXCEPT ![d] = earned'[d]]
          /\ paid' = [paid EXCEPT ![d] = paid'[d]]
      BY <2>2, <2>f
    <3>2. CASE d \notin Careful'
      <4>1. void' = void \cup {d}
        BY <2>2, <2>f, <3>2
      <4>2. Account!Spoil(d)
        BY <3>1, <4>1 DEF Account!Spoil
      <4> QED
        BY <4>2 DEF Account!Next
    <3>3. CASE d \in Careful'
      <4>1. void' = void /\ d \notin void
        BY <2>2, <2>f, <3>3
      <4>2. CASE \E t \in Tips : TipCredit(t)
        <5>1. paid' = paid
          BY <4>2 DEF TipCredit
        <5>2. ledger'[d].lifetime >= ledger[d].lifetime
          BY <2>f, <3>3, <4>2, TipCreditEffect, Numbers DEF Careful, Unsigned
        <5>3. Account!Credit(d)
          BY <3>1, <4>1, <5>1, <5>2 DEF Account!Credit
        <5> QED
          BY <5>3 DEF Account!Next
      <4>3. CASE \E q \in PayoutRequests :
                    /\ pc[q] = "insert" /\ UNCHANGED ledger
                    /\ paid' = [paid EXCEPT ![creator[q]] = @ + debit[q]]
        <5>1. PICK q \in PayoutRequests :
                    /\ pc[q] = "insert" /\ UNCHANGED ledger
                    /\ paid' = [paid EXCEPT ![creator[q]] = @ + debit[q]]
          BY <4>3
        <5>2. creator[q] \in Creators /\ paid[d] \in Int /\ debit[q] \in Int
              /\ ledger[d].balance \in Int /\ ledger[d].lifetime \in Int
          BY <5>1, Numbers
        <5>3. paid'[d] >= paid[d]
          <6>1. CASE d = creator[q]
            <7>1. debit[q] >= 0
              BY <2>f, <3>3, <5>1, <6>1 DEF CarefulInv, InsertionCovered
            <7>2. paid'[d] = paid[d] + debit[q]
              BY <2>f, <5>1, <5>2, <6>1
            <7> QED
              BY <5>2, <7>1, <7>2
          <6>2. CASE d # creator[q]
            <7>1. paid'[d] = paid[d]
              BY <2>f, <5>1, <5>2, <6>2
            <7> QED
              BY <5>2, <7>1
          <6> QED
            BY <6>1, <6>2
        <5>4. paid'[d] <= ledger[d].lifetime
          <6>1. paid'[d] + ledger[d].balance <= ledger[d].lifetime
            BY <3>3, <5>1 DEF CarefulInv, NoOverpay
          <6>2. ledger[d].balance >= 0
            BY <2>f, <3>3 DEF CarefulInv, OverdrawnOnlyByRaces
          <6>3. paid'[d] \in Int
            BY <2>f
          <6> QED
            BY <5>2, <6>1, <6>2, <6>3
        <5>5. earned' = earned
          BY <5>1
        <5>6. Account!Debit(d)
          BY <3>1, <4>1, <5>3, <5>4, <5>5 DEF Account!Debit
        <5> QED
          BY <5>6 DEF Account!Next
      <4>4. CASE /\ ~\E t \in Tips : TipCredit(t)
                 /\ paid' = paid
        <5>1. \A c \in Creators : ledger'[c].lifetime = ledger[c].lifetime
          BY <4>4, LedgerWriters, PayoutDeductEffect, ManualDeductEffect
        <5> QED
          BY <4>1, <4>4, <5>1
      <4>5. \/ paid' = paid
            \/ \E q \in PayoutRequests :
                    /\ pc[q] = "insert" /\ UNCHANGED ledger
                    /\ paid' = [paid EXCEPT ![creator[q]] = @ + debit[q]]
        BY DEF Next, TipStep, PayoutStep, ManualStep, TipRecord, TipCredit, IssueRefund,
               PayoutRead, PayoutDeduct, PayoutInsert, PayoutSend, ManualRead, ManualDeduct,
               ManualInsert, vars
      <4> QED
        BY <4>2, <4>3, <4>4, <4>5
    <3> QED
      BY <3>2, <3>3
  <2> QED
    BY <2>1, <2>2, OneCreatorMoves
<1> QED
  BY <1>1, <1>2, CarefulInvariant, TypeInvariant, PTL
  DEF Spec, ImplementsAccount, Account!Spec

-----------------------------------------------------------------------------
(***************************************************************************)
(* Only the overwrite of pending_payout by ProcessPayout loses track of    *)
(* money: a creator none of whose payouts was deducted has every cent      *)
(* earned available or pending, however manual payouts race and fail.      *)
(***************************************************************************)
ConservedInv ==
    /\ Conserved
    /\ \A p \in Payouts : pc[p] \in {"idle", "deduct"} => debit[p] = 0

\* What a step of another request leaves of a payout.
PayoutSame(p) == UNCHANGED <<pc[p], creator[p], debit[p]>>

\* A step changes one payout at most.
LEMMA OnePayoutMoves ==
    ASSUME TypeInv, [Next]_vars
    PROVE  \/ \A p \in Payouts : PayoutSame(p)
           \/ \E q \in Payouts : PayoutStep(q) /\ \A p \in Payouts \ {q} : PayoutSame(p)
<1> USE RequestsDisjoint
<1>1. ASSUME NEW t \in Tips, TipStep(t), NEW p \in Payouts PROVE PayoutSame(p)
  BY <1>1 DEF PayoutSame, TipStep, TipRecord, TipCredit, IssueRefund, Goto, TypeInv, TypeOK
<1>2. ASSUME NEW m \in Manuals, ManualStep(m), NEW p \in Payouts PROVE PayoutSame(p)
  BY <1>2
  DEF PayoutSame, ManualStep, ManualRead, Proceed, ManualDeduct, ManualInsert, Goto, TypeInv, TypeOK
<1>3. ASSUME NEW q \in Payouts, PayoutStep(q), NEW p \in Payouts, p # q PROVE PayoutSame(p)
  BY <1>3
  DEF PayoutSame, PayoutStep, PayoutRead, Proceed, PayoutDeduct, PayoutInsert, PayoutSend, Goto,
      TypeInv, TypeOK
<1>4. ASSUME UNCHANGED vars, NEW p \in Payouts PROVE PayoutSame(p)
  BY <1>4 DEF PayoutSame, vars
<1> QED
  BY <1>1, <1>2, <1>3, <1>4 DEF Next

\* A deduction that took effect is remembered in debit; one that failed took nothing.
LEMMA DeductionRemembered ==
    ASSUME TypeInv, NEW p \in Payouts, PayoutDeduct(p)
    PROVE  creator'[p] = creator[p] /\ (debit'[p] # 0 \/ UNCHANGED ledger)
<1>1. amount[p] # 0
  BY ThresholdIsNat DEF TypeInv, TypeOK, LocalsOK, PayoutDeduct
<1>2. PICK o \in Outcomes :
        /\ ~Applied(o) => ledger' = ledger
        /\ debit' = [debit EXCEPT ![p] = IF Applied(o) THEN amount[p] ELSE 0]
  BY DEF PayoutDeduct
<1> QED
  BY <1>1, <1>2 DEF PayoutDeduct, TypeInv, TypeOK

THEOREM EarningsConserved == Spec => []Conserved
<1>1. Init => ConservedInv
  <2> SUFFICES ASSUME Init PROVE ConservedInv
    OBVIOUS
  <2>1. ASSUME NEW c \in Creators
        PROVE  ledger[c].balance + ledger[c].pending = ledger[c].lifetime
    <3>1. ledger[c].balance = 0 /\ ledger[c].lifetime = 0 /\ ledger[c].pending = 0
      BY InitialRows
    <3> QED
      BY <3>1
  <2> QED
    BY <2>1 DEF Init, ConservedInv, Conserved
<1>2. TypeInv /\ ConservedInv /\ [Next]_vars => ConservedInv'
  <2> SUFFICES ASSUME TypeInv, ConservedInv, [Next]_vars PROVE ConservedInv'
    OBVIOUS
  <2>1. ASSUME NEW p \in Payouts, pc'[p] \in {"idle", "deduct"} PROVE debit'[p] = 0
    <3>1. CASE PayoutSame(p)
      BY <2>1, <3>1 DEF PayoutSame, ConservedInv
    <3>2. CASE PayoutStep(p)
      <4>1. CASE PayoutRead(p)
        BY <4>1 DEF PayoutRead, ConservedInv
      <4>2. CASE PayoutDeduct(p) \/ PayoutInsert(p) \/ PayoutSend(p)
        BY <2>1, <4>2 DEF PayoutDeduct, PayoutInsert, PayoutSend, Goto, TypeInv, TypeOK
      <4> QED
        BY <3>2, <4>1, <4>2 DEF PayoutStep
    <3> QED
      BY <3>1, <3>2, OnePayoutMoves
  <2>2. ASSUME NEW c \in Creators, NEW p \in Payouts,
               creator'[p] = c => debit'[p] = 0, creator[p] = c
        PROVE  debit[p] = 0
    <3>1. CASE PayoutSame(p)
      BY <2>2, <3>1 DEF PayoutSame
    <3>2. CASE PayoutRead(p) \/ PayoutDeduct(p)
      BY <3>2 DEF PayoutRead, PayoutDeduct, ConservedInv
    <3>3. CASE PayoutInsert(p) \/ PayoutSend(p)
      BY <2>2, <3>3 DEF PayoutInsert, PayoutSend
    <3> QED
      BY <3>1, <3>2, <3>3, OnePayoutMoves DEF PayoutStep
  <2>3. ASSUME NEW c \in Creators, \A p \in Payouts : creator'[p] = c => debit'[p] = 0
        PROVE  ledger'[c].balance + ledger'[c].pending = ledger'[c].lifetime
    <3>1. ledger[c].balance + ledger[c].pending = ledger[c].lifetime
      BY <2>2, <2>3 DEF ConservedInv, Conserved
    <3>2. CASE UNCHANGED ledger
      BY <3>1, <3>2
    <3>3. ASSUME NEW t \in Tips, TipCredit(t)
          PROVE  ledger'[c].balance + ledger'[c].pending = ledger'[c].lifetime
      BY <3>1, <3>3, TipCreditEffect, Numbers
    <3>4. ASSUME NEW p \in Payouts, PayoutDeduct(p)
          PROVE  ledger'[c].balance + ledger'[c].pending = ledger'[c].lifetime
      <4>1. c # creator[p] \/ UNCHANGED ledger
        BY <2>3, <3>4, DeductionRemembered
      <4> QED
        BY <3>1, <3>4, <4>1, PayoutDeductEffect
    <3>5. ASSUME NEW m \in Manuals, ManualDeduct(m)
          PROVE  ledger'[c].balance + ledger'[c].pending = ledger'[c].lifetime
      <4>1. amount[m] \in Int
        BY Numbers
      <4> QED
        BY <3>1, <3>5, <4>1, ManualDeductEffect, Numbers
    <3> QED
      BY <3>2, <3>3, <3>4, <3>5, LedgerWriters
  <2> QED
    BY <2>1, <2>3 DEF ConservedInv, Conserved
<1>3. ConservedInv => Conserved
  BY DEF ConservedInv
<1> QED
  BY <1>1, <1>2, <1>3, TypeInvariant, PTL DEF Spec

-----------------------------------------------------------------------------
(***************************************************************************)
(* Whatever fails and whatever races, PayPal is asked for money at most    *)
(* once per request, after the payouts row is there, for the row's amount. *)
(***************************************************************************)
SendInv ==
    /\ PayPalBacked
    /\ \A p \in Payouts :
        /\ pc[p] # "done" => paypal[p] = 0
        /\ pc[p] = "send" => payout[p] = [status |-> "pending", amount |-> amount[p]]

THEOREM SentOnceForARow == Spec => []PayPalBacked
<1>1. Init => SendInv
  BY DEF Init, SendInv, PayPalBacked
<1>2. TypeInv /\ SendInv /\ [Next]_vars => SendInv'
  <2> SUFFICES ASSUME TypeInv, SendInv, [Next]_vars PROVE SendInv'
    OBVIOUS
  <2> USE RequestsDisjoint
  <2> DEFINE Same(p) == /\ pc'[p] = pc[p] 
                        /\ paypal'[p] = paypal[p]
                        /\ payout'[p] = payout[p]
                        /\ amount'[p] = amount[p]
             Holds(p) == /\ paypal'[p] # 0 =>
                              /\ payout'[p] = [status |-> "pending", amount |-> paypal'[p]]
                              /\ paypal'[p] >= PayoutThreshold
                         /\ pc'[p] # "done" => paypal'[p] = 0
                         /\ pc'[p] = "send" =>
                              payout'[p] = [status |-> "pending", amount |-> amount'[p]]
  <2>1. ASSUME NEW p \in Payouts, Same(p) PROVE Holds(p)
    BY <2>1 DEF SendInv, PayPalBacked
  <2>2. ASSUME NEW t \in Tips, TipStep(t), NEW p \in Payouts PROVE Same(p)
    BY <2>2 DEF TipStep, TipRecord, TipCredit, IssueRefund, Goto, TypeInv, TypeOK
  <2>3. ASSUME NEW m \in Manuals, ManualStep(m), NEW p \in Payouts PROVE Same(p)
    <3>1. CASE ManualInsert(m)
      BY <3>1 DEF ManualInsert, Goto, TypeInv, TypeOK
    <3>2. CASE ManualRead(m) \/ ManualDeduct(m)
      BY <3>2 DEF ManualRead, Proceed, ManualDeduct, Goto, TypeInv, TypeOK
    <3> QED
      BY <2>3, <3>1, <3>2 DEF ManualStep
  <2>4. ASSUME NEW q \in Payouts, PayoutStep(q), NEW p \in Payouts, p # q PROVE Same(p)
    <3>1. CASE PayoutInsert(q)
      BY <2>4, <3>1 DEF PayoutInsert, Goto, TypeInv, TypeOK
    <3>2. CASE PayoutRead(q) \/ PayoutDeduct(q) \/ PayoutSend(q)
      BY <2>4, <3>2 DEF PayoutRead, Proceed, PayoutDeduct, PayoutSend, Goto, TypeInv, TypeOK
    <3> QED
      BY <2>4, <3>1, <3>2 DEF PayoutStep
  <2>5. ASSUME NEW p \in Payouts, PayoutRead(p) PROVE Holds(p)
    BY <2>5 DEF PayoutRead, Proceed, SendInv, TypeInv, TypeOK
  <2>6. ASSUME NEW p \in Payouts, PayoutDeduct(p) PROVE Holds(p)
    BY <2>6 DEF PayoutDeduct, Goto, SendInv, TypeInv, TypeOK
  <2>7. ASSUME NEW p \in Payouts, PayoutInsert(p) PROVE Holds(p)
    <3>1. PICK o \in Outcomes :
            /\ o # "err" => payout' = [payout EXCEPT ![p] =
                                [status |-> "pending", amount |-> amount[p]]]
            /\ Goto(p, o, IF PayPalConfigured THEN "send" ELSE "done")
      BY <2>7 DEF PayoutInsert, Applied
    <3>2. paypal'[p] = 0 /\ amount'[p] = amount[p]
      BY <2>7 DEF PayoutInsert, SendInv
    <3>3. pc'[p] = IF o = "ok" THEN (IF PayPalConfigured THEN "send" ELSE "done") ELSE "failed"
      BY <3>1 DEF Goto, TypeInv, TypeOK
    <3>4. o = "ok" => payout'[p] = [status |-> "pending", amount |-> amount[p]]
      BY <3>1 DEF TypeInv, TypeOK
    <3> QED
      BY <3>2, <3>3, <3>4
  <2>8. ASSUME NEW p \in Payouts, PayoutSend(p) PROVE Holds(p)
    <3>1. /\ payout'[p] = [status |-> "pending", amount |-> amount[p]]
          /\ amount[p] \in Int
          /\ amount[p] >= PayoutThreshold
          /\ paypal[p] = 0
      BY <2>8 DEF PayoutSend, SendInv, TypeInv, TypeOK, LocalsOK
    <3>2. paypal'[p] \in {0, amount[p]}
      BY <2>8, <3>1 DEF PayoutSend, TypeInv, TypeOK
    <3>3. pc'[p] = "done"
      BY <2>8 DEF PayoutSend, TypeInv, TypeOK
    <3> QED
      BY <3>1, <3>2, <3>3
  <2>9. ASSUME NEW p \in Payouts PROVE Holds(p)
    <3>1. CASE UNCHANGED vars
      BY <2>1, <3>1 DEF vars
    <3>2. CASE Next
      BY <2>1, <2>2, <2>3, <2>4, <2>5, <2>6, <2>7, <2>8, <3>2 DEF Next, PayoutStep
    <3> QED
      BY <3>1, <3>2
  <2> QED
    BY <2>9 DEF SendInv, PayPalBacked
<1>3. SendInv => PayPalBacked
  BY DEF SendInv
<1> QED
  BY <1>1, <1>2, <1>3, TypeInvariant, PTL DEF Spec

-----------------------------------------------------------------------------
(***************************************************************************)
(* Sums of tips.  MapThenSumSet is a recursive function of a choice of     *)
(* elements; what it sums to does not depend on the choice: for finitely   *)
(* many integers it counts the pairs of a tip and one of its units, less   *)
(* the pairs of a tip and one of the units it is below zero.               *)
(***************************************************************************)
Units(w, s) == {u \in s \X Nat : u[2] \in 1..w[u[1]]}
Minus(w) == [x \in DOMAIN w |-> -w[x]]
Total(w, s) == Cardinality(Units(w, s)) - Cardinality(Units(Minus(w), s))

\* One element more adds its units.
LEMMA UnitsAdd ==
    ASSUME NEW w, NEW s, NEW x \in s, IsFiniteSet(Units(w, s \ {x})), w[x] \in Int
    PROVE  /\ IsFiniteSet(Units(w, s))
           /\ Cardinality(Units(w, s)) =
                (IF w[x] > 0 THEN w[x] ELSE 0) + Cardinality(Units(w, s \ {x}))
<1> DEFINE number == w[x]
           gain == IF number > 0 THEN number ELSE 0
           mine == {x} \X (1..number)
           rest == Units(w, s \ {x})
<1>0. number \in Int /\ gain \in Int
  OBVIOUS
<1>1. IsFiniteSet(mine) /\ Cardinality(mine) = gain
  <2>1. 1 \in Int
    OBVIOUS
  <2> HIDE DEF number
  <2>2. IsFiniteSet({x}) /\ Cardinality({x}) = 1
    BY FS_Singleton, Zenon
  <2>3. IsFiniteSet(1..number) /\ Cardinality(1..number) = gain
    <3>1. /\ IsFiniteSet(1..number)
          /\ Cardinality(1..number) = IF 1 > number THEN 0 ELSE number - 1 + 1
      BY <1>0, <2>1, FS_Interval, Zenon
    <3>2. CASE number > 0
      BY <1>0, <3>1, <3>2
    <3>3. CASE ~(number > 0)
      BY <1>0, <3>1, <3>3
    <3> QED
      BY <3>2, <3>3
  <2> HIDE DEF gain
  <2>4. /\ IsFiniteSet({x} \X (1..number))
        /\ Cardinality({x} \X (1..number)) = Cardinality({x}) * Cardinality(1..number)
    BY <2>2, <2>3, FS_Product, Zenon
  <2>5. Cardinality({x}) * Cardinality(1..number) = gain
    BY <1>0, <2>2, <2>3
  <2> QED
    BY <2>4, <2>5, Zenon
<1>2. Units(w, s) = mine \cup rest /\ mine \cap rest = {}
  BY DEF Units
<1>3. IsFiniteSet(rest) /\ Cardinality(rest) \in Nat
  BY FS_CardinalityType
<1> HIDE DEF mine, rest
<1>4. /\ IsFiniteSet(mine \cup rest)
      /\ Cardinality(mine \cup rest) =
           Cardinality(mine) + Cardinality(rest) - Cardinality(mine \cap rest)
  BY <1>1, <1>3, FS_Union, Zenon
<1>5. Cardinality(mine \cap rest) = 0
  BY <1>2, FS_EmptySet
<1> HIDE DEF gain
<1>6. Cardinality(Units(w, s)) = gain + Cardinality(rest)
  BY <1>0, <1>1, <1>2, <1>3, <1>4, <1>5
<1> QED
  BY <1>2, <1>4, <1>6 DEF gain, rest

LEMMA TotalAdd ==
    ASSUME NEW w, NEW s, NEW x \in s, x \in DOMAIN w, w[x] \in Int,
           IsFiniteSet(Units(w, s \ {x})), IsFiniteSet(Units(Minus(w), s \ {x}))
    PROVE  Total(w, s) = w[x] + Total(w, s \ {x})
<1> DEFINE n == w[x]
           up == Cardinality(Units(w, s \ {x}))
           down == Cardinality(Units(Minus(w), s \ {x}))
<1>1. Minus(w)[x] = -n /\ Minus(w)[x] \in Int /\ n \in Int
  BY DEF Minus
<1>2. Cardinality(Units(w, s)) = (IF n > 0 THEN n ELSE 0) + up
  BY UnitsAdd
<1>3. Cardinality(Units(Minus(w), s)) = (IF Minus(w)[x] > 0 THEN Minus(w)[x] ELSE 0) + down
  BY <1>1, UnitsAdd
<1>4. up \in Nat /\ down \in Nat
  BY FS_CardinalityType
<1>5. Total(w, s \ {x}) = up - down
  BY DEF Total
<1> HIDE DEF n, up, down
<1>6. Total(w, s) = ((IF n > 0 THEN n ELSE 0) + up) - ((IF -n > 0 THEN -n ELSE 0) + down)
  BY <1>1, <1>2, <1>3 DEF Total
<1> QED
  BY <1>1, <1>4, <1>5, <1>6 DEF n

\* Among subsets of a finite set there is one from which nothing can be taken away.
LEMMA Smallest ==
    ASSUME NEW S, IsFiniteSet(S), NEW T \in SUBSET (SUBSET S), T # {}
    PROVE  \E s \in T : \A x \in s : s \ {x} \notin T
<1>1. T \subseteq FiniteSubsetsOf(S)
  BY FS_Subset DEF FiniteSubsetsOf
<1>2. PICK s \in T : \A t \in T : <<t, s>> \notin StrictSubsetOrdering(S)
  BY <1>1, FS_StrictSubsetOrderingWellFounded, WFMin
<1>3. ASSUME NEW x \in s, s \ {x} \in T PROVE FALSE
  <2>1. <<s \ {x}, s>> \in StrictSubsetOrdering(S)
    BY <1>3 DEF StrictSubsetOrdering
  <2> QED
    BY <1>2, <1>3, <2>1
<1> QED
  BY <1>3

LEMMA UnitsFinite ==
    ASSUME NEW w, NEW S, IsFiniteSet(S), \A x \in S : w[x] \in Int
    PROVE  \A s \in SUBSET S : IsFiniteSet(Units(w, s))
<1> DEFINE bad == {s \in SUBSET S : ~IsFiniteSet(Units(w, s))}
<1> SUFFICES ASSUME bad # {} PROVE FALSE
  OBVIOUS
<1>1. PICK s \in bad : \A x \in s : s \ {x} \notin bad
  BY Smallest
<1>2. CASE s = {}
  <2>1. Units(w, s) = {}
    BY <1>2 DEF Units
  <2> QED
    BY <1>1, <2>1, FS_EmptySet
<1>3. ASSUME NEW x \in s PROVE FALSE
  <2>1. IsFiniteSet(Units(w, s \ {x})) /\ w[x] \in Int
    BY <1>1
  <2> QED
    BY <1>1, <2>1, UnitsAdd
<1> QED
  BY <1>2, <1>3

\* The element MapThenSumSet takes next.
Some(s) == CHOOSE x \in s : TRUE

\* Both satisfy the recursion, and a smallest set on which they differ cannot exist.
LEMMA SumIsTotal ==
    ASSUME NEW w, NEW S, IsFiniteSet(S), S \subseteq DOMAIN w,
           \A x \in S : w[x] \in Int /\ w[x] = Net(amount[x])
    PROVE  MapThenSumSet(LAMBDA t : Net(amount[t]), S) = Total(w, S)
<1> DEFINE Sums(f) == f = [s \in SUBSET S |-> IF s = {} THEN 0
                             ELSE Net(amount[Some(s)]) + f[s \ {Some(s)}]]
           g == [s \in SUBSET S |-> Total(w, s)]
<1>1. \A s \in SUBSET S : IsFiniteSet(Units(w, s)) /\ IsFiniteSet(Units(Minus(w), s))
  <2>1. \A x \in S : Minus(w)[x] \in Int
    BY DEF Minus
  <2> QED
    BY <2>1, UnitsFinite
<1>2. ASSUME NEW s \in SUBSET S, s # {}
      PROVE  /\ Some(s) \in s
             /\ Total(w, s) = Net(amount[Some(s)]) + Total(w, s \ {Some(s)})
  <2>1. Some(s) \in s
    BY <1>2 DEF Some
  <2> QED
    BY <1>1, <2>1, TotalAdd
<1>3. Total(w, {}) = 0
  <2>1. Units(w, {}) = {} /\ Units(Minus(w), {}) = {}
    BY DEF Units
  <2>2. Cardinality({}) = 0
    BY FS_EmptySet
  <2>3. Total(w, {}) = Cardinality({}) - Cardinality({})
    BY <2>1, Zenon DEF Total
  <2> QED
    BY <2>2, <2>3
<1>4. Sums(g)
  BY <1>2, <1>3
<1>5. PICK f : Sums(f) /\ MapThenSumSet(LAMBDA t : Net(amount[t]), S) = f[S]
  <2> HIDE DEF g
  <2> QED
    BY <1>4 DEF MapThenSumSet, MapThenFoldSet, Some
<1> DEFINE bad == {s \in SUBSET S : f[s] # Total(w, s)}
<1>6. bad = {}
  <2> SUFFICES ASSUME bad # {} PROVE FALSE
    OBVIOUS
  <2>1. PICK s \in bad : \A x \in s : s \ {x} \notin bad
    BY Smallest
  <2>2. CASE s = {}
    BY <1>3, <1>5, <2>1, <2>2
  <2>3. CASE s # {}
    <3>1. Some(s) \in s /\ f[s \ {Some(s)}] = Total(w, s \ {Some(s)})
      BY <1>2, <2>1, <2>3
    <3>2. f[s] = Net(amount[Some(s)]) + f[s \ {Some(s)}]
      BY <1>5, <2>1, <2>3
    <3> QED
      BY <1>2, <2>1, <2>3, <3>1, <3>2
  <2> QED
    BY <2>2, <2>3
<1> QED
  BY <1>5, <1>6

-----------------------------------------------------------------------------
(***************************************************************************)
(* What a creator earned in all is the net of the tips credited to them.   *)
(* A tip is credited by one step, after its row was written, and its       *)
(* creator and amount stay as they were then.                              *)
(***************************************************************************)
Nets == [t \in Tips |-> Net(amount[t])]
TipsOf(c) == {t \in credited : creator[t] = c}

CreditInv ==
    /\ IsFiniteSet(credited)
    /\ \A t \in credited : pc[t] = "done"
    /\ \A t \in Tips : t \in credited \/ pc[t] = "credit" => txn[t] # "none"
    /\ \A c \in Creators : ledger[c].lifetime = Total(Nets, TipsOf(c))

LEMMA NetsAreInt ==
    ASSUME TypeInv, CreditInv, NEW c
    PROVE  /\ IsFiniteSet(TipsOf(c)) /\ TipsOf(c) \subseteq Tips /\ DOMAIN Nets = Tips
           /\ \A t \in TipsOf(c) : Nets[t] \in Int /\ Nets[t] = Net(amount[t])
           /\ IsFiniteSet(Units(Nets, TipsOf(c)))
           /\ IsFiniteSet(Units(Minus(Nets), TipsOf(c)))
<1>1. IsFiniteSet(TipsOf(c)) /\ TipsOf(c) \subseteq Tips /\ DOMAIN Nets = Tips
  BY FS_Subset DEF CreditInv, TipsOf, TypeInv, TypeOK, Nets
<1>2. ASSUME NEW t \in TipsOf(c) PROVE Nets[t] \in Int /\ Nets[t] = Net(amount[t])
  <2>1. t \in Tips /\ amount[t] \in Int
    BY <1>1 DEF TypeInv, TypeOK
  <2> QED
    BY <2>1, NetIsInt DEF Nets
<1>3. \A t \in TipsOf(c) : Minus(Nets)[t] \in Int
  BY <1>1, <1>2 DEF Minus
<1> QED
  BY <1>1, <1>2, <1>3, UnitsFinite

LEMMA CreditGives ==
    ASSUME TypeInv, CreditInv
    PROVE  CreditsBacked
<1> SUFFICES ASSUME NEW c \in Creators
             PROVE  /\ \A t \in credited : txn[t] # "none"
                    /\ ledger[c].lifetime =
                         MapThenSumSet(LAMBDA t : Net(amount[t]), TipsOf(c))
  BY DEF CreditsBacked, TipsOf
<1>1. \A t \in credited : txn[t] # "none"
  BY DEF CreditInv, TypeInv, TypeOK
<1>2. MapThenSumSet(LAMBDA t : Net(amount[t]), TipsOf(c)) = Total(Nets, TipsOf(c))
  BY NetsAreInt, SumIsTotal
<1>3. ledger[c].lifetime = MapThenSumSet(LAMBDA t : Net(amount[t]), TipsOf(c))
  BY <1>2 DEF CreditInv
<1> QED
  BY <1>1, <1>3

\* A step that credits nothing changes neither a credited tip nor what was earned.
LEMMA CreditedStay ==
    ASSUME TypeInv, CreditInv, [Next]_vars
    PROVE  /\ \A t \in credited : /\ pc'[t] = "done" /\ txn'[t] # "none"
                                  /\ creator'[t] = creator[t] /\ amount'[t] = amount[t]
           /\ \A t \in Tips : pc'[t] = "credit" => txn'[t] # "none"
           /\ \/ \E t \in Tips : TipCredit(t)
              \/ /\ credited' = credited
                 /\ \A c \in Creators : ledger'[c].lifetime = ledger[c].lifetime
<1> USE RequestsDisjoint
<1> DEFINE Keeps(t) ==
             /\ t \in credited => /\ pc'[t] = "done" /\ txn'[t] # "none"
                                  /\ creator'[t] = creator[t] /\ amount'[t] = amount[t]
             /\ pc'[t] = "credit" => txn'[t] # "none"
           Same(t) == UNCHANGED <<pc[t], txn[t], creator[t], amount[t]>>
<1>1. ASSUME NEW t \in Tips, Same(t) PROVE Keeps(t)
  BY <1>1 DEF CreditInv
<1>2. ASSUME NEW s \in Tips, TipRecord(s), NEW t \in Tips PROVE Keeps(t)
  <2>1. PICK o \in Outcomes :
          /\ txn' = [txn EXCEPT ![s] = IF Applied(o) THEN "completed" ELSE @]
          /\ Goto(s, o, "credit")
    BY <1>2 DEF TipRecord
  <2>2. CASE t # s
    BY <1>1, <1>2, <2>1, <2>2 DEF TipRecord, Goto, TypeInv, TypeOK
  <2>3. CASE t = s
    <3>1. t \notin credited
      BY <1>2, <2>3 DEF TipRecord, CreditInv
    <3>2. pc'[t] = "credit" => txn'[t] = "completed"
      BY <2>1, <2>3 DEF Goto, Applied, TypeInv, TypeOK
    <3> QED
      BY <3>1, <3>2
  <2> QED
    BY <2>2, <2>3
<1>3. ASSUME NEW s \in Tips, TipCredit(s), NEW t \in Tips PROVE Keeps(t)
  BY <1>3 DEF TipCredit, CreditInv, TypeInv, TypeOK
<1>4. ASSUME NEW s \in Tips, IssueRefund(s), NEW t \in Tips PROVE Keeps(t)
  BY <1>4 DEF IssueRefund, CreditInv, TypeInv, TypeOK
<1>5. ASSUME NEW p \in Payouts, PayoutStep(p), NEW t \in Tips PROVE Same(t)
  BY <1>5 DEF PayoutStep, PayoutRead, Proceed, PayoutDeduct, PayoutInsert, PayoutSend, Goto, TypeInv, TypeOK
<1>6. ASSUME NEW m \in Manuals, ManualStep(m), NEW t \in Tips PROVE Same(t)
  BY <1>6 DEF ManualStep, ManualRead, Proceed, ManualDeduct, ManualInsert, Goto, TypeInv, TypeOK
<1>7. \A t \in Tips : Keeps(t)
  <2>1. ASSUME UNCHANGED vars, NEW t \in Tips PROVE Same(t)
    BY <2>1 DEF vars
  <2> QED
    BY <1>1, <1>2, <1>3, <1>4, <1>5, <1>6, <2>1 DEF Next, TipStep
<1>8. \/ \E t \in Tips : TipCredit(t)
      \/ /\ credited' = credited
         /\ \A c \in Creators : ledger'[c].lifetime = ledger[c].lifetime
  <2>1. (\E t \in Tips : TipCredit(t)) \/ credited' = credited
    BY DEF Next, TipStep, PayoutStep, ManualStep, TipRecord, IssueRefund, PayoutRead,
           PayoutDeduct, PayoutInsert, PayoutSend, ManualRead, ManualDeduct, ManualInsert, vars
  <2>2. ASSUME NEW c \in Creators, ~\E t \in Tips : TipCredit(t)
        PROVE  ledger'[c].lifetime = ledger[c].lifetime
    BY <2>2, LedgerWriters, PayoutDeductEffect, ManualDeductEffect
  <2> QED
    BY <2>1, <2>2
<1> QED
  BY <1>7, <1>8 DEF TypeInv, TypeOK

LEMMA CreditStep ==
    ASSUME TypeInv, CreditInv, [Next]_vars
    PROVE  CreditInv'
<1>0. TypeInv'
  BY TypeStep
<1>1. ASSUME NEW c, NEW S, S \subseteq TipsOf(c)
      PROVE  Total(Nets', S) = Total(Nets, S)
  <2>1. \A t \in S : Nets'[t] = Nets[t] /\ Minus(Nets')[t] = Minus(Nets)[t]
    BY <1>1, CreditedStay DEF Nets, Minus, TipsOf, TypeInv, TypeOK
  <2>2. Units(Nets', S) = Units(Nets, S) /\ Units(Minus(Nets'), S) = Units(Minus(Nets), S)
    BY <2>1 DEF Units
  <2> QED
    BY <2>2 DEF Total
<1>2. CASE /\ credited' = credited
           /\ \A c \in Creators : ledger'[c].lifetime = ledger[c].lifetime
  <2>1. ASSUME NEW c \in Creators PROVE ledger'[c].lifetime = Total(Nets', TipsOf(c)')
    <3>1. TipsOf(c)' = TipsOf(c)
      BY <1>2, CreditedStay DEF TipsOf
    <3> QED
      BY <1>1, <1>2, <3>1 DEF CreditInv
  <2> QED
    BY <1>2, <2>1, CreditedStay DEF CreditInv
<1>3. ASSUME NEW t \in Tips, TipCredit(t), credited' = credited \cup {t},
             ledger' = [ledger EXCEPT ![creator[t]].balance = @ + Net(amount[t]),
                                      ![creator[t]].lifetime = @ + Net(amount[t])]
      PROVE  CreditInv'
  <2>1. /\ t \notin credited /\ creator[t] \in Creators /\ Net(amount[t]) \in Int
        /\ txn[t] # "none" /\ UNCHANGED <<txn, creator, amount>> /\ pc'[t] = "done"
    BY <1>3, NetIsInt DEF TipCredit, CreditInv, TypeInv, TypeOK, LocalsOK
  <2>2. ASSUME NEW c \in Creators PROVE ledger'[c].lifetime = Total(Nets', TipsOf(c)')
    <3>1. CASE c # creator[t]
      <4>1. TipsOf(c)' = TipsOf(c)
        BY <1>3, <2>1, <3>1 DEF TipsOf
      <4>2. ledger'[c].lifetime = ledger[c].lifetime
        BY <1>3, <2>1, <3>1 DEF TypeInv, TypeOK
      <4> QED
        BY <1>1, <4>1, <4>2 DEF CreditInv
    <3>2. CASE c = creator[t]
      <4> DEFINE S == TipsOf(c)'
      <4>1. t \in S /\ S \ {t} = TipsOf(c) /\ Nets' = Nets /\ Nets[t] = Net(amount[t])
        BY <1>3, <2>1, <3>2 DEF TipsOf, Nets
      <4>2. ledger'[c].lifetime = ledger[c].lifetime + Net(amount[t])
        <5>1. ledger[c] \in [balance : Int, lifetime : Int, pending : Int]
          BY DEF TypeInv, TypeOK
        <5>2. ledger'[c] = [ledger[c] EXCEPT !.balance = @ + Net(amount[t]),
                                             !.lifetime = @ + Net(amount[t])]
          BY <1>3, <3>2 DEF TypeInv, TypeOK
        <5> QED
          BY <5>1, <5>2
      <4>3. Total(Nets, S) = Nets[t] + Total(Nets, S \ {t})
        <5>1. /\ IsFiniteSet(Units(Nets, S \ {t})) /\ IsFiniteSet(Units(Minus(Nets), S \ {t}))
              /\ Nets[t] \in Int /\ t \in DOMAIN Nets
          BY <2>1, <4>1, NetsAreInt
        <5>2. t \in S
          BY <4>1
        <5> HIDE DEF S
        <5> QED
          BY <5>1, <5>2, TotalAdd
      <4>4. ledger[c].lifetime = Total(Nets, TipsOf(c)) /\ ledger[c].lifetime \in Int
        BY DEF CreditInv, TypeInv, TypeOK
      <4>5. Total(Nets', S) = Net(amount[t]) + ledger[c].lifetime
        BY <4>1, <4>3, <4>4
      <4> QED
        BY <2>1, <4>2, <4>4, <4>5
    <3> QED
      BY <3>1, <3>2
  <2>3. IsFiniteSet(credited')
    BY <1>3, FS_AddElement DEF CreditInv
  <2> QED
    BY <1>3, <2>1, <2>2, <2>3, CreditedStay DEF CreditInv
<1>4. ASSUME NEW t \in Tips, TipCredit(t)
      PROVE  \/ credited' = credited /\ ledger' = ledger
             \/ /\ credited' = credited \cup {t}
                /\ ledger' = [ledger EXCEPT ![creator[t]].balance = @ + Net(amount[t]),
                                            ![creator[t]].lifetime = @ + Net(amount[t])]
  BY <1>4 DEF TipCredit
<1> QED
  BY <1>2, <1>3, <1>4, CreditedStay

\* For any number of creators, tips and payouts, any amounts and fee: whatever fails and
\* whatever races, what a creator earned in all is exactly the net of the credited tips
\* that name them, and each of those has its transactions row.
THEOREM CreditsAreBacked == Spec => []CreditsBacked
<1>1. Init => CreditInv
  <2> SUFFICES ASSUME Init PROVE CreditInv
    OBVIOUS
  <2>1. credited = {} /\ \A t \in Tips : pc[t] = "idle"
    BY DEF Init
  <2>2. ASSUME NEW c \in Creators PROVE ledger[c].lifetime = Total(Nets, TipsOf(c))
    <3>1. Units(Nets, TipsOf(c)) = {} /\ Units(Minus(Nets), TipsOf(c)) = {}
      BY <2>1 DEF Units, TipsOf
    <3> QED
      BY <3>1, InitialRows, FS_EmptySet DEF Total
  <2> QED
    BY <2>1, <2>2, FS_EmptySet DEF CreditInv
<1> QED
  BY <1>1, CreditStep, CreditGives, TypeInvariant, PTL DEF Spec

-----------------------------------------------------------------------------
(***************************************************************************)
(* What comments and docs promise holds once its cause of failure is gone. *)
(***************************************************************************)
LEMMA TipDoneStep ==
    ASSUME "err" \notin Faults, TypeInv, TipCredited, [Next]_vars, NEW t \in Tips,
           pc'[t] = "done"
    PROVE  t \in credited'
<1> USE RequestsDisjoint
<1>1. CASE pc[t] = "done"
  <2>1. credited \subseteq credited'
    BY DEF Next, TipStep, PayoutStep, ManualStep, TipRecord, TipCredit, IssueRefund,
           PayoutRead, PayoutDeduct, PayoutInsert, PayoutSend, ManualRead, ManualDeduct,
           ManualInsert, vars
  <2> QED
    BY <1>1, <2>1 DEF TipCredited
<1>2. CASE TipCredit(t)
  BY <1>2 DEF TipCredit, Applied
<1>3. CASE pc'[t] = pc[t]
  BY <1>1, <1>3
<1>4. CASE TipRecord(t)
  BY <1>4 DEF TipRecord, Goto, TypeInv, TypeOK
<1>5. ASSUME NEW s \in Tips, TipRecord(s) \/ TipCredit(s), s # t PROVE pc'[t] = pc[t]
  BY <1>5 DEF TipRecord, TipCredit, Goto, TypeInv, TypeOK
<1>6. ASSUME NEW p \in Payouts, PayoutStep(p) PROVE pc'[t] = pc[t]
  BY <1>6 DEF PayoutStep, PayoutRead, Proceed, PayoutDeduct, PayoutInsert, PayoutSend, Goto, TypeInv, TypeOK
<1>7. ASSUME NEW m \in Manuals, ManualStep(m) PROVE pc'[t] = pc[t]
  BY <1>7 DEF ManualStep, ManualRead, Proceed, ManualDeduct, ManualInsert, Goto, TypeInv, TypeOK
<1>8. (\E s \in Tips : IssueRefund(s)) \/ UNCHANGED vars => pc'[t] = pc[t]
  BY DEF IssueRefund, vars
<1> QED
  BY <1>2, <1>3, <1>4, <1>5, <1>6, <1>7, <1>8 DEF Next, TipStep

\* The run ledger_tip_uncredited violates TipCredited; the UPDATE that fails without
\* effect, and is only logged, is the one cause: however requests race and however many
\* answers are lost, a tip answered with success is otherwise credited.
THEOREM TipsCredited == ASSUME "err" \notin Faults PROVE Spec => []TipCredited
<1>1. Init => TipCredited
  BY DEF Init, TipCredited
<1>2. TypeInv /\ TipCredited /\ [Next]_vars => TipCredited'
  BY TipDoneStep DEF TipCredited
<1> QED
  BY <1>1, <1>2, TypeInvariant, PTL DEF Spec

\* The run ledger_payout_route violates RefusedOnlyBelowThreshold; the route that binds
\* no creator and an error read as a balance of 0 are the only causes: without them
\* nobody at or above the threshold is refused, whatever races with the payout.
THEOREM RefusalsAreDeserved ==
    ASSUME RouteBindsCreator, Faults = {}
    PROVE  Spec => RefusedOnlyBelowThreshold
<1> USE RequestsDisjoint
<1>1. ASSUME TypeInv, [Next]_vars, NEW p \in Payouts, pc[p] = "idle", pc'[p] = "refused"
      PROVE  ledger[creator'[p]].balance < PayoutThreshold
  <2>1. ~\E t \in Tips : TipStep(t)
    BY <1>1 DEF TipStep, TipRecord, TipCredit, IssueRefund, Goto, TypeInv, TypeOK
  <2>2. ~\E m \in Manuals : ManualStep(m)
    BY <1>1 DEF ManualStep, ManualRead, Proceed, ManualDeduct, ManualInsert, Goto, TypeInv, TypeOK
  <2>3. ASSUME NEW q \in Payouts, PayoutStep(q), q # p PROVE FALSE
    BY <1>1, <2>3 DEF PayoutStep, PayoutRead, Proceed, PayoutDeduct, PayoutInsert, PayoutSend, Goto,
                      TypeInv, TypeOK
  <2>4. PayoutStep(p)
    BY <1>1, <2>1, <2>2, <2>3 DEF Next, vars
  <2>5. PayoutRead(p)
    BY <1>1, <2>4 DEF PayoutStep, PayoutDeduct, PayoutInsert, PayoutSend
  <2>6. PICK c \in Creators :
          /\ creator' = [creator EXCEPT ![p] = c]
          /\ pc' = [pc EXCEPT ![p] = IF ledger[c].balance < PayoutThreshold
                                     THEN "refused" ELSE "deduct"]
    BY <2>5 DEF PayoutRead, Proceed, BalanceRead
  <2> QED
    BY <1>1, <2>6 DEF TypeInv, TypeOK
<1>2. TypeInv /\ [Next]_vars =>
        [\A p \in Payouts : (pc[p] = "idle" /\ pc'[p] = "refused") =>
            ledger[creator'[p]].balance < PayoutThreshold]_vars
  BY <1>1
<1> QED
  BY <1>2, TypeInvariant, PTL DEF Spec, RefusedOnlyBelowThreshold

-----------------------------------------------------------------------------
(***************************************************************************)
(* Payouts that race.  When nobody runs a creator's payouts one at a time, *)
(* several may be made from one balance; but each is made from a balance   *)
(* that was read, so no row of payouts is worth more than all the creator  *)
(* earned.  That needs amounts that are not negative: a negative tip takes *)
(* back what was earned, a negative manual payout raises the balance.      *)
(***************************************************************************)
TakesAtMost(r) ==
    /\ pc[r] \in {"idle", "deduct"} => debit[r] = 0
    /\ pc[r] \in {"idle", "deduct", "insert"} => payout[r].status = "none"
    /\ creator[r] \in Unsigned =>
        /\ pc[r] = "deduct" => amount[r] <= ledger[creator[r]].lifetime
        /\ debit[r] <= ledger[creator[r]].lifetime

RaceInv ==
    /\ \A r \in PayoutRequests : TakesAtMost(r)
    /\ \A c \in Creators : IsFiniteSet(Rows(c))
    /\ PaidPerRow

\* The steps of both kinds of payout, as far as RaceInv sees them.
RowSame(r) == UNCHANGED <<pc[r], creator[r], amount[r], debit[r], payout[r]>>
Reads(q) ==
    /\ pc[q] = "idle" /\ pc'[q] \in {"refused", "deduct", "insert"}
    /\ creator'[q] \in Creators
    /\ pc'[q] = "deduct" => amount'[q] <= ledger[creator'[q]].balance \/ amount'[q] <= 0
    /\ UNCHANGED <<ledger, payout, debit, paid>>
Takes(q) ==
    /\ pc[q] = "deduct" /\ pc'[q] \in {"insert", "failed"}
    /\ debit'[q] \in {0, amount[q]}
    /\ \A c \in Creators : ledger'[c].lifetime = ledger[c].lifetime
    /\ UNCHANGED <<payout, creator, amount, paid>>
Writes(q) ==
    /\ pc[q] = "insert" /\ pc'[q] \in {"send", "done", "failed"}
    /\ \/ UNCHANGED <<payout, paid>>
       \/ payout'[q].status # "none" /\ paid' = [paid EXCEPT ![creator[q]] = @ + debit[q]]
    /\ UNCHANGED <<ledger, locals>>
Sends(q) ==
    /\ pc[q] = "send" /\ pc'[q] = "done"
    /\ UNCHANGED <<ledger, payout, locals, paid>>

LEMMA PayoutsMove ==
    ASSUME TypeInv, [Next]_vars
    PROVE  \/ /\ \A r \in PayoutRequests : RowSame(r)
              /\ paid' = paid
              /\ \A c \in Unsigned : ledger'[c].lifetime >= ledger[c].lifetime
           \/ \E q \in PayoutRequests :
                /\ \A r \in PayoutRequests \ {q} : RowSame(r)
                /\ Reads(q) \/ Takes(q) \/ Writes(q) \/ Sends(q)
<1> USE RequestsDisjoint
<1> DEFINE Still == /\ \A r \in PayoutRequests : RowSame(r)
                    /\ paid' = paid
                    /\ \A c \in Unsigned : ledger'[c].lifetime >= ledger[c].lifetime
           Others(q) == \A r \in PayoutRequests \ {q} : RowSame(r)
<1>1. ASSUME NEW t \in Tips, TipStep(t) PROVE Still
  <2>1. \A r \in PayoutRequests : RowSame(r)
    BY <1>1 DEF RowSame, TipStep, TipRecord, TipCredit, IssueRefund, Goto, TypeInv, TypeOK
  <2>2. paid' = paid
    BY <1>1 DEF TipStep, TipRecord, TipCredit, IssueRefund
  <2>3. ASSUME NEW c \in Unsigned PROVE ledger'[c].lifetime >= ledger[c].lifetime
    <3>0. c \in Creators /\ ~NegativeTip(c)
      BY DEF Unsigned
    <3>1. CASE UNCHANGED ledger
      BY <3>0, <3>1, Numbers
    <3>2. CASE TipCredit(t)
      BY <3>0, <3>2, TipCreditEffect, Numbers
    <3> QED
      BY <1>1, <3>1, <3>2 DEF TipStep, TipRecord, IssueRefund
  <2> QED
    BY <2>1, <2>2, <2>3
<1>2. CASE UNCHANGED vars
  BY <1>2, Numbers DEF vars, RowSame, Unsigned
<1>3. ASSUME NEW p \in Payouts, PayoutRead(p) PROVE Others(p) /\ Reads(p)
  <2>1. PICK c \in Creators, balance \in Int :
          /\ balance <= ledger[c].balance \/ balance = 0
          /\ creator' = [creator EXCEPT ![p] = c]
          /\ amount' = [amount EXCEPT ![p] = balance]
          /\ pc' = [pc EXCEPT ![p] = IF balance < PayoutThreshold THEN "refused" ELSE "deduct"]
    <3>1. PICK c \in Creators, o \in Outcomes :
            LET balance == BalanceRead(IF RouteBindsCreator THEN c ELSE NoCreator, o)
            IN  /\ creator' = [creator EXCEPT ![p] = c]
                /\ amount' = [amount EXCEPT ![p] = balance]
                /\ pc' = [pc EXCEPT ![p] = IF balance < PayoutThreshold THEN "refused"
                                                                        ELSE "deduct"]
      BY <1>3 DEF PayoutRead, Proceed
    <3> DEFINE balance == BalanceRead(IF RouteBindsCreator THEN c ELSE NoCreator, o)
    <3>2. balance \in {0, ledger[c].balance}
      BY NoCreatorIsNone DEF BalanceRead
    <3>3. balance \in Int /\ (balance <= ledger[c].balance \/ balance = 0)
      BY <3>2, Numbers
    <3> HIDE DEF balance
    <3> QED
      BY <3>1, <3>3 DEF balance
  <2>2. UNCHANGED <<ledger, payout, debit, paid>> /\ pc[p] = "idle"
    BY <1>3 DEF PayoutRead
  <2>3. Others(p)
    BY <2>1, <2>2 DEF RowSame, TypeInv, TypeOK
  <2>4. /\ creator'[p] = c /\ amount'[p] = balance
        /\ pc'[p] = IF balance < PayoutThreshold THEN "refused" ELSE "deduct"
    BY <2>1 DEF TypeInv, TypeOK
  <2>5. pc'[p] = "deduct" => balance <= ledger[c].balance
    BY <2>1, <2>4, ThresholdIsNat
  <2> QED
    BY <2>2, <2>3, <2>4, <2>5 DEF Reads
<1>4. ASSUME NEW m \in Manuals, ManualRead(m) PROVE Others(m) /\ Reads(m)
  <2>1. PICK c \in Creators, a \in Amounts, o \in Outcomes :
          /\ creator' = [creator EXCEPT ![m] = c]
          /\ amount' = [amount EXCEPT ![m] = a]
          /\ pc' = [pc EXCEPT ![m] = IF BalanceRead(c, o) >= a THEN "deduct" ELSE "insert"]
    BY <1>4 DEF ManualRead, Proceed
  <2>2. UNCHANGED <<ledger, payout, debit, paid>> /\ pc[m] = "idle"
    BY <1>4 DEF ManualRead
  <2>3. Others(m)
    BY <2>1, <2>2 DEF RowSame, TypeInv, TypeOK
  <2>4. /\ creator'[m] = c /\ amount'[m] = a
        /\ pc'[m] = IF BalanceRead(c, o) >= a THEN "deduct" ELSE "insert"
    BY <2>1 DEF TypeInv, TypeOK
  <2>5. BalanceRead(c, o) >= a => a <= ledger[c].balance \/ a <= 0
    BY AmountsAreInt, Numbers DEF BalanceRead
  <2> QED
    BY <2>2, <2>3, <2>4, <2>5 DEF Reads
<1>5. ASSUME NEW p \in Payouts, PayoutDeduct(p) PROVE Others(p) /\ Takes(p)
  <2>1. Others(p)
    BY <1>5 DEF RowSame, PayoutDeduct, Goto, TypeInv, TypeOK
  <2>2. pc'[p] \in {"insert", "failed"} /\ debit'[p] \in {0, amount[p]}
    BY <1>5 DEF PayoutDeduct, Goto, TypeInv, TypeOK
  <2>3. pc[p] = "deduct" /\ UNCHANGED <<payout, creator, amount, paid>>
    BY <1>5 DEF PayoutDeduct
  <2> QED
    BY <1>5, <2>1, <2>2, <2>3, PayoutDeductEffect DEF Takes
<1>6. ASSUME NEW m \in Manuals, ManualDeduct(m) PROVE Others(m) /\ Takes(m)
  <2>1. Others(m)
    BY <1>6 DEF RowSame, ManualDeduct, Goto, TypeInv, TypeOK
  <2>2. pc'[m] \in {"insert", "failed"} /\ debit'[m] \in {0, amount[m]}
    BY <1>6 DEF ManualDeduct, Goto, TypeInv, TypeOK
  <2>3. pc[m] = "deduct" /\ UNCHANGED <<payout, creator, amount, paid>>
    BY <1>6 DEF ManualDeduct
  <2> QED
    BY <1>6, <2>1, <2>2, <2>3, ManualDeductEffect DEF Takes
<1>7. ASSUME NEW p \in Payouts, PayoutInsert(p) PROVE Others(p) /\ Writes(p)
  <2>1. Others(p)
    BY <1>7 DEF RowSame, PayoutInsert, Goto, TypeInv, TypeOK
  <2>2. pc'[p] \in {"send", "done", "failed"}
    BY <1>7 DEF PayoutInsert, Goto, TypeInv, TypeOK
  <2>3. \/ UNCHANGED <<payout, paid>>
        \/ payout'[p].status # "none" /\ paid' = [paid EXCEPT ![creator[p]] = @ + debit[p]]
    BY <1>7 DEF PayoutInsert, TypeInv, TypeOK
  <2> QED
    BY <1>7, <2>1, <2>2, <2>3 DEF PayoutInsert, Writes
<1>8. ASSUME NEW m \in Manuals, ManualInsert(m) PROVE Others(m) /\ Writes(m)
  <2>1. Others(m)
    BY <1>8 DEF RowSame, ManualInsert, Goto, TypeInv, TypeOK
  <2>2. pc'[m] \in {"send", "done", "failed"}
    BY <1>8 DEF ManualInsert, Goto, TypeInv, TypeOK
  <2>3. \/ UNCHANGED <<payout, paid>>
        \/ payout'[m].status # "none" /\ paid' = [paid EXCEPT ![creator[m]] = @ + debit[m]]
    BY <1>8 DEF ManualInsert, TypeInv, TypeOK
  <2> QED
    BY <1>8, <2>1, <2>2, <2>3 DEF ManualInsert, Writes
<1>9. ASSUME NEW p \in Payouts, PayoutSend(p) PROVE Others(p) /\ Sends(p)
  BY <1>9 DEF RowSame, Sends, PayoutSend, TypeInv, TypeOK
<1> HIDE DEF Still, Others
<1>10. CASE \E p \in Payouts : PayoutStep(p)
  BY <1>3, <1>5, <1>7, <1>9, <1>10 DEF PayoutStep, Others
<1>11. CASE \E m \in Manuals : ManualStep(m)
  BY <1>4, <1>6, <1>8, <1>11 DEF ManualStep, Others
<1>12. CASE (\E t \in Tips : TipStep(t)) \/ UNCHANGED vars
  BY <1>1, <1>2, <1>12 DEF Still
<1> QED
  BY <1>10, <1>11, <1>12 DEF Next

LEMMA Products ==
    ASSUME NEW n \in Nat, NEW low \in Nat, NEW high \in Nat, low <= high
    PROVE  /\ n * low \in Nat /\ n * high \in Nat
           /\ n * low <= n * high
           /\ (n + 1) * low = n * low + low
BY SMTT(30)

LEMMA RaceStep ==
    ASSUME TypeInv, TypeInv', BoundedInv, RaceInv, [Next]_vars
    PROVE  RaceInv'
<1>u. Unsigned' \subseteq Unsigned /\ Unsigned \subseteq Creators
  BY CausesStay DEF Unsigned
<1>n. \A c \in Creators : /\ ledger[c].lifetime \in Int /\ ledger'[c].lifetime \in Int
                          /\ ledger[c].balance \in Int
                          /\ paid[c] \in Int /\ paid'[c] \in Int
  BY DEF TypeInv, TypeOK
<1>b. \A c \in Unsigned : /\ ledger[c].lifetime >= 0
                          /\ ledger[c].balance <= ledger[c].lifetime
                          /\ paid[c] <= Cardinality(Rows(c)) * ledger[c].lifetime
  BY DEF BoundedInv, LedgerBounded, RaceInv, PaidPerRow
<1>r. \A r \in PayoutRequests :
        /\ amount[r] \in Int /\ debit[r] \in Int
        /\ pc[r] # "idle" => creator[r] \in Creators
        /\ TakesAtMost(r)
  BY Numbers DEF RaceInv
<1>c. \A c \in Creators : IsFiniteSet(Rows(c)) /\ Cardinality(Rows(c)) \in Nat
  BY FS_CardinalityType DEF RaceInv
<1>g. ASSUME \A r \in PayoutRequests : TakesAtMost(r)',
             \A c \in Creators : IsFiniteSet(Rows(c)'),
             \A c \in Unsigned' : paid'[c] <= Cardinality(Rows(c)') * ledger'[c].lifetime
      PROVE  RaceInv'
  BY <1>g DEF RaceInv, PaidPerRow
<1>1. ASSUME \A c \in Unsigned : ledger'[c].lifetime >= ledger[c].lifetime,
             NEW r \in PayoutRequests, RowSame(r)
      PROVE  TakesAtMost(r)'
  <2>1. /\ pc'[r] = pc[r] /\ creator'[r] = creator[r] /\ amount'[r] = amount[r]
        /\ debit'[r] = debit[r] /\ payout'[r] = payout[r]
    BY <1>1 DEF RowSame
  <2>2. ASSUME creator[r] \in Unsigned'
        PROVE  /\ pc[r] = "deduct" => amount[r] <= ledger'[creator[r]].lifetime
               /\ debit[r] <= ledger'[creator[r]].lifetime
    <3>1. /\ creator[r] \in Unsigned /\ creator[r] \in Creators
          /\ ledger'[creator[r]].lifetime >= ledger[creator[r]].lifetime
      BY <1>1, <1>u, <2>2
    <3>2. /\ pc[r] = "deduct" => amount[r] <= ledger[creator[r]].lifetime
          /\ debit[r] <= ledger[creator[r]].lifetime
      BY <1>r, <3>1 DEF TakesAtMost
    <3> QED
      BY <1>n, <1>r, <3>1, <3>2
  <2> QED
    BY <1>r, <2>1, <2>2 DEF TakesAtMost
<1>2. CASE /\ \A r \in PayoutRequests : RowSame(r)
           /\ paid' = paid
           /\ \A c \in Unsigned : ledger'[c].lifetime >= ledger[c].lifetime
  <2>1. \A c \in Creators : Rows(c)' = Rows(c)
    BY <1>2 DEF Rows, RowSame
  <2>2. ASSUME NEW c \in Unsigned'
        PROVE  paid'[c] <= Cardinality(Rows(c)') * ledger'[c].lifetime
    <3> DEFINE n == Cardinality(Rows(c))
               low == ledger[c].lifetime
               high == ledger'[c].lifetime
    <3>0. c \in Unsigned /\ c \in Creators
      BY <1>u
    <3>1. paid[c] <= n * low /\ paid'[c] = paid[c] /\ paid[c] \in Int
      BY <1>2, <1>b, <1>n, <3>0
    <3>2. n \in Nat /\ low \in Nat /\ high \in Nat /\ low <= high
      BY <1>2, <1>b, <1>c, <1>n, <3>0
    <3> HIDE DEF n, low, high
    <3>3. n * low <= n * high /\ n * low \in Nat /\ n * high \in Nat
      BY <3>2, Products
    <3>4. paid'[c] <= n * high
      BY <3>1, <3>3
    <3> QED
      BY <2>1, <3>0, <3>2, <3>4 DEF n, high
  <2>3. \A r \in PayoutRequests : TakesAtMost(r)'
    BY <1>1, <1>2
  <2> QED
    BY <1>c, <1>g, <2>1, <2>2, <2>3
<1>3. ASSUME NEW q \in PayoutRequests, \A r \in PayoutRequests \ {q} : RowSame(r),
             Reads(q) \/ Takes(q) \/ Sends(q)
      PROVE  RaceInv'
  <2>1. /\ payout' = payout /\ paid' = paid
        /\ \A c \in Creators : ledger'[c].lifetime = ledger[c].lifetime
    BY <1>3 DEF Reads, Takes, Sends
  <2>2. TakesAtMost(q)'
    <3>1. CASE Reads(q)
      <4> DEFINE c == creator'[q]
      <4>1. /\ c \in Creators /\ ledger' = ledger /\ payout' = payout /\ debit' = debit
            /\ pc'[q] \in {"refused", "deduct", "insert"}
            /\ pc'[q] = "deduct" => amount'[q] <= ledger[c].balance \/ amount'[q] <= 0
        BY <3>1 DEF Reads
      <4>2. payout[q].status = "none" /\ debit[q] = 0
        BY <1>r, <3>1 DEF Reads, TakesAtMost
      <4>3. amount'[q] \in Int
        BY DEF TypeInv, TypeOK
      <4>4. c \in Unsigned' => /\ pc'[q] = "deduct" => amount'[q] <= ledger'[c].lifetime
                               /\ debit'[q] <= ledger'[c].lifetime
        BY <1>b, <1>n, <1>u, <4>1, <4>2, <4>3
      <4> QED
        BY <4>1, <4>2, <4>4 DEF TakesAtMost
    <3>2. CASE Takes(q)
      <4>1. /\ pc[q] = "deduct" /\ pc'[q] \in {"insert", "failed"}
            /\ debit'[q] \in {0, amount[q]}
            /\ payout' = payout /\ creator' = creator
        BY <3>2 DEF Takes
      <4>2. payout[q].status = "none"
        BY <1>r, <4>1 DEF TakesAtMost
      <4>3. ASSUME creator[q] \in Unsigned' PROVE debit'[q] <= ledger'[creator[q]].lifetime
        <5>1. /\ creator[q] \in Unsigned /\ creator[q] \in Creators
              /\ amount[q] <= ledger[creator[q]].lifetime /\ 0 <= ledger[creator[q]].lifetime
          BY <1>b, <1>r, <1>u, <4>1, <4>3 DEF TakesAtMost
        <5> QED
          BY <2>1, <4>1, <5>1
      <4> QED
        BY <4>1, <4>2, <4>3 DEF TakesAtMost
    <3>3. CASE Sends(q)
      <4>1. /\ pc[q] = "send" /\ pc'[q] = "done"
            /\ UNCHANGED <<creator, amount, debit>>
        BY <3>3 DEF Sends, locals
      <4>2. creator[q] \in Unsigned' => debit[q] <= ledger'[creator[q]].lifetime
        BY <1>r, <1>u, <2>1, <4>1 DEF TakesAtMost
      <4> QED
        BY <4>1, <4>2 DEF TakesAtMost
    <3> QED
      BY <1>3, <3>1, <3>2, <3>3
  <2>3. payout[q].status = "none" \/ creator'[q] = creator[q]
    BY <1>3, <1>r DEF Reads, Takes, Sends, TakesAtMost, locals
  <2>4. \A c \in Creators : Rows(c)' = Rows(c)
    BY <1>3, <2>1, <2>3 DEF Rows, RowSame
  <2>5. \A r \in PayoutRequests : TakesAtMost(r)'
    BY <1>1, <1>3, <1>n, <1>u, <2>1, <2>2
  <2>6. \A c \in Unsigned' : paid'[c] <= Cardinality(Rows(c)') * ledger'[c].lifetime
    BY <1>b, <1>u, <2>1, <2>4
  <2> QED
    BY <1>c, <1>g, <2>4, <2>5, <2>6
<1>4. ASSUME NEW q \in PayoutRequests, \A r \in PayoutRequests \ {q} : RowSame(r), Writes(q)
      PROVE  RaceInv'
  <2>1. /\ pc[q] = "insert" /\ pc'[q] \in {"send", "done", "failed"}
        /\ ledger' = ledger /\ creator' = creator /\ amount' = amount /\ debit' = debit
        /\ payout[q].status = "none" /\ creator[q] \in Creators
    BY <1>4, <1>r DEF Writes, TakesAtMost, locals
  <2>2. TakesAtMost(q)'
    BY <1>r, <1>u, <2>1 DEF TakesAtMost
  <2>3. \A r \in PayoutRequests : TakesAtMost(r)'
    BY <1>1, <1>4, <1>n, <1>u, <2>1, <2>2
  <2>4. CASE UNCHANGED <<payout, paid>>
    <3>1. \A c \in Creators : Rows(c)' = Rows(c)
      BY <2>1, <2>4 DEF Rows
    <3>2. \A c \in Unsigned' : paid'[c] <= Cardinality(Rows(c)') * ledger'[c].lifetime
      BY <1>b, <1>u, <2>1, <2>4, <3>1
    <3> QED
      BY <1>c, <1>g, <2>3, <3>1, <3>2
  <2>5. CASE payout'[q].status # "none" /\ paid' = [paid EXCEPT ![creator[q]] = @ + debit[q]]
    <3>1. ASSUME NEW c \in Creators, c # creator[q]
          PROVE  Rows(c)' = Rows(c) /\ paid'[c] = paid[c]
      <4>1. Rows(c)' = Rows(c)
        BY <1>4, <2>1, <3>1 DEF Rows, RowSame
      <4>2. paid'[c] = paid[c]
        BY <2>5, <3>1 DEF TypeInv, TypeOK
      <4> QED
        BY <4>1, <4>2
    <3>2. ASSUME NEW c \in Creators, c = creator[q]
          PROVE  /\ IsFiniteSet(Rows(c)')
                 /\ Cardinality(Rows(c)') = Cardinality(Rows(c)) + 1
                 /\ paid'[c] = paid[c] + debit[q]
      <4>1. Rows(c)' = Rows(c) \cup {q} /\ q \notin Rows(c)
        BY <1>4, <2>1, <2>5, <3>2 DEF Rows, RowSame
      <4>2. paid'[c] = paid[c] + debit[q]
        BY <2>5, <3>2 DEF TypeInv, TypeOK
      <4> QED
        BY <1>c, <4>1, <4>2, FS_AddElement
    <3>3. ASSUME NEW c \in Unsigned', c = creator[q]
          PROVE  paid'[c] <= Cardinality(Rows(c)') * ledger'[c].lifetime
      <4> DEFINE n == Cardinality(Rows(c))
                 life == ledger[c].lifetime
                 taken == debit[q]
      <4>0. c \in Unsigned /\ c \in Creators
        BY <1>u
      <4>1. paid'[c] = paid[c] + taken /\ taken <= life /\ paid[c] <= n * life
        BY <1>b, <1>r, <3>2, <3>3, <4>0 DEF TakesAtMost
      <4>2. n \in Nat /\ life \in Nat /\ taken \in Int /\ paid[c] \in Int
        BY <1>b, <1>c, <1>n, <1>r, <4>0
      <4>3. Cardinality(Rows(c)') = n + 1 /\ ledger'[c].lifetime = life
        BY <2>1, <3>2, <3>3, <4>0
      <4> HIDE DEF n, life, taken
      <4>4. (n + 1) * life = n * life + life /\ n * life \in Nat
        BY <4>2, Products
      <4>5. paid'[c] <= (n + 1) * life
        BY <4>1, <4>2, <4>4
      <4> QED
        BY <4>3, <4>5
    <3>4. \A c \in Unsigned' : paid'[c] <= Cardinality(Rows(c)') * ledger'[c].lifetime
      BY <1>b, <1>u, <2>1, <3>1, <3>3
    <3>5. \A c \in Creators : IsFiniteSet(Rows(c)')
      BY <1>c, <3>1, <3>2
    <3> QED
      BY <1>g, <2>3, <3>4, <3>5
  <2> QED
    BY <1>4, <2>4, <2>5 DEF Writes
<1> QED
  BY <1>2, <1>3, <1>4, PayoutsMove

\* For any number of creators and requests, any amounts and faults, and payouts that
\* nobody runs one at a time: a creator for whom nobody sent a negative amount is never
\* paid more than all they earned per row.
THEOREM RacesPayPerRow == Spec => []PaidPerRow
<1>1. TypeInv /\ Init => RaceInv
  <2> SUFFICES ASSUME TypeInv, Init PROVE RaceInv
    OBVIOUS
  <2>1. \A r \in PayoutRequests : /\ pc[r] = "idle" /\ debit[r] = 0
                                  /\ payout[r].status = "none" /\ creator[r] = NoCreator
    BY DEF Init
  <2>2. \A r \in PayoutRequests : TakesAtMost(r)
    BY <2>1, NoCreatorIsNone DEF TakesAtMost, Unsigned
  <2>3. ASSUME NEW c \in Creators
        PROVE  /\ IsFiniteSet(Rows(c))
               /\ paid[c] <= Cardinality(Rows(c)) * ledger[c].lifetime
    <3>1. Rows(c) = {} /\ paid[c] = 0
      BY <2>1 DEF Rows, Init
    <3>2. Cardinality(Rows(c)) = 0 /\ IsFiniteSet(Rows(c))
      BY <3>1, FS_EmptySet
    <3>3. ledger[c].lifetime = 0
      BY InitialRows
    <3> QED
      BY <3>1, <3>2, <3>3
  <2> QED
    BY <2>2, <2>3 DEF RaceInv, PaidPerRow, Unsigned
<1>2. TypeInv /\ TypeInv' /\ BoundedInv /\ RaceInv /\ [Next]_vars => RaceInv'
  BY RaceStep
<1>3. RaceInv => PaidPerRow
  BY DEF RaceInv
<1> QED
  BY <1>1, <1>2, <1>3, TypeInvariant, BoundedInvariant, PTL DEF Spec
=============================================================================
