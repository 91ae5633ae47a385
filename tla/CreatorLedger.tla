---------------------------- MODULE CreatorLedger ----------------------------
(***************************************************************************)
(* The money a creator earns and is paid: the tables transactions,         *)
(* creator_ledger and payouts, and the requests of the payment service     *)
(* that write them (SendTip, ProcessPayout, AdminTriggerPayout and         *)
(* AdminIssueRefund of services/payment/internal/service/payment.go).      *)
(*                                                                         *)
(* Every HTTP request is a goroutine and the service opens no SQL          *)
(* transaction, so one action is one SQL statement (or one PayPal call)    *)
(* and the statements of different requests interleave freely.  A          *)
(* statement has an outcome: "ok"; "err", it had no effect; "lost", it     *)
(* took effect but the caller saw an error (a dropped connection, the      *)
(* request's 30 s deadline).  A crash of the process after a statement is  *)
(* a request that takes no further step.                                   *)
(*                                                                         *)
(* Amounts are integers of the smallest currency unit; the code uses       *)
(* floats, whose rounding is not modelled.  No handler, statement or       *)
(* migration refuses a negative amount, so none is refused here, and       *)
(* nothing keeps two payouts of one creator apart.  What the code promises *)
(* only while neither happens is stated per creator, for those to whom     *)
(* neither has happened (Careful).                                         *)
(***************************************************************************)
EXTENDS Integers

CONSTANTS
    Creators,              \* users with a creator_ledger row, or about to get one
    Tips,                  \* requests POST /tip, each the id of its transactions row
    Payouts,               \* calls of ProcessPayout, each the id of its payouts row
    Manuals,               \* requests POST /admin/payouts, each the id of its payouts row
    Amounts,               \* the amounts clients send
    PlatformFeePct,        \* cfg.PlatformFeePct
    PayoutThreshold,       \* cfg.PayoutThreshold
    PayPalConfigured,      \* s.paypal != nil
    RouteBindsCreator,     \* does ProcessPayout get the creator's id from its caller?
    Faults,                \* the faulty outcomes a statement may have
    NoCreator              \* the empty id

ASSUME AmountsAreInt    == Amounts \subseteq Int
ASSUME FeeIsPercentage  == PlatformFeePct \in 0..100
ASSUME ThresholdIsNat   == PayoutThreshold \in Nat \ {0}
ASSUME FlagsAreBoolean  == /\ PayPalConfigured \in BOOLEAN
                           /\ RouteBindsCreator \in BOOLEAN
ASSUME FaultsAreKnown   == Faults \subseteq {"err", "lost"}
ASSUME NoCreatorIsNone  == NoCreator \notin Creators
ASSUME RequestsDisjoint == /\ Tips \cap Payouts = {}
                           /\ Tips \cap Manuals = {}
                           /\ Payouts \cap Manuals = {}

VARIABLES
    ledger,     \* creator_ledger: a creator's row (an absent row reads as zeros)
    txn,        \* transactions: status of a tip's row, "none" while there is no row
    payout,     \* payouts: a request's row, its status "none" while there is no row
    paypal,     \* what PayPal has sent for a payout request (external)
    pc,         \* where a request stands: the statement it runs next, or how it ended
    creator,    \* the creator a request is about
    amount,     \* the amount of a tip or manual payout; the balance a payout read
    debit,      \* what a payout request took from the balance
    credited,   \* history: the tips whose net was added to a ledger row
    paid,       \* history: per creator, the sum of the payouts rows' debits
    raced       \* history: the creators who had two payouts under way at once

locals == <<creator, amount, debit>>
vars == <<ledger, txn, payout, paypal, pc, locals, credited, paid, raced>>

PayoutRequests == Payouts \cup Manuals
Requests == Tips \cup PayoutRequests
Outcomes == {"ok"} \cup Faults

\* What SendTip credits: the gross amount less the platform's fee.
Net(gross) == gross - ((gross * PlatformFeePct) \div 100)

(***************************************************************************)
(* Auxiliaries: an SQL statement with outcome o has its effect unless it   *)
(* failed outright, and its request goes on only if it saw the success.    *)
(***************************************************************************)
Applied(o) == o # "err"

Goto(r, o, next) == pc' = [pc EXCEPT ![r] = IF o = "ok" THEN next ELSE "failed"]

\* A payout request that read the balance and has not written its row.
Underway(r) == pc[r] \in {"deduct", "insert"}

\* A payout request of creator c goes on to a stage; it races if another is under way.
Proceed(r, c, stage) ==
    /\ pc' = [pc EXCEPT ![r] = stage]
    /\ raced' = IF /\ stage \in {"deduct", "insert"}
                   /\ \E q \in PayoutRequests : Underway(q) /\ creator[q] = c
                THEN raced \cup {c} ELSE raced

\* GetBalance of a creator the request names: an error or an absent row reads as 0.
BalanceRead(c, o) == IF o = "ok" /\ c \in Creators THEN ledger[c].balance ELSE 0

-----------------------------------------------------------------------------
Init ==
    /\ ledger = [c \in Creators |-> [balance |-> 0, lifetime |-> 0, pending |-> 0]]
    /\ txn = [t \in Tips |-> "none"]
    /\ payout = [r \in PayoutRequests |-> [status |-> "none", amount |-> 0]]
    /\ paypal = [p \in Payouts |-> 0]
    /\ pc = [r \in Requests |-> "idle"]
    /\ creator = [r \in Requests |-> NoCreator]
    /\ amount = [r \in Requests |-> 0]
    /\ debit = [r \in Requests |-> 0]
    /\ credited = {}
    /\ paid = [c \in Creators |-> 0]
    /\ raced = {}

(***************************************************************************)
(* Mutants of the actions below: each is a plausible slip in the code that *)
(* one of the properties notices.                                          *)
(***************************************************************************)
\* SendTip goes on to credit although the INSERT failed.
TipRecordIgnoresError(t) ==
    /\ pc[t] = "idle"
    /\ \E c \in Creators, a \in Amounts, o \in Outcomes :
        /\ txn' = [txn EXCEPT ![t] = IF Applied(o) THEN "completed" ELSE @]
        /\ creator' = [creator EXCEPT ![t] = c]
        /\ amount' = [amount EXCEPT ![t] = a]
    /\ pc' = [pc EXCEPT ![t] = "credit"]
    /\ UNCHANGED <<ledger, payout, paypal, debit, credited, paid, raced>>

DeductWriting(p, balance, pending) ==
    LET c == creator[p]
    IN  /\ pc[p] = "deduct"
        /\ ledger' = [ledger EXCEPT ![c].balance = balance, ![c].pending = pending]
        /\ debit' = [debit EXCEPT ![p] = amount[p]]
        /\ Goto(p, "ok", "insert")
        /\ UNCHANGED <<txn, payout, paypal, creator, amount, credited, paid, raced>>

\* The balance is not set to zero; it is set to zero before pending_payout copies it;
\* the balance that was read is added to pending_payout.
PayoutKeepsBalance(p)   == DeductWriting(p, ledger[creator[p]].balance, ledger[creator[p]].balance)
PayoutZeroesFirst(p)    == DeductWriting(p, 0, 0)
PayoutAddsWhatItRead(p) == DeductWriting(p, 0, ledger[creator[p]].pending + amount[p])

\* ProcessPayout calls PayPal although the INSERT failed.
PayoutInsertIgnoresError(p) ==
    /\ pc[p] = "insert"
    /\ \E o \in Outcomes :
        payout' = IF Applied(o)
                  THEN [payout EXCEPT ![p] = [status |-> "pending", amount |-> amount[p]]]
                  ELSE payout
    /\ pc' = [pc EXCEPT ![p] = "send"]
    /\ UNCHANGED <<ledger, txn, paypal, locals, credited, paid, raced>>

\* ProcessPayout saves the status of its reply in the row.
PayoutSendSavesStatus(p) ==
    /\ pc[p] = "send"
    /\ \E o \in Outcomes :
        /\ paypal' = [paypal EXCEPT ![p] = IF Applied(o) THEN @ + amount[p] ELSE @]
        /\ payout' = [payout EXCEPT ![p].status = IF o = "ok" THEN @ ELSE "failed"]
    /\ pc' = [pc EXCEPT ![p] = "done"]
    /\ UNCHANGED <<ledger, txn, locals, credited, paid, raced>>

\* AdminTriggerPayout debits whatever the balance is.
ManualReadUnchecked(m) ==
    /\ pc[m] = "idle"
    /\ \E c \in Creators, a \in Amounts :
        /\ creator' = [creator EXCEPT ![m] = c]
        /\ amount' = [amount EXCEPT ![m] = a]
        /\ Proceed(m, c, "deduct")
    /\ UNCHANGED <<ledger, txn, payout, paypal, debit, credited, paid>>

\* AdminTriggerPayout forgets pending_payout.
ManualDeductForgets(m) ==
    LET c == creator[m]
    IN  /\ pc[m] = "deduct"
        /\ ledger' = [ledger EXCEPT ![c].balance = @ - amount[m]]
        /\ debit' = [debit EXCEPT ![m] = amount[m]]
        /\ Goto(m, "ok", "insert")
        /\ UNCHANGED <<txn, payout, paypal, creator, amount, credited, paid, raced>>

(***************************************************************************)
(* SendTip: INSERT INTO transactions, then the upsert of creator_ledger    *)
(* whose error is only logged.                                             *)
(***************************************************************************)
TipRecord(t) ==
    /\ pc[t] = "idle"
    /\ \E c \in Creators, a \in Amounts, o \in Outcomes :
        /\ txn' = [txn EXCEPT ![t] = IF Applied(o) THEN "completed" ELSE @]
        /\ creator' = [creator EXCEPT ![t] = c]
        /\ amount' = [amount EXCEPT ![t] = a]
        /\ Goto(t, o, "credit")
    /\ UNCHANGED <<ledger, payout, paypal, debit, credited, paid, raced>>

TipCredit(t) ==
    LET net == Net(amount[t])
        c   == creator[t]
    IN  /\ pc[t] = "credit"
        /\ \E o \in Outcomes :
            IF Applied(o)
            THEN /\ ledger' = [ledger EXCEPT ![c].balance = @ + net, ![c].lifetime = @ + net]
                 /\ credited' = credited \cup {t}
            ELSE UNCHANGED <<ledger, credited>>
        /\ pc' = [pc EXCEPT ![t] = "done"]
        /\ UNCHANGED <<txn, payout, paypal, locals, paid, raced>>

(***************************************************************************)
(* AdminIssueRefund: one UPDATE of a completed row; the ledger is not      *)
(* touched.                                                                *)
(***************************************************************************)
IssueRefund(t) ==
    /\ txn[t] = "completed"
    /\ txn' = [txn EXCEPT ![t] = "refunded"]
    /\ UNCHANGED <<ledger, payout, paypal, pc, locals, credited, paid, raced>>

(***************************************************************************)
(* ProcessPayout: read the balance, refuse below the threshold, set the    *)
(* balance to 0 and pending_payout to what the row held at that moment,    *)
(* insert the payouts row for the amount that was READ, send it.           *)
(***************************************************************************)
PayoutRead(p) ==
    /\ pc[p] = "idle"
    /\ \E c \in Creators, o \in Outcomes :
        LET seen    == IF RouteBindsCreator THEN c ELSE NoCreator
            balance == BalanceRead(seen, o)
        IN  /\ creator' = [creator EXCEPT ![p] = c]
            /\ amount' = [amount EXCEPT ![p] = balance]
            /\ Proceed(p, c, IF balance < PayoutThreshold THEN "refused" ELSE "deduct")
    /\ UNCHANGED <<ledger, txn, payout, paypal, debit, credited, paid>>

PayoutDeduct(p) ==
    LET c == creator[p]
    IN  /\ p \in Payouts
        /\ pc[p] = "deduct"
        /\ \E o \in Outcomes :
            /\ ledger' = IF Applied(o)
                         THEN [ledger EXCEPT ![c].balance = 0, ![c].pending = ledger[c].balance]
                         ELSE ledger
            /\ debit' = [debit EXCEPT ![p] = IF Applied(o) THEN amount[p] ELSE 0]
            /\ Goto(p, o, "insert")
        /\ UNCHANGED <<txn, payout, paypal, creator, amount, credited, paid, raced>>

\* The row is written with status "pending" and no statement updates it later.
PayoutInsert(p) ==
    LET c == creator[p]
    IN  /\ p \in Payouts
        /\ pc[p] = "insert"
        /\ \E o \in Outcomes :
            /\ IF Applied(o)
               THEN /\ payout' = [payout EXCEPT ![p] =
                                    [status |-> "pending", amount |-> amount[p]]]
                    /\ paid' = [paid EXCEPT ![c] = @ + debit[p]]
               ELSE UNCHANGED <<payout, paid>>
            /\ Goto(p, o, IF PayPalConfigured THEN "send" ELSE "done")
        /\ UNCHANGED <<ledger, txn, paypal, locals, credited, raced>>

\* The PayPal call; its error only changes the status in the reply.
PayoutSend(p) ==
    /\ pc[p] = "send"
    /\ \E o \in Outcomes :
        paypal' = [paypal EXCEPT ![p] = IF Applied(o) THEN @ + amount[p] ELSE @]
    /\ pc' = [pc EXCEPT ![p] = "done"]
    /\ UNCHANGED <<ledger, txn, payout, locals, credited, paid, raced>>

(***************************************************************************)
(* AdminTriggerPayout: read the balance (an error reads as 0); debit only  *)
(* if it covers the amount, by an UPDATE relative to the current row;      *)
(* insert the payouts row whether or not a debit was made.                 *)
(***************************************************************************)
ManualRead(m) ==
    /\ pc[m] = "idle"
    /\ \E c \in Creators, a \in Amounts, o \in Outcomes :
        /\ creator' = [creator EXCEPT ![m] = c]
        /\ amount' = [amount EXCEPT ![m] = a]
        /\ Proceed(m, c, IF BalanceRead(c, o) >= a THEN "deduct" ELSE "insert")
    /\ UNCHANGED <<ledger, txn, payout, paypal, debit, credited, paid>>

ManualDeduct(m) ==
    LET c == creator[m]
        a == amount[m]
    IN  /\ m \in Manuals
        /\ pc[m] = "deduct"
        /\ \E o \in Outcomes :
            /\ ledger' = IF Applied(o)
                         THEN [ledger EXCEPT ![c].balance = @ - a, ![c].pending = @ + a]
                         ELSE ledger
            /\ debit' = [debit EXCEPT ![m] = IF Applied(o) THEN a ELSE 0]
            /\ Goto(m, o, "insert")
        /\ UNCHANGED <<txn, payout, paypal, creator, amount, credited, paid, raced>>

ManualInsert(m) ==
    LET c == creator[m]
        a == amount[m]
    IN  /\ m \in Manuals
        /\ pc[m] = "insert"
        /\ \E o \in Outcomes :
            /\ IF Applied(o)
               THEN /\ payout' = [payout EXCEPT ![m] =
                                    [status |-> "pending_manual", amount |-> a]]
                    /\ paid' = [paid EXCEPT ![c] = @ + debit[m]]
               ELSE UNCHANGED <<payout, paid>>
            /\ Goto(m, o, "done")
        /\ UNCHANGED <<ledger, txn, paypal, locals, credited, raced>>

-----------------------------------------------------------------------------
TipStep(t)    == TipRecord(t) \/ TipCredit(t) \/ IssueRefund(t)
PayoutStep(p) == PayoutRead(p) \/ PayoutDeduct(p) \/ PayoutInsert(p) \/ PayoutSend(p)
ManualStep(m) == ManualRead(m) \/ ManualDeduct(m) \/ ManualInsert(m)

Next == \/ \E t \in Tips : TipStep(t)
        \/ \E p \in Payouts : PayoutStep(p)
        \/ \E m \in Manuals : ManualStep(m)

Spec == Init /\ [][Next]_vars

-----------------------------------------------------------------------------
Statuses == {"none", "pending", "pending_manual"}
Stages == {"idle", "credit", "deduct", "insert", "send", "done", "refused", "failed"}

(***************************************************************************)
(* The type invariant.  The money columns have no CHECK: they are integers *)
(* of any sign.                                                            *)
(***************************************************************************)
TypeOK ==
    /\ ledger \in [Creators -> [balance : Int, lifetime : Int, pending : Int]]
    /\ txn \in [Tips -> {"none", "completed", "refunded"}]
    /\ payout \in [PayoutRequests -> [status : Statuses, amount : Int]]
    /\ paypal \in [Payouts -> Int]
    /\ pc \in [Requests -> Stages]
    /\ creator \in [Requests -> Creators \cup {NoCreator}]
    /\ amount \in [Requests -> Int]
    /\ debit \in [Requests -> Int]
    /\ credited \subseteq Tips
    /\ paid \in [Creators -> Int]
    /\ raced \subseteq Creators

(***************************************************************************)
(* What the code leaves to its callers: amounts that are not negative and  *)
(* one payout of a creator at a time.                                      *)
(***************************************************************************)
NegativeTip(c)    == \E t \in Tips : creator[t] = c /\ amount[t] < 0
NegativeManual(c) == \E m \in Manuals : creator[m] = c /\ amount[m] < 0

\* The creators for whom no negative amount was sent, and those of them who had no
\* two payouts under way at once.
Unsigned == {c \in Creators : ~NegativeTip(c) /\ ~NegativeManual(c)}
Careful == Unsigned \ raced

\* However requests interleave and fail, a row never shows a balance, nor a
\* balance plus pending payout, above what the creator earned in all, unless a
\* negative amount was sent: the overwrite of pending_payout by ProcessPayout and
\* the relative UPDATEs of the other requests, racing or not, never create money
\* in the table.  (A negative amount does: a manual payout of -60 raises the
\* balance, and ProcessPayout sets to 0 a balance that tips took below 0.)
LedgerBounded ==
    \A c \in Unsigned :
        /\ ledger[c].balance <= ledger[c].lifetime
        /\ ledger[c].balance + ledger[c].pending <= ledger[c].lifetime

\* Two payouts under way at once and negative amounts are the only ways to pay a
\* creator more than was earned: to anyone else the debited payouts rows and the
\* remaining balance never exceed it, although tips are credited between the read
\* of the balance and its deduction, payouts of others run, and statements fail.
NoOverpay ==
    \A c \in Careful : paid[c] + ledger[c].balance <= ledger[c].lifetime

\* They are also the only ways to a negative balance: the relative UPDATE of
\* AdminTriggerPayout, which no condition guards, takes no other balance below zero.
OverdrawnOnlyByRaces ==
    \A c \in Careful : ledger[c].balance >= 0

\* PayPal sends money at most once per payout request, only after the payouts
\* row was written, for exactly the row's amount and never below the threshold.
PayPalBacked ==
    \A p \in Payouts : paypal[p] # 0 =>
        /\ payout[p] = [status |-> "pending", amount |-> paypal[p]]
        /\ paypal[p] >= PayoutThreshold

\* Money leaves a balance only into pending_payout: a step that lowers the balance
\* of a creator without races and negative amounts leaves at least as much pending.
DebitsBecomePending ==
    [][\A c \in Careful' :
        ledger'[c].balance < ledger[c].balance =>
            ledger'[c].pending >= ledger[c].balance - ledger'[c].balance]_vars

\* Only ProcessPayout's overwrite of pending_payout loses track of money: a creator
\* none of whose payouts was deducted has every cent earned available or pending,
\* whatever manual payouts race and fail.
Conserved ==
    \A c \in Creators :
        (\A p \in Payouts : creator[p] = c => debit[p] = 0) =>
            ledger[c].balance + ledger[c].pending = ledger[c].lifetime

\* Each creator's account, seen as earned and withdrawn, is an EarningsAccount that
\* a race or a negative amount voids, for that creator alone.
Account == INSTANCE EarningsAccount WITH
    earned    <- [c \in Creators |-> ledger[c].lifetime],
    withdrawn <- paid,
    void      <- Creators \ Careful
ImplementsAccount == Account!Spec

(***************************************************************************)
(* What comments and docs say and the code does not do.                    *)
(***************************************************************************)
\* A tip that was answered with success was credited to the creator's ledger.
TipCredited == \A t \in Tips : pc[t] = "done" => t \in credited

\* A balance is never negative: a manual payout deducts "if there's balance".
BalanceNonNegative == \A c \in Creators : ledger[c].balance >= 0

\* A payout request is refused only if the creator's balance is below the threshold.
RefusedOnlyBelowThreshold ==
    [][\A p \in Payouts : (pc[p] = "idle" /\ pc'[p] = "refused") =>
            ledger[creator'[p]].balance < PayoutThreshold]_vars

=============================================================================
