--------------------------- MODULE MCCreatorLedger ---------------------------
(***************************************************************************)
(* CreatorLedger for TLC: the symmetry of the ids, and the properties that *)
(* sum over the tips or count the payouts rows.                            *)
(***************************************************************************)
EXTENDS CreatorLedger, TLC, FiniteSetsExt

\* The amounts of the runs with negative ones, which a .cfg cannot write.
SignedAmounts == {60, -60}

Symmetry == UNION {Permutations(S) : S \in {Creators, Tips, Payouts, Manuals}}

\* What a creator earned in all is exactly the net of tips that have a
\* transactions row: no tip is credited twice or without a row, whatever
\* statement fails.
CreditsBacked ==
    \A c \in Creators :
        /\ \A t \in credited : txn[t] # "none"
        /\ ledger[c].lifetime =
             MapThenSumSet(LAMBDA t : Net(amount[t]),
                           {t \in credited : creator[t] = c})

\* The payouts rows of a creator.
Rows(c) == {r \in PayoutRequests : payout[r].status # "none" /\ creator[r] = c}

\* However many payouts of a creator race and fail, what was debited for the rows of
\* payouts is at most what the creator earned in all, once per row: a race pays the
\* same money twice, but never money that was not earned, where no amount is negative.
PaidPerRow ==
    \A c \in Unsigned : paid[c] <= Cardinality(Rows(c)) * ledger[c].lifetime
=============================================================================
