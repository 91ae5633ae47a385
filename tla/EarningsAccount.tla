--------------------------- MODULE EarningsAccount ---------------------------
(***************************************************************************)
(* What the creator ledger promises, with no statement order in it: a      *)
(* creator's account earns, and money is withdrawn from it, and all that   *)
(* was ever withdrawn was earned before.  It is the Ledger of              *)
(* pkg/payment/interface.go (Credit, Debit) with the balance written as    *)
(* earned minus withdrawn.                                                 *)
(*                                                                         *)
(* The promise has callers: one that sends a negative amount, or runs two  *)
(* payouts of a creator at once, voids that creator's account.  Nothing is *)
(* promised of a void account, and everything still of the others.         *)
(***************************************************************************)
EXTENDS Integers

CONSTANT Creators

VARIABLES earned, withdrawn, void

Init ==
    /\ earned = [c \in Creators |-> 0]
    /\ withdrawn = [c \in Creators |-> 0]
    /\ void = {}

Credit(c) ==
    /\ c \notin void
    /\ earned'[c] >= earned[c]
    /\ earned' = [earned EXCEPT ![c] = earned'[c]]
    /\ UNCHANGED <<withdrawn, void>>

Debit(c) ==
    /\ c \notin void
    /\ withdrawn'[c] >= withdrawn[c]
    /\ withdrawn'[c] <= earned[c]
    /\ withdrawn' = [withdrawn EXCEPT ![c] = withdrawn'[c]]
    /\ UNCHANGED <<earned, void>>

\* The account becomes void, or something happens to one that is.
Spoil(c) ==
    /\ void' = void \cup {c}
    /\ earned' = [earned EXCEPT ![c] = earned'[c]]
    /\ withdrawn' = [withdrawn EXCEPT ![c] = withdrawn'[c]]

Next == \E c \in Creators : Credit(c) \/ Debit(c) \/ Spoil(c)

Spec == Init /\ [][Next]_<<earned, withdrawn, void>>
=============================================================================
