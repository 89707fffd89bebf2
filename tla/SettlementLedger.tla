-------------------------- MODULE SettlementLedger --------------------------
(***************************************************************************)
(* What the settlement of a posted payable promises, with no vouchers, no  *)
(* people and no statuses: an amount falls due once, vouchers reserve it   *)
(* and are either released or settled.  ExpenseToPay implements it.        *)
(***************************************************************************)
EXTENDS Integers

CONSTANT Payables   \* amounts a payable may be booked at

VARIABLES
  due,       \* liability booked to Accounts Payable
  reserved,  \* total of the vouchers that are not rejected
  paid       \* total of the executed vouchers

ledgerVars == <<due, reserved, paid>>

LedgerInit == due = 0 /\ reserved = 0 /\ paid = 0

Book(d) ==
  /\ d \in Nat \ {0}
  /\ due = 0
  /\ due' = d
  /\ UNCHANGED <<reserved, paid>>

Reserve(a) ==
  /\ a > 0 /\ reserved + a <= due
  /\ reserved' = reserved + a
  /\ UNCHANGED <<due, paid>>

Release(a) ==
  /\ a > 0 /\ paid + a <= reserved
  /\ reserved' = reserved - a
  /\ UNCHANGED <<due, paid>>

Settle(a) ==
  /\ a > 0 /\ paid + a <= reserved
  /\ paid' = paid + a
  /\ UNCHANGED <<due, reserved>>

LedgerNext ==
  \/ \E d \in Payables : Book(d)
  \/ \E a \in 1..reserved : Release(a) \/ Settle(a)
  \/ \E a \in 1..due : Reserve(a)

LedgerSpec == LedgerInit /\ [][LedgerNext]_ledgerVars

\* The doc's "pending and approved vouchers reserve the outstanding balance":
\* cash out never exceeds what is reserved, nor reservations what is owed.
Solvent ==
  /\ due \in Nat /\ reserved \in Nat /\ paid \in Nat
  /\ paid <= reserved
  /\ reserved <= due

\* Money that went out stays out, and a booked liability is never rebooked.
PaymentsAreFinal == [][paid' >= paid /\ (due > 0 => due' = due)]_ledgerVars
=============================================================================
