----------------------------- MODULE MCBankIngest -----------------------------
(* A payment, its repetition under another request id, a validation that    *)
(* carries the same reference, a payment on the platform's key, and one     *)
(* signed by the wrong company.                                             *)
EXTENDS BankIngest, TLC

CONSTANTS a1, a2, c1, c2, i1, i2, t1, t2, t3, q1, q2, q3

message(leg, txn, req, signer, dest, ref) ==
  [leg |-> leg, txn |-> txn, req |-> req, signer |-> signer, dest |-> dest,
   amount |-> 1, ref |-> ref]

payment    == message("ACCOUNT", t1, q1, c1, a1, i1)
repetition == message("ACCOUNT", t1, q2, c1, a1, i1)
validation == message("VALIDATION", t1, None, c1, a1, i1)
till       == message("TILL", t2, q3, Platform, a2, None)
misdirect  == message("ACCOUNT", t3, None, c1, a2, i2)

MCMessages == {payment, repetition, validation, till, misdirect}
MCTraffic == {{payment, repetition}, {payment, validation}, {till, misdirect}}

MCAccounts == {a1, a2}
MCStartActive == {MCAccounts, {}}
MCCompanyOf == (a1 :> c1) @@ (a2 :> c2)
MCInvoices == {i1, i2}
MCInvoiceOf == (i1 :> c1) @@ (i2 :> c1)
MCOutstanding == (i1 :> 1) @@ (i2 :> 1)
=============================================================================
