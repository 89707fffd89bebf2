------------------------------ MODULE BankIngest ------------------------------
(***************************************************************************)
(* Bank payment notifications.  The bank pushes a signed message and       *)
(* repeats it until it is answered, so copies of one message race each     *)
(* other and requests die half way.  A request attributes the message to   *)
(* a company, stages it, credits the bank account once, links an open      *)
(* invoice when exactly one fits, and answers.  Operators link and unlink  *)
(* by hand.  The KCB code is modelled; the Equity code is a copy of it.    *)
(***************************************************************************)
EXTENDS Integers, Sequences, FiniteSets

CONSTANTS
  Messages,     \* what the bank sends: leg, txn, req, signer, dest, amount, ref
  Traffic,      \* the sets of messages the bank may have to send
  Accounts,     \* bank_accounts.id
  StartActive,  \* the sets of accounts that may be active at the start
  CompanyOf,    \* CompanyOf[a]: company of account a
  Invoices,     \* customer_invoices.id
  InvoiceOf,    \* InvoiceOf[i]: company of invoice i
  Outstanding,  \* Outstanding[i]: total - amount_paid of invoice i
  Handlers,     \* HTTP requests the API serves at a time
  Platform,     \* signer of a message verified by the platform's own key
  None,         \* no key verifies, no identifier, no account, no invoice
  MaxFaults,    \* bound on crashes, failed look-ups and lost answers
  MaxOps        \* bound on what operators do

ASSUME IngestAssumption ==
  /\ Traffic \subseteq SUBSET Messages /\ StartActive \subseteq SUBSET Accounts
  /\ \A m \in Messages : m.txn # None \/ m.req # None
  /\ CompanyOf \in [Accounts -> {CompanyOf[a] : a \in Accounts}]
  /\ None \notin Accounts \cup Invoices \cup {CompanyOf[a] : a \in Accounts}
  /\ MaxFaults \in Nat /\ MaxOps \in Nat

VARIABLES
  rows,     \* kcb_payment_notifications, committed, in id order
  lines,    \* bank_transactions: the row each was posted for and its account
  active,   \* accounts with is_active
  open,     \* invoices in OPEN_INVOICE_STATUSES
  handling, \* handling[q]: where the handling of a message is
  bank,     \* bank[m]: none, unsent, waiting, accepted or refused, to the bank
  faults, ops

ingestVars == <<rows, lines, active, open, handling, bank, faults, ops>>

free == [pc |-> "idle"]

\* uq_kcb_notifications_txn and uq_kcb_notifications_request.
sameTransaction(m, n) ==
  \/ m.txn # None /\ m.txn = n.txn
  \/ m.req # None /\ m.req = n.req

stored(company, m) ==
  {r \in DOMAIN rows : rows[r].company = company /\ sameTransaction(m, rows[r].msg)}

first(ids) == CHOOSE r \in ids : \A q \in ids : r <= q

step(q, rec) == handling' = [handling EXCEPT ![q] = rec]

-----------------------------------------------------------------------------
(* The bank *)

\* The first delivery, or a repetition of one that was not answered in time.
deliver(q, m) ==
  /\ handling[q].pc = "idle"
  /\ bank[m] \in {"unsent", "waiting"}
  /\ bank' = [bank EXCEPT ![m] = "waiting"]
  /\ step(q, [pc |-> "attribute", msg |-> m])
  /\ UNCHANGED <<rows, lines, active, open, faults, ops>>

-----------------------------------------------------------------------------
(* One request *)

refuse(q) ==
  step(q, [pc |-> "reply", msg |-> handling[q].msg, answer |-> "refused"])

\* The company whose account the message names, over all companies.
resolveAccount(m) == IF m.dest \in active THEN CompanyOf[m.dest] ELSE None

\* A key of one company may not credit an account of another.
outOfScope(signer, resolved) == resolved \notin {None, signer} /\ signer # Platform

\* The message is bound to the company of the account, or of the key.
attribute(q, resolved) ==
  LET m == handling[q].msg
      company == IF resolved # None THEN resolved ELSE m.signer
  IN IF m.signer = None \/ outOfScope(m.signer, resolved) \/ company = Platform
     THEN refuse(q)
     ELSE step(q, [pc |-> "lookup", msg |-> m, company |-> company])

verifyAndAttribute(q) ==
  /\ handling[q].pc = "attribute"
  /\ attribute(q, resolveAccount(handling[q].msg))
  /\ UNCHANGED <<rows, lines, active, open, bank, faults, ops>>

\* A failed account look-up counts as an account nobody has.
resolveAccountFails(q) ==
  /\ handling[q].pc = "attribute" /\ faults < MaxFaults
  /\ faults' = faults + 1
  /\ attribute(q, None)
  /\ UNCHANGED <<rows, lines, active, open, bank, ops>>

\* A failed read of the keys leaves no candidate key: the message is refused.
verificationKeysFail(q) ==
  /\ handling[q].pc = "attribute" /\ faults < MaxFaults
  /\ faults' = faults + 1
  /\ refuse(q)
  /\ UNCHANGED <<rows, lines, active, open, bank, ops>>

\* kcb_ipn_stage up to its replay defence: the account, confined to the
\* company, and a stored row by transaction id or else by request id.
stageLookup(q) ==
  /\ handling[q].pc = "lookup"
  /\ LET m == handling[q].msg
         company == handling[q].company
         account == IF m.dest \in active /\ CompanyOf[m.dest] = company
                    THEN m.dest ELSE None
         byTxn == {r \in stored(company, m) : m.txn # None /\ rows[r].msg.txn = m.txn}
         found == IF byTxn # {} THEN byTxn ELSE stored(company, m)
         fresh == [msg |-> m, company |-> company, account |-> account,
                   status |-> "RECEIVED", line |-> 0, matched |-> None]
     IN step(q, [pc |-> IF found # {} THEN "post" ELSE "insert", msg |-> m,
                 company |-> company, fresh |-> fresh,
                 row |-> IF found # {} THEN first(found) ELSE 0])
  /\ UNCHANGED <<rows, lines, active, open, bank, faults, ops>>

\* Mutant: the index is claimed before the other claim is looked at.
indexFree_Claimed(q) ==
  \A p \in Handlers \ {q} :
    ~(/\ handling[p].pc \in {"insert", "post"} /\ handling[p].row = 0
      /\ handling[p].company = handling[q].company
      /\ sameTransaction(handling[p].msg, handling[q].msg))

\* The unique indexes: an insert waits for another request's uncommitted row.
indexFree(q) ==
  \A p \in Handlers \ {q} :
    ~(/\ handling[p].pc = "post" /\ handling[p].row = 0
      /\ handling[p].company = handling[q].company
      /\ sameTransaction(handling[p].msg, handling[q].msg))

\* Mutant: no unique index, the insert always goes through.
stageInsert_NoIndex(q) ==
  /\ handling[q].pc = "insert"
  /\ step(q, [handling[q] EXCEPT !.pc = "post"])
  /\ UNCHANGED <<rows, lines, active, open, bank, faults, ops>>

\* Mutant: the bank is answered before the transaction commits.
stageInsert_AckFirst(q) ==
  /\ handling[q].pc = "insert" /\ indexFree(q)
  /\ LET won == stored(handling[q].company, handling[q].msg) IN
       step(q, [handling[q] EXCEPT !.pc = "post",
                                  !.row = IF won # {} THEN first(won) ELSE 0])
  /\ bank' = [bank EXCEPT ![handling[q].msg] = "accepted"]
  /\ UNCHANGED <<rows, lines, active, open, faults, ops>>

\* The insert with ON CONFLICT DO NOTHING, and the read-back of the winner.
stageInsert(q) ==
  /\ handling[q].pc = "insert" /\ indexFree(q)
  /\ LET won == stored(handling[q].company, handling[q].msg) IN
       step(q, [handling[q] EXCEPT !.pc = "post",
                                  !.row = IF won # {} THEN first(won) ELSE 0])
  /\ UNCHANGED <<rows, lines, active, open, bank, faults, ops>>

\* The one open invoice a credit fits, or None when two fit and no reference
\* tells them apart.
findInvoiceMatch(company, m) ==
  LET fits == {i \in open : InvoiceOf[i] = company /\ Outstanding[i] = m.amount} IN
    IF Cardinality(fits) = 1 THEN CHOOSE i \in fits : TRUE
    ELSE IF m.ref \in fits THEN m.ref ELSE None

\* kcb_ipn_post_transaction posts a row once, and only money on a known account.
postable(row) == row.line = 0 /\ row.account # None /\ row.msg.leg # "VALIDATION"

\* Mutant: the automatic link overwrites the one that stands.
linkable_Any(row) == row.line # 0

\* Only a POSTED row is linked automatically.
linkable(row) == row.line # 0 /\ row.status = "POSTED"

\* The rest of persist: lock and post the row, link an invoice, commit.
persist(q) ==
  /\ handling[q].pc = "post"
  /\ LET m == handling[q].msg
         isNew == handling[q].row = 0
         id == IF isNew THEN Len(rows) + 1 ELSE handling[q].row
         row == IF isNew THEN handling[q].fresh ELSE rows[id]
         posted == IF postable(row)
                   THEN [row EXCEPT !.line = Len(lines) + 1, !.status = "POSTED"]
                   ELSE row
         invoice == IF m.leg # "VALIDATION" THEN findInvoiceMatch(handling[q].company, m) ELSE None
         linked == IF linkable(posted) /\ invoice # None
                   THEN [posted EXCEPT !.status = "MATCHED", !.matched = invoice]
                   ELSE posted
     IN /\ rows' = IF isNew THEN Append(rows, linked) ELSE [rows EXCEPT ![id] = linked]
        /\ lines' = IF postable(row)
                    THEN Append(lines, [row |-> id, account |-> row.account])
                    ELSE lines
        /\ step(q, [pc |-> "reply", msg |-> m, answer |-> "accepted"])
  /\ UNCHANGED <<active, open, bank, faults, ops>>

\* The answer reaches the bank, or is too late or lost.
reply(q) ==
  /\ handling[q].pc = "reply"
  /\ bank' = [bank EXCEPT ![handling[q].msg] = handling[q].answer]
  /\ step(q, free)
  /\ UNCHANGED <<rows, lines, active, open, faults, ops>>

\* The process dies or the connection breaks: an open transaction rolls back
\* and the bank hears nothing.
die(q) ==
  /\ handling[q].pc # "idle" /\ faults < MaxFaults
  /\ faults' = faults + 1
  /\ step(q, free)
  /\ UNCHANGED <<rows, lines, active, open, bank, ops>>

-----------------------------------------------------------------------------
(* Operators *)

operate == ops < MaxOps /\ ops' = ops + 1

\* matchKcbNotification: an open invoice, any row that is not a validation.
match(r, i) ==
  /\ operate
  /\ rows[r].msg.leg # "VALIDATION" /\ i \in open
  /\ InvoiceOf[i] = rows[r].company /\ rows[r].matched # i
  /\ rows' = [rows EXCEPT ![r].matched = i, ![r].status = "MATCHED"]
  /\ UNCHANGED <<lines, active, open, handling, bank, faults>>

\* unmatchKcbNotification: back to POSTED when there is a line, else RECEIVED.
unmatch(r) ==
  /\ operate
  /\ rows[r].matched # None
  /\ rows' = [rows EXCEPT ![r].matched = None,
                          ![r].status = IF rows[r].line # 0 THEN "POSTED" ELSE "RECEIVED"]
  /\ UNCHANGED <<lines, active, open, handling, bank, faults>>

\* A bank account is switched on or off.
setActive(a) ==
  /\ operate
  /\ active' = IF a \in active THEN active \ {a} ELSE active \cup {a}
  /\ UNCHANGED <<rows, lines, open, handling, bank, faults>>

\* An invoice is settled or voided elsewhere.
closeInvoice(i) ==
  /\ operate
  /\ i \in open
  /\ open' = open \ {i}
  /\ UNCHANGED <<rows, lines, active, handling, bank, faults>>

-----------------------------------------------------------------------------
IngestInit ==
  /\ rows = <<>> /\ lines = <<>>
  /\ active \in StartActive
  /\ open = Invoices
  /\ handling = [q \in Handlers |-> free]
  /\ \E sent \in Traffic :
       bank = [m \in Messages |-> IF m \in sent THEN "unsent" ELSE "none"]
  /\ faults = 0 /\ ops = 0

ingest(q) ==
  verifyAndAttribute(q) \/ stageLookup(q) \/ stageInsert(q) \/ persist(q) \/ reply(q)

fault(q) == verificationKeysFail(q) \/ resolveAccountFails(q) \/ die(q)

operators ==
  \/ \E r \in DOMAIN rows : (\E i \in Invoices : match(r, i)) \/ unmatch(r)
  \/ \E a \in Accounts : setActive(a)
  \/ \E i \in Invoices : closeInvoice(i)

IngestNext ==
  \/ \E q \in Handlers : (\E m \in Messages : deliver(q, m)) \/ ingest(q) \/ fault(q)
  \/ operators

\* A request runs to its end unless it dies; the bank repeats what it has sent.
IngestFairness ==
  /\ \A q \in Handlers : WF_ingestVars(ingest(q))
  /\ \A m \in Messages :
       WF_ingestVars(bank[m] = "waiting" /\ \E q \in Handlers : deliver(q, m))

IngestSpec == IngestInit /\ [][IngestNext]_ingestVars /\ IngestFairness

-----------------------------------------------------------------------------
(* Properties *)

\* Companies a message can be bound to: an account's, or the key's.
Companies == {CompanyOf[a] : a \in Accounts} \cup {m.signer : m \in Messages}

IngestRow ==
  [msg : Messages, company : Companies,
   account : Accounts \cup {None}, status : {"RECEIVED", "POSTED", "MATCHED"},
   line : Nat, matched : Invoices \cup {None}]

\* Types, and the status of a row tells whether it has a line and a link:
\* across automatic and manual links and their undoing.
IngestTypeOK ==
  /\ \A r \in DOMAIN rows : /\ rows[r] \in IngestRow
                            /\ rows[r].status = "MATCHED" <=> rows[r].matched # None
                            /\ rows[r].status = "POSTED" => rows[r].line # 0
                            /\ rows[r].status = "RECEIVED" => rows[r].line = 0
  /\ active \subseteq Accounts /\ open \subseteq Invoices
  /\ faults \in 0..MaxFaults

\* One transaction of the bank is credited at most once, however often it is
\* delivered and whichever of its two identifiers a copy repeats.
CreditedOnce ==
  \A i, j \in DOMAIN lines :
    i # j => ~(/\ rows[lines[i].row].company = rows[lines[j].row].company
               /\ sameTransaction(rows[lines[i].row].msg, rows[lines[j].row].msg))

\* What the bank was told is accepted is on file, and credited whenever the
\* row on file is money on a known account: a crash after the answer loses
\* nothing.
AcceptedIsOnFile ==
  \A m \in Messages : bank[m] = "accepted" =>
    \E r \in DOMAIN rows :
      /\ sameTransaction(m, rows[r].msg)
      /\ rows[r].account # None /\ rows[r].msg.leg # "VALIDATION" =>
           /\ rows[r].line \in DOMAIN lines
           /\ lines[rows[r].line] = [row |-> r, account |-> rows[r].account]

\* A link that stands, the operator's or the automatic one, is never changed
\* by a repeated delivery of the message: operators alone move or remove it.
LinkKeptByReplay ==
  [][\A r \in DOMAIN rows :
       rows[r].matched # None /\ rows'[r].matched # rows[r].matched
         => handling' = handling]_ingestVars

\* Every message sent is answered in the end.
EventuallyAnswered ==
  \A m \in Messages : bank[m] = "waiting" ~> bank[m] \in {"accepted", "refused"}
=============================================================================
