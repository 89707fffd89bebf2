------------------------------ MODULE CashOffice ------------------------------
(***************************************************************************)
(* Petty cash, employee claims and daily cash closings.  A document is     *)
(* submitted, decided by the approval engine and paid; submission and      *)
(* payment read its status without a lock and write later, so the          *)
(* immutability trigger is what stands between a late write and a paid     *)
(* document.  The cash book runs under the fund's row lock.                *)
(***************************************************************************)
EXTENDS Integers, Sequences

CONSTANTS
  Claims, Replenishments, Closings,  \* documents of each table
  Amount,       \* Amount[d]: amount of claim or replenishment d
  Opening,      \* opening_balance of the fund
  BookTypes,    \* transaction types users record by hand
  BookAmounts,  \* amounts of those
  Requests,     \* transactions in flight at a time
  MaxBook,      \* bound on petty cash transactions
  MaxChains     \* bound on approval chains of one document

Documents == Claims \cup Replenishments \cup Closings

TxTypes == {"RECEIPT", "EXPENSE", "TOP_UP", "RETURN", "ADJUSTMENT", "REPLENISHMENT"}

ASSUME CashAssumption ==
  /\ \A d \in Claims \cup Replenishments : Amount[d] \in Nat /\ Amount[d] > 0
  /\ Opening \in Nat /\ BookTypes \subseteq TxTypes
  /\ \A x \in BookAmounts : x \in Nat /\ x > 0
  /\ MaxBook \in Nat /\ MaxChains \in Nat

VARIABLES
  status,   \* status[d], or NONE
  chains,   \* chains[d]: approval chains opened, and how many are still running
  paid,     \* paid[d]: receipts or reimbursement journals of d
  book,     \* petty_cash_transactions of the fund, in id order
  sum,      \* SUM over these of the amounts, expenses negative; none is ever removed
  request,  \* request[q]: what a transaction has read and will write
  raced     \* history: documents that two requests of one kind had read at once

cashVars == <<status, chains, paid, book, sum, request, raced>>

idle == [op |-> "idle"]

begin(q, rec) == request[q] = idle /\ request' = [request EXCEPT ![q] = rec]

end(q) == request' = [request EXCEPT ![q] = idle]

\* Mutant: a decision of the approval engine passes the trigger.
guard_ops_immutable_Decisions(old, new) ==
  /\ old \in {"POSTED", "CLOSED", "PAID"} => new \in {old, "VOID", "APPROVED", "REJECTED"}
  /\ old = "VOID" => new = "VOID"

\* What the tables' trigger lets a status become.
guard_ops_immutable(old, new) ==
  /\ old \in {"POSTED", "CLOSED", "PAID"} => new \in {old, "VOID"}
  /\ old = "VOID" => new = "VOID"

setStatus(d, st) ==
  /\ guard_ops_immutable(status[d], st)
  /\ status' = [status EXCEPT ![d] = st]

-----------------------------------------------------------------------------
(* The cash book *)

\* Mutant: the fund row is read without FOR UPDATE.
fundFree_Unlocked == TRUE

\* The fund's row lock, which a request recording a transaction holds.
fundFree == \A q \in Requests : request[q].op # "book"

balance == Opening + sum

signed(type, amount) == IF type = "EXPENSE" THEN -amount ELSE amount

insertLine(line) ==
  /\ book' = Append(book, line)
  /\ sum' = sum + signed(line.type, line.amount)

\* balance_after is computed from all transactions the reader can see.
bookLine(type, amount, d) ==
  [type |-> type, amount |-> amount, doc |-> d, after |-> balance + signed(type, amount)]

\* recordPettyCashTransaction: the fund is locked and the balance computed ...
lockFund(q, type, amount) ==
  /\ fundFree /\ Len(book) < MaxBook
  /\ begin(q, [op |-> "book", line |-> bookLine(type, amount, "none")])
  /\ UNCHANGED <<status, chains, paid, book, sum, raced>>

\* ... and the line inserted.
recordPettyCashTransaction(q) ==
  /\ request[q].op = "book" /\ Len(book) < MaxBook
  /\ insertLine(request[q].line)
  /\ end(q)
  /\ UNCHANGED <<status, chains, paid, raced>>

\* The line a larger transaction writes, when d is a replenishment.
bookFor(type, d) ==
  IF d \in Replenishments
  THEN /\ fundFree /\ Len(book) < MaxBook
       /\ insertLine(bookLine(type, Amount[d], d))
  ELSE UNCHANGED <<book, sum>>

-----------------------------------------------------------------------------
(* Documents *)

\* createClaim, createDailyClose and requestReplenishment, which books the
\* cash at once.
create(d) ==
  /\ status[d] = "NONE"
  /\ status' = [status EXCEPT ![d] = "DRAFT"]
  /\ bookFor("REPLENISHMENT", d)
  /\ UNCHANGED <<chains, paid, request, raced>>

\* The history of overlapping requests.
noteRace(op, d) ==
  raced' = IF \E q \in Requests : request[q].op = op /\ request[q].doc = d
           THEN raced \cup {<<op, d>>} ELSE raced

\* submitClaim, submitReplenishment and submitDailyClose read the status ...
readForSubmit(q, d) ==
  /\ status[d] = "DRAFT"
  /\ begin(q, [op |-> "submit", doc |-> d])
  /\ noteRace("submit", d)
  /\ UNCHANGED <<status, chains, paid, book, sum>>

\* ... and later write it and open an approval chain.  A final authority's
\* submission is approved at once and opens none (selfAuthorize).
submit(q, final) ==
  /\ request[q].op = "submit"
  /\ LET d == request[q].doc IN
       /\ guard_ops_immutable(status[d], "SUBMITTED")
       /\ IF final
          THEN /\ status' = [status EXCEPT ![d] = "APPROVED"]
               /\ UNCHANGED chains
          ELSE /\ status' = [status EXCEPT ![d] = "SUBMITTED"]
               /\ chains[d].opened < MaxChains
               /\ chains' = [chains EXCEPT ![d].opened = @ + 1, ![d].running = @ + 1]
  /\ end(q)
  /\ UNCHANGED <<paid, book, sum, raced>>

\* A chain is completed or rejected, which writes the document's status.
decide(d, st) ==
  /\ chains[d].running > 0
  /\ setStatus(d, st)
  /\ chains' = [chains EXCEPT ![d].running = @ - 1]
  /\ UNCHANGED <<paid, book, sum, request, raced>>

paidStatus(d) == IF d \in Claims THEN "REIMBURSED" ELSE "PAID"

\* Mutant: what was paid can be paid again.
payable_Again(d) ==
  d \in Claims \cup Replenishments /\ status[d] \in {"APPROVED", paidStatus(d)}

payable(d) == d \in Claims \cup Replenishments /\ status[d] = "APPROVED"

\* payReplenishment and reimburseClaim read the status ...
readForPayment(q, d) ==
  /\ payable(d)
  /\ begin(q, [op |-> "pay", doc |-> d])
  /\ noteRace("pay", d)
  /\ UNCHANGED <<status, chains, paid, book, sum>>

\* ... and later write it, with the receipt or the journal.
pay(q) ==
  /\ request[q].op = "pay"
  /\ LET d == request[q].doc IN
       /\ setStatus(d, paidStatus(d))
       /\ paid' = [paid EXCEPT ![d] = @ + 1]
       /\ bookFor("RECEIPT", d)
  /\ end(q)
  /\ UNCHANGED <<chains, raced>>

\* A transaction fails, is refused by the trigger or dies, and rolls back.
rollback(q) ==
  /\ request[q] # idle
  /\ end(q)
  /\ UNCHANGED <<status, chains, paid, book, sum, raced>>

-----------------------------------------------------------------------------
CashInit ==
  /\ status = [d \in Documents |-> "NONE"]
  /\ chains = [d \in Documents |-> [opened |-> 0, running |-> 0]]
  /\ paid = [d \in Documents |-> 0]
  /\ book = <<>> /\ sum = 0
  /\ request = [q \in Requests |-> idle]
  /\ raced = {}

reads(q) ==
  \/ \E d \in Documents : readForSubmit(q, d) \/ readForPayment(q, d)
  \/ \E type \in BookTypes, x \in BookAmounts : lockFund(q, type, x)

writes(q) ==
  \/ \E final \in BOOLEAN : submit(q, final)
  \/ pay(q) \/ recordPettyCashTransaction(q) \/ rollback(q)

CashNext ==
  \/ \E d \in Documents : create(d) \/ \E st \in {"APPROVED", "REJECTED"} : decide(d, st)
  \/ \E q \in Requests : reads(q) \/ writes(q)

CashSpec == CashInit /\ [][CashNext]_cashVars

-----------------------------------------------------------------------------
(* Properties *)

\* Types, a paid document has a payment on record, and a document under
\* approval is no draft.
CashTypeOK ==
  /\ \A d \in Documents :
       /\ status[d] \in {"NONE", "DRAFT", "SUBMITTED", "APPROVED", "REJECTED",
                         "PAID", "REIMBURSED"}
       /\ chains[d].running \in 0..chains[d].opened
       /\ status[d] \in {"PAID", "REIMBURSED"} => paid[d] > 0
       /\ chains[d].running > 0 => status[d] # "DRAFT"

\* Each line of the cash book starts from the balance the line before it left,
\* although lines are written by several transactions at once.
BalanceRuns ==
  \A i \in DOMAIN book :
    book[i].after = (IF i = 1 THEN Opening ELSE book[i - 1].after)
                      + signed(book[i].type, book[i].amount)

\* A paid replenishment stays paid: no late submission or decision takes it
\* back into approval.
PaidIsFinal ==
  [][\A r \in Replenishments : status[r] = "PAID" => status'[r] = "PAID"]_cashVars

\* A replenishment is paid once unless two payments of it overlapped, a claim
\* unless two payments or two submissions of it did: nothing else pays twice.
PaidOnceUnlessRaced ==
  \A d \in Documents : paid[d] > 1 =>
    \/ <<"pay", d>> \in raced
    \/ d \in Claims /\ <<"submit", d>> \in raced
=============================================================================
