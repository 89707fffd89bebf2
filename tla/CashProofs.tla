----------------------------- MODULE CashProofs -----------------------------
(***************************************************************************)
(* Proofs about money that comes and goes: petty cash, claims and          *)
(* closings (CashOffice), and the bank's notifications of payments         *)
(* (BankIngest).  For any documents, amounts, messages, accounts and       *)
(* faults, and any number of transactions in flight, of cash book lines    *)
(* and of approval chains.                                                 *)
(***************************************************************************)
EXTENDS CashOffice, BankIngest, FiniteSetTheorems, WellFoundedInduction, TLAPS

DocStatuses == {"NONE", "DRAFT", "SUBMITTED", "APPROVED", "REJECTED", "PAID", "REIMBURSED"}

Line == [type : TxTypes, amount : Nat, doc : Documents \cup {"none"}, after : Int]

\* What a transaction carries between its read and its write.
Flight == {idle} \cup [op : {"book"}, line : Line] \cup [op : {"submit", "pay"}, doc : Documents]

RowsOK ==
  /\ status \in [Documents -> DocStatuses]
  /\ chains \in [Documents -> [opened : Nat, running : Nat]]
  /\ paid \in [Documents -> Nat]
  /\ book \in Seq(Line)
  /\ request \in [Requests -> Flight]
  /\ raced \subseteq ({"submit", "pay"} \X Documents)

\* The sum of the lines brings the opening balance to where the last line is.
SumRuns ==
  /\ sum \in Int
  /\ balance = IF book = <<>> THEN Opening ELSE book[Len(book)].after

\* The transactions that have read document d and have not written it yet.
Flying(op, d) == {q \in Requests : request[q].op = op /\ request[q].doc = d}

\* The fund's lock: one transaction holds it at most, and the line it will
\* insert still starts from the balance of the book.
FundInv ==
  \A q \in Requests : request[q].op = "book" =>
    /\ request[q].line.after =
         balance + signed(request[q].line.type, request[q].line.amount)
    /\ \A p \in Requests : request[p].op = "book" => p = q

\* A document comes into being as DRAFT, and never returns there.
FromDraft(d) ==
  /\ chains[d].running <= chains[d].opened
  /\ status[d] \in {"NONE", "DRAFT"} => chains[d].running = 0
  /\ status[d] = "NONE" => Flying("submit", d) = {}
  /\ status[d] \in {"PAID", "REIMBURSED"} => paid[d] > 0

\* A replenishment whose payments did not overlap: once it is paid the trigger
\* keeps it PAID, so no payment can be under way.
SinglePayment(d) ==
  d \notin Claims /\ <<"pay", d>> \notin raced =>
    /\ \A p, q \in Flying("pay", d) : p = q
    /\ paid[d] > 0 => /\ paid[d] = 1 /\ status[d] = "PAID"
                      /\ Flying("pay", d) = {}

\* A claim none of whose submissions and payments overlapped goes through its
\* phases one by one: REIMBURSED is not protected by the trigger, and what
\* protects it is that no chain is left to decide and no submission under way.
Drafting(d) ==
  /\ status[d] \in {"NONE", "DRAFT"} /\ chains[d].running = 0 /\ paid[d] = 0
  /\ Flying("pay", d) = {} /\ \A p, q \in Flying("submit", d) : p = q
Deciding(d) ==
  /\ status[d] = "SUBMITTED" /\ chains[d].running = 1 /\ paid[d] = 0
  /\ Flying("pay", d) = {} /\ Flying("submit", d) = {}
Decided(d) ==
  /\ status[d] \in {"APPROVED", "REJECTED"} /\ chains[d].running = 0 /\ paid[d] = 0
  /\ Flying("submit", d) = {} /\ \A p, q \in Flying("pay", d) : p = q
Reimbursed(d) ==
  /\ status[d] = "REIMBURSED" /\ chains[d].running = 0 /\ paid[d] = 1
  /\ Flying("pay", d) = {} /\ Flying("submit", d) = {}

SingleCourse(d) ==
  d \in Claims /\ <<"pay", d>> \notin raced /\ <<"submit", d>> \notin raced =>
    Drafting(d) \/ Deciding(d) \/ Decided(d) \/ Reimbursed(d)

Course(d) == FromDraft(d) /\ SinglePayment(d) /\ SingleCourse(d)

CashInv == RowsOK /\ FundInv /\ SumRuns /\ BalanceRuns /\ \A d \in Documents : Course(d)
-----------------------------------------------------------------------------
(* Transactions in flight *)

\* What a request is, from its op.
LEMMA FlightKinds ==
  ASSUME RowsOK, NEW q \in Requests
  PROVE  /\ request[q].op \in {"idle", "book", "submit", "pay"}
         /\ request[q] = idle => request[q].op = "idle"
         /\ request[q].op = "book" => request[q].line \in Line
         /\ request[q].op \in {"submit", "pay"} => request[q].doc \in Documents
<1>1. request[q] \in Flight
  BY DEF RowsOK
<1>2. CASE request[q] = idle
  BY <1>2 DEF idle
<1>3. CASE request[q] \in [op : {"book"}, line : Line]
  BY <1>3 DEF idle
<1>4. CASE request[q] \in [op : {"submit", "pay"}, doc : Documents]
  BY <1>4 DEF idle
<1> QED
  BY <1>1, <1>2, <1>3, <1>4 DEF Flight

\* A transaction that reads a document flies on it, and on no other.
LEMMA BeginFlying ==
  ASSUME RowsOK, NEW q \in Requests, NEW op \in {"submit", "pay"}, NEW d \in Documents,
         begin(q, [op |-> op, doc |-> d])
  PROVE  /\ request' \in [Requests -> Flight]
         /\ request'[q].op = op /\ \A p \in Requests \ {q} : request'[p] = request[p]
         /\ Flying(op, d)' = Flying(op, d) \cup {q}
         /\ \A o \in {"submit", "pay"}, e \in Documents :
              o # op \/ e # d => Flying(o, e)' = Flying(o, e)
<1> DEFINE rec == [op |-> op, doc |-> d]
<1>1. /\ request \in [Requests -> Flight] /\ request[q] = idle
      /\ request' = [request EXCEPT ![q] = rec]
  BY DEF RowsOK, begin
<1>2. rec \in Flight /\ rec.op = op /\ rec.doc = d
  BY DEF Flight
<1>3. request[q].op = "idle"
  BY <1>1 DEF idle
<1>4. request'[q] = rec /\ \A p \in Requests \ {q} : request'[p] = request[p]
  BY <1>1
<1>5. request' \in [Requests -> Flight]
  BY <1>1, <1>2
<1> HIDE DEF rec
<1>6. Flying(op, d)' = Flying(op, d) \cup {q}
  BY <1>2, <1>3, <1>4 DEF Flying
<1>7. ASSUME NEW o \in {"submit", "pay"}, NEW e \in Documents, o # op \/ e # d
      PROVE  Flying(o, e)' = Flying(o, e)
  BY <1>2, <1>3, <1>4, <1>7 DEF Flying
<1> QED
  BY <1>2, <1>4, <1>5, <1>6, <1>7

\* A transaction that ends flies no more.
LEMMA EndFlying ==
  ASSUME RowsOK, NEW q \in Requests, end(q)
  PROVE  /\ request' \in [Requests -> Flight]
         /\ request'[q].op = "idle" /\ \A p \in Requests \ {q} : request'[p] = request[p]
         /\ \A o \in {"submit", "pay"}, e \in Documents :
              Flying(o, e)' = Flying(o, e) \ {q}
<1>1. request' = [request EXCEPT ![q] = idle] /\ request \in [Requests -> Flight]
  BY DEF end, RowsOK
<1>2. idle \in Flight /\ idle.op = "idle"
  BY DEF Flight, idle
<1>3. request'[q] = idle /\ \A p \in Requests \ {q} : request'[p] = request[p]
  BY <1>1
<1>4. request' \in [Requests -> Flight]
  BY <1>1, <1>2
<1>5. ASSUME NEW o \in {"submit", "pay"}, NEW e \in Documents
      PROVE  Flying(o, e)' = Flying(o, e) \ {q}
  BY <1>2, <1>3 DEF Flying
<1> QED
  BY <1>2, <1>3, <1>4, <1>5

\* noteRace records a read while another transaction flies on the document.
LEMMA RaceNoted ==
  ASSUME RowsOK, NEW op \in {"submit", "pay"}, NEW d \in Documents, noteRace(op, d)
  PROVE  /\ raced \subseteq raced' /\ raced' \subseteq ({"submit", "pay"} \X Documents)
         /\ <<op, d>> \notin raced' => Flying(op, d) = {}
  BY DEF noteRace, Flying, RowsOK

-----------------------------------------------------------------------------
(* The cash book *)

\* The balance is a number, and a line built on it is a line.
LEMMA LineType ==
  ASSUME SumRuns, NEW type \in TxTypes, NEW x \in Nat, NEW d \in Documents \cup {"none"}
  PROVE  /\ balance \in Int /\ signed(type, x) \in Int
         /\ bookLine(type, x, d) \in Line
         /\ bookLine(type, x, d).type = type /\ bookLine(type, x, d).amount = x
         /\ bookLine(type, x, d).after = balance + signed(type, x)
<1>1. balance \in Int
  BY CashAssumption DEF balance, SumRuns
<1>2. signed(type, x) \in Int
  BY DEF signed
<1> QED
  BY <1>1, <1>2 DEF bookLine, Line

\* A line that starts from the balance extends a running book to one.
LEMMA AppendRuns ==
  ASSUME RowsOK, SumRuns, BalanceRuns, NEW l \in Line,
         l.after = balance + signed(l.type, l.amount),
         insertLine(l)
  PROVE  book' \in Seq(Line) /\ SumRuns' /\ BalanceRuns'
<1>0. book' = Append(book, l) /\ sum' = sum + signed(l.type, l.amount)
  BY DEF insertLine
<1>1. /\ book \in Seq(Line) /\ Len(book) \in Nat /\ DOMAIN book = 1..Len(book)
      /\ book' \in Seq(Line) /\ DOMAIN book' = 1..(Len(book) + 1)
      /\ \A i \in 1..Len(book) : book'[i] = book[i]
      /\ book'[Len(book) + 1] = l /\ Len(book') = Len(book) + 1
  BY <1>0 DEF RowsOK
<1>2. ASSUME NEW i \in DOMAIN book'
      PROVE  book'[i].after = (IF i = 1 THEN Opening ELSE book'[i - 1].after)
                                + signed(book'[i].type, book'[i].amount)
  <2>1. CASE i \in 1..Len(book)
    <3>1. book'[i] = book[i] /\ (i # 1 => book'[i - 1] = book[i - 1])
      BY <1>1, <2>1
    <3> QED
      BY <1>1, <2>1, <3>1 DEF BalanceRuns
  <2>2. CASE i = Len(book) + 1
    <3>1. CASE book = <<>>
      BY <1>1, <2>2, <3>1 DEF SumRuns
    <3>2. CASE book # <<>>
      <4>1. Len(book) # 0
        BY <1>1, <3>2
      <4>2. i # 1 /\ i - 1 = Len(book) /\ Len(book) \in 1..Len(book)
        BY <1>1, <2>2, <4>1
      <4>3. book'[Len(book)] = book[Len(book)]
        BY <1>1, <4>2
      <4> QED
        BY <1>1, <2>2, <3>2, <4>2, <4>3 DEF SumRuns
    <3> QED
      BY <3>1, <3>2
  <2> QED
    BY <1>1, <2>1, <2>2
<1>3. SumRuns'
  <2>1. signed(l.type, l.amount) \in Int /\ sum \in Int /\ Opening \in Int
    BY CashAssumption DEF signed, Line, SumRuns
  <2>2. sum' \in Int /\ Opening + sum' = (Opening + sum) + signed(l.type, l.amount)
    BY <1>0, <2>1
  <2>3. Opening + sum' = l.after
    BY <2>2 DEF balance
  <2>4. book' # <<>> /\ book'[Len(book')] = l
    BY <1>1
  <2> QED
    BY <2>2, <2>3, <2>4 DEF SumRuns, balance
<1> QED
  BY <1>1, <1>2, <1>3 DEF BalanceRuns

\* A line of a larger transaction waits for the fund's lock.
LEMMA BookForRuns ==
  ASSUME RowsOK, SumRuns, BalanceRuns, NEW type \in TxTypes, NEW d \in Documents,
         bookFor(type, d)
  PROVE  /\ book' \in Seq(Line) /\ SumRuns' /\ BalanceRuns'
         /\ UNCHANGED <<book, sum>> \/ fundFree
<1>1. CASE d \in Replenishments
  <2>1. Amount[d] \in Nat
    BY <1>1, CashAssumption
  <2> DEFINE l == bookLine(type, Amount[d], d)
  <2>2. /\ l \in Line /\ l.after = balance + signed(l.type, l.amount)
    BY <2>1, LineType
  <2>3. insertLine(l) /\ fundFree
    BY <1>1 DEF bookFor
  <2> HIDE DEF l
  <2> QED
    BY <2>2, <2>3, AppendRuns
<1>2. CASE d \notin Replenishments
  BY <1>2 DEF bookFor, RowsOK, BalanceRuns, SumRuns, balance
<1> QED
  BY <1>1, <1>2

\* The cash book under all transactions: FOR UPDATE on the fund makes the read
\* of the balance and the insert of the line one.
LEMMA BookStep ==
  ASSUME RowsOK, FundInv, SumRuns, BalanceRuns, CashNext
  PROVE  book' \in Seq(Line) /\ SumRuns' /\ BalanceRuns' /\ FundInv'
<1>1. ASSUME UNCHANGED <<book, sum>>,
             \A p \in Requests : request'[p].op = "book" => request'[p] = request[p]
      PROVE  book' \in Seq(Line) /\ SumRuns' /\ BalanceRuns' /\ FundInv'
  BY <1>1 DEF RowsOK, BalanceRuns, SumRuns, FundInv, balance, signed
<1>2. ASSUME fundFree, \A p \in Requests : request'[p].op = "book" => request'[p] = request[p]
      PROVE  FundInv'
  BY <1>2 DEF fundFree, FundInv
<1>3. ASSUME NEW d \in Documents, create(d)
      PROVE  book' \in Seq(Line) /\ SumRuns' /\ BalanceRuns' /\ FundInv'
  <2>1. bookFor("REPLENISHMENT", d) /\ UNCHANGED request
    BY <1>3 DEF create
  <2>2. "REPLENISHMENT" \in TxTypes
    BY DEF TxTypes
  <2> QED
    BY <1>1, <1>2, <2>1, <2>2, BookForRuns
<1>4. ASSUME NEW d \in Documents, NEW st, decide(d, st)
      PROVE  book' \in Seq(Line) /\ SumRuns' /\ BalanceRuns' /\ FundInv'
  BY <1>1, <1>4 DEF decide
<1>5. ASSUME NEW q \in Requests, NEW d \in Documents,
             readForSubmit(q, d) \/ readForPayment(q, d)
      PROVE  book' \in Seq(Line) /\ SumRuns' /\ BalanceRuns' /\ FundInv'
  <2>1. \/ begin(q, [op |-> "submit", doc |-> d])
        \/ begin(q, [op |-> "pay", doc |-> d])
    BY <1>5 DEF readForSubmit, readForPayment
  <2>2. /\ request'[q].op \in {"submit", "pay"}
        /\ \A p \in Requests \ {q} : request'[p] = request[p]
    BY <2>1, BeginFlying
  <2> QED
    BY <1>1, <1>5, <2>2 DEF readForSubmit, readForPayment
<1>6. ASSUME NEW q \in Requests, NEW type \in BookTypes, NEW x \in BookAmounts,
             lockFund(q, type, x)
      PROVE  book' \in Seq(Line) /\ SumRuns' /\ BalanceRuns' /\ FundInv'
  <2> DEFINE l == bookLine(type, x, "none")
  <2>1. type \in TxTypes /\ x \in Nat
    BY CashAssumption
  <2>2. l \in Line /\ l.after = balance + signed(l.type, l.amount)
    BY <2>1, LineType
  <2> HIDE DEF l
  <2>3. /\ fundFree /\ UNCHANGED <<book, sum>>
        /\ request' = [request EXCEPT ![q] = [op |-> "book", line |-> l]]
    BY <1>6 DEF lockFund, begin, l
  <2>4. /\ request'[q].op = "book" /\ request'[q].line = l
        /\ \A p \in Requests \ {q} : request'[p] = request[p]
    BY <2>3 DEF RowsOK
  <2>5. FundInv'
    BY <2>2, <2>3, <2>4 DEF FundInv, fundFree, balance, signed
  <2> QED
    BY <2>3, <2>5 DEF RowsOK, BalanceRuns, SumRuns, balance
<1>7. ASSUME NEW q \in Requests, recordPettyCashTransaction(q)
      PROVE  book' \in Seq(Line) /\ SumRuns' /\ BalanceRuns' /\ FundInv'
  <2>1. /\ request[q].op = "book" /\ insertLine(request[q].line) /\ end(q)
    BY <1>7 DEF recordPettyCashTransaction
  <2>2. request[q].line \in Line
    BY <2>1, FlightKinds
  <2>3. request[q].line.after = balance + signed(request[q].line.type, request[q].line.amount)
    BY <2>1 DEF FundInv
  <2>4. book' \in Seq(Line) /\ SumRuns' /\ BalanceRuns'
    BY <2>1, <2>2, <2>3, AppendRuns
  <2>5. \A p \in Requests : request'[p].op # "book"
    BY <2>1, EndFlying DEF FundInv
  <2> QED
    BY <2>4, <2>5 DEF FundInv
<1>8. ASSUME NEW q \in Requests, NEW final \in BOOLEAN, submit(q, final)
      PROVE  book' \in Seq(Line) /\ SumRuns' /\ BalanceRuns' /\ FundInv'
  <2>1. end(q) /\ UNCHANGED <<book, sum>>
    BY <1>8 DEF submit
  <2> QED
    BY <1>1, <2>1, EndFlying
<1>9. ASSUME NEW q \in Requests, pay(q)
      PROVE  book' \in Seq(Line) /\ SumRuns' /\ BalanceRuns' /\ FundInv'
  <2>1. request[q].op = "pay" /\ end(q) /\ bookFor("RECEIPT", request[q].doc)
    BY <1>9 DEF pay
  <2>2. request[q].doc \in Documents /\ "RECEIPT" \in TxTypes
    BY <2>1, FlightKinds DEF TxTypes
  <2> QED
    BY <1>1, <1>2, <2>1, <2>2, BookForRuns, EndFlying
<1>10. ASSUME NEW q \in Requests, rollback(q)
       PROVE  book' \in Seq(Line) /\ SumRuns' /\ BalanceRuns' /\ FundInv'
  <2>1. end(q) /\ UNCHANGED <<book, sum>>
    BY <1>10 DEF rollback
  <2> QED
    BY <1>1, <2>1, EndFlying
<1> QED
  BY <1>3, <1>4, <1>5, <1>6, <1>7, <1>8, <1>9, <1>10 DEF CashNext, reads, writes

-----------------------------------------------------------------------------
(* Documents *)

\* The rows of one document.
LEMMA DocumentRow ==
  ASSUME RowsOK, NEW d \in Documents
  PROVE  /\ status[d] \in DocStatuses /\ paid[d] \in Nat
         /\ chains[d].opened \in Nat /\ chains[d].running \in Nat
<1>1. chains[d] \in [opened : Nat, running : Nat]
  BY DEF RowsOK
<1> QED
  BY <1>1 DEF RowsOK

\* Opening a chain counts it as opened and as running.
LEMMA OneMoreChain ==
  ASSUME NEW r \in [opened : Nat, running : Nat]
  PROVE  /\ [r EXCEPT !.opened = @ + 1, !.running = @ + 1] \in [opened : Nat, running : Nat]
         /\ [r EXCEPT !.opened = @ + 1, !.running = @ + 1].opened = r.opened + 1
         /\ [r EXCEPT !.opened = @ + 1, !.running = @ + 1].running = r.running + 1
<1> DEFINE a == [r EXCEPT !.opened = @ + 1]
<1>1. a \in [opened : Nat, running : Nat] /\ a.opened = r.opened + 1 /\ a.running = r.running
  OBVIOUS
<1>2. [r EXCEPT !.opened = @ + 1, !.running = @ + 1] = [a EXCEPT !.running = @ + 1]
  OBVIOUS
<1> HIDE DEF a
<1>3. /\ [a EXCEPT !.running = @ + 1] \in [opened : Nat, running : Nat]
      /\ [a EXCEPT !.running = @ + 1].opened = r.opened + 1
      /\ [a EXCEPT !.running = @ + 1].running = r.running + 1
  BY <1>1
<1> QED
  BY <1>2, <1>3

\* A document nobody writes stays on course, whoever stops flying on it and
\* whatever races are noted.
LEMMA Untouched ==
  ASSUME NEW d \in Documents, Course(d),
         status'[d] = status[d], chains'[d] = chains[d], paid'[d] = paid[d],
         Flying("submit", d)' \subseteq Flying("submit", d),
         Flying("pay", d)' \subseteq Flying("pay", d),
         raced \subseteq raced'
  PROVE  Course(d)'
<1>1. FromDraft(d)'
  BY DEF Course, FromDraft
<1>2. SinglePayment(d)'
  BY DEF Course, SinglePayment
<1>3. SingleCourse(d)'
  <2> SUFFICES ASSUME d \in Claims, <<"pay", d>> \notin raced', <<"submit", d>> \notin raced'
               PROVE  (Drafting(d) \/ Deciding(d) \/ Decided(d) \/ Reimbursed(d))'
    BY DEF SingleCourse
  <2>1. Drafting(d) \/ Deciding(d) \/ Decided(d) \/ Reimbursed(d)
    BY DEF Course, SingleCourse
  <2> QED
    BY <2>1 DEF Drafting, Deciding, Decided, Reimbursed
<1> QED
  BY <1>1, <1>2, <1>3 DEF Course

\* create: a document that was nowhere is a draft.
LEMMA CreateCourse ==
  ASSUME RowsOK, NEW d \in Documents, Course(d), create(d)
  PROVE  status' \in [Documents -> DocStatuses] /\ Course(d)'
<1>1. /\ status[d] = "NONE" /\ status' = [status EXCEPT ![d] = "DRAFT"]
      /\ UNCHANGED <<chains, paid, request, raced>>
  BY DEF create
<1>2. status'[d] = "DRAFT" /\ status' \in [Documents -> DocStatuses]
  BY <1>1 DEF RowsOK, DocStatuses
<1>3. \A o \in {"submit", "pay"} : Flying(o, d)' = Flying(o, d)
  BY <1>1 DEF Flying
<1> QED
  BY <1>1, <1>2, <1>3 DEF Course, FromDraft, SinglePayment, SingleCourse, Drafting,
     Deciding, Decided, Reimbursed

\* decide: the one chain of a claim that did not race takes it to a decision;
\* the trigger refuses a decision on a paid replenishment.
LEMMA DecideCourse ==
  ASSUME RowsOK, NEW d \in Documents, NEW st \in {"APPROVED", "REJECTED"}, Course(d),
         decide(d, st)
  PROVE  /\ status' \in [Documents -> DocStatuses]
         /\ chains' \in [Documents -> [opened : Nat, running : Nat]]
         /\ status[d] # "PAID" /\ Course(d)'
<1>0. /\ status[d] \in DocStatuses /\ paid[d] \in Nat
      /\ chains[d].opened \in Nat /\ chains[d].running \in Nat
  BY DocumentRow
<1>1. /\ chains[d].running > 0 /\ guard_ops_immutable(status[d], st)
      /\ status' = [status EXCEPT ![d] = st]
      /\ chains' = [chains EXCEPT ![d].running = @ - 1]
      /\ UNCHANGED <<paid, request, raced>>
  BY DEF decide, setStatus
<1>2. status[d] # "PAID"
  BY <1>1 DEF guard_ops_immutable
<1>3. /\ status'[d] = st /\ status' \in [Documents -> DocStatuses]
      /\ chains'[d].running = chains[d].running - 1 /\ chains'[d].opened = chains[d].opened
      /\ chains' \in [Documents -> [opened : Nat, running : Nat]]
  BY <1>0, <1>1 DEF RowsOK, DocStatuses
<1>4. \A o \in {"submit", "pay"} : Flying(o, d)' = Flying(o, d)
  BY <1>1 DEF Flying
<1>5. FromDraft(d)' /\ SinglePayment(d)'
  BY <1>0, <1>1, <1>2, <1>3, <1>4 DEF Course, FromDraft, SinglePayment
<1>6. SingleCourse(d)'
  BY <1>0, <1>1, <1>3, <1>4 DEF Course, SingleCourse, Drafting, Deciding, Decided, Reimbursed
<1> QED
  BY <1>2, <1>3, <1>5, <1>6 DEF Course

\* submit: of a claim that did not race, it is the only submission ever.
LEMMA SubmitCourse ==
  ASSUME RowsOK, NEW q \in Requests, NEW final \in BOOLEAN, NEW d \in Documents,
         d = request[q].doc, Course(d), submit(q, final)
  PROVE  /\ status' \in [Documents -> DocStatuses]
         /\ chains' \in [Documents -> [opened : Nat, running : Nat]]
         /\ status[d] # "PAID" /\ Course(d)'
         /\ \A e \in Documents \ {d} : status'[e] = status[e] /\ chains'[e] = chains[e]
<1>0. /\ status[d] \in DocStatuses /\ paid[d] \in Nat
      /\ chains[d].opened \in Nat /\ chains[d].running \in Nat
  BY DocumentRow
<1>1. /\ request[q].op = "submit" /\ guard_ops_immutable(status[d], "SUBMITTED")
      /\ end(q) /\ UNCHANGED <<paid, raced>>
      /\ \/ status' = [status EXCEPT ![d] = "APPROVED"] /\ UNCHANGED chains
         \/ /\ status' = [status EXCEPT ![d] = "SUBMITTED"]
            /\ chains' = [chains EXCEPT ![d].opened = @ + 1, ![d].running = @ + 1]
  BY DEF submit
<1>2. status[d] # "PAID"
  BY <1>1 DEF guard_ops_immutable
<1>3. /\ q \in Flying("submit", d)
      /\ \A o \in {"submit", "pay"} : Flying(o, d)' = Flying(o, d) \ {q}
  BY <1>1, EndFlying DEF Flying
<1>4. /\ status' \in [Documents -> DocStatuses]
      /\ chains' \in [Documents -> [opened : Nat, running : Nat]]
      /\ \A e \in Documents \ {d} : status'[e] = status[e] /\ chains'[e] = chains[e]
      /\ \/ status'[d] = "APPROVED" /\ chains'[d] = chains[d]
         \/ /\ status'[d] = "SUBMITTED" /\ chains'[d].running = chains[d].running + 1
            /\ chains'[d].opened = chains[d].opened + 1
  <2>1. CASE status' = [status EXCEPT ![d] = "APPROVED"] /\ UNCHANGED chains
    BY <2>1 DEF RowsOK, DocStatuses
  <2>2. CASE /\ status' = [status EXCEPT ![d] = "SUBMITTED"]
             /\ chains' = [chains EXCEPT ![d].opened = @ + 1, ![d].running = @ + 1]
    <3>1. chains[d] \in [opened : Nat, running : Nat]
      BY DEF RowsOK
    <3> DEFINE c == [chains[d] EXCEPT !.opened = @ + 1, !.running = @ + 1]
    <3>2. chains' = [chains EXCEPT ![d] = c]
      BY <2>2 DEF RowsOK
    <3>5. /\ c \in [opened : Nat, running : Nat]
          /\ c.opened = chains[d].opened + 1 /\ c.running = chains[d].running + 1
      BY <3>1, OneMoreChain
    <3> HIDE DEF c
    <3>3. status' \in [Documents -> DocStatuses] /\ status'[d] = "SUBMITTED"
      BY <2>2 DEF RowsOK, DocStatuses
    <3>4. /\ chains' \in [Documents -> [opened : Nat, running : Nat]]
          /\ chains'[d].running = chains[d].running + 1
          /\ chains'[d].opened = chains[d].opened + 1
      BY <3>2, <3>5 DEF RowsOK
    <3> QED
      BY <2>2, <3>2, <3>3, <3>4 DEF RowsOK
  <2> QED
    BY <1>1, <2>1, <2>2
<1>5. FromDraft(d)' /\ SinglePayment(d)'
  <2>1. FromDraft(d)'
    <3>1. /\ chains[d].running <= chains[d].opened
          /\ status'[d] \in {"APPROVED", "SUBMITTED"}
      BY <1>4 DEF Course, FromDraft
    <3>2. chains'[d].running <= chains'[d].opened
      BY <1>0, <1>4, <3>1
    <3> QED
      BY <3>1, <3>2 DEF FromDraft
  <2>2. SinglePayment(d)'
    <3> SUFFICES ASSUME d \notin Claims, <<"pay", d>> \notin raced
                 PROVE  /\ \A p, r \in Flying("pay", d)' : p = r
                        /\ ~(paid'[d] > 0)
      BY <1>1 DEF SinglePayment
    <3>1. Flying("pay", d)' \subseteq Flying("pay", d)
      BY <1>3
    <3>2. /\ \A p, r \in Flying("pay", d) : p = r
          /\ ~(paid[d] > 0)
      BY <1>2 DEF Course, SinglePayment
    <3> QED
      BY <1>1, <3>1, <3>2
  <2> QED
    BY <2>1, <2>2
<1>6. SingleCourse(d)'
  <2> SUFFICES ASSUME d \in Claims, <<"pay", d>> \notin raced, <<"submit", d>> \notin raced
               PROVE  (Deciding(d) \/ Decided(d))'
    BY <1>1 DEF SingleCourse
  <2>1. Drafting(d)
    BY <1>3 DEF Course, SingleCourse, Deciding, Decided, Reimbursed
  <2>2. /\ Flying("submit", d)' = {} /\ Flying("pay", d)' = {}
        /\ paid'[d] = 0 /\ chains[d].running = 0
    BY <1>1, <1>3, <2>1 DEF Drafting
  <2> QED
    BY <1>0, <1>4, <2>2 DEF Deciding, Decided
<1> QED
  BY <1>2, <1>4, <1>5, <1>6 DEF Course

\* pay: of a document that did not race, it is the only payment ever.
LEMMA PayCourse ==
  ASSUME RowsOK, NEW q \in Requests, NEW d \in Documents,
         d = request[q].doc, Course(d), pay(q)
  PROVE  /\ status' \in [Documents -> DocStatuses] /\ paid' \in [Documents -> Nat]
         /\ status[d] = "PAID" => status'[d] = "PAID"
         /\ Course(d)'
         /\ \A e \in Documents \ {d} : status'[e] = status[e] /\ paid'[e] = paid[e]
<1>0. /\ status[d] \in DocStatuses /\ paid[d] \in Nat
      /\ chains[d].opened \in Nat /\ chains[d].running \in Nat
  BY DocumentRow
<1>1. /\ request[q].op = "pay" /\ guard_ops_immutable(status[d], paidStatus(d))
      /\ status' = [status EXCEPT ![d] = paidStatus(d)]
      /\ paid' = [paid EXCEPT ![d] = @ + 1]
      /\ end(q) /\ UNCHANGED <<chains, raced>>
  BY DEF pay, setStatus
<1>2. paidStatus(d) \in DocStatuses /\ paidStatus(d) = IF d \in Claims THEN "REIMBURSED" ELSE "PAID"
  BY DEF paidStatus, DocStatuses
<1>3. /\ q \in Flying("pay", d)
      /\ \A o \in {"submit", "pay"} : Flying(o, d)' = Flying(o, d) \ {q}
  BY <1>1, EndFlying DEF Flying
<1>4. /\ status' \in [Documents -> DocStatuses] /\ paid' \in [Documents -> Nat]
      /\ \A e \in Documents \ {d} : status'[e] = status[e] /\ paid'[e] = paid[e]
      /\ status'[d] = paidStatus(d) /\ paid'[d] = paid[d] + 1
  BY <1>0, <1>1, <1>2 DEF RowsOK
<1>5. status[d] = "PAID" => status'[d] = "PAID"
  BY <1>1, <1>2, <1>4 DEF guard_ops_immutable
<1>6. FromDraft(d)'
  BY <1>0, <1>1, <1>2, <1>3, <1>4 DEF Course, FromDraft
<1>7. SinglePayment(d)'
  BY <1>0, <1>1, <1>2, <1>3, <1>4 DEF Course, SinglePayment
<1>8. SingleCourse(d)'
  <2> SUFFICES ASSUME d \in Claims, <<"pay", d>> \notin raced, <<"submit", d>> \notin raced
               PROVE  Reimbursed(d)'
    BY <1>1 DEF SingleCourse
  <2>1. Decided(d)
    BY <1>3 DEF Course, SingleCourse, Drafting, Deciding, Reimbursed
  <2> QED
    BY <1>0, <1>1, <1>2, <1>3, <1>4, <2>1 DEF Decided, Reimbursed
<1> QED
  BY <1>4, <1>5, <1>6, <1>7, <1>8 DEF Course

\* readForSubmit, readForPayment: the read of an unraced document finds nobody
\* else flying on it.
LEMMA ReadCourse ==
  ASSUME RowsOK, NEW q \in Requests, NEW d \in Documents, \A e \in Documents : Course(e),
         readForSubmit(q, d) \/ readForPayment(q, d)
  PROVE  RowsOK' /\ UNCHANGED status /\ \A e \in Documents : Course(e)'
<1>1. PICK op \in {"submit", "pay"} :
        /\ begin(q, [op |-> op, doc |-> d]) /\ noteRace(op, d)
        /\ status[d] = IF op = "submit" THEN "DRAFT" ELSE "APPROVED"
  BY DEF readForSubmit, readForPayment, payable
<1>2. UNCHANGED <<status, chains, paid, book>>
  BY DEF readForSubmit, readForPayment
<1>3. /\ request' \in [Requests -> Flight]
      /\ Flying(op, d)' = Flying(op, d) \cup {q}
      /\ \A o \in {"submit", "pay"}, e \in Documents :
           o # op \/ e # d => Flying(o, e)' = Flying(o, e)
  BY <1>1, BeginFlying
<1>4. /\ raced \subseteq raced' /\ raced' \subseteq ({"submit", "pay"} \X Documents)
      /\ <<op, d>> \notin raced' => Flying(op, d) = {}
  BY <1>1, RaceNoted
<1>5. ASSUME NEW e \in Documents, e # d PROVE Course(e)'
  BY <1>2, <1>3, <1>4, <1>5, Untouched
<1>6. FromDraft(d)' /\ SinglePayment(d)'
  BY <1>1, <1>2, <1>3, <1>4 DEF Course, FromDraft, SinglePayment
<1>7. SingleCourse(d)'
  BY <1>1, <1>2, <1>3, <1>4
     DEF Course, SingleCourse, Drafting, Deciding, Decided, Reimbursed
<1>8. Course(d)'
  BY <1>6, <1>7 DEF Course
<1> QED
  BY <1>2, <1>3, <1>4, <1>5, <1>8 DEF RowsOK

\* Every step keeps the rows and every document on its course; a PAID document
\* stays PAID.
LEMMA DocumentStep ==
  ASSUME RowsOK, FundInv, SumRuns, BalanceRuns, \A d \in Documents : Course(d), CashNext
  PROVE  /\ RowsOK' /\ \A d \in Documents : Course(d)'
         /\ \A d \in Documents : status[d] = "PAID" => status'[d] = "PAID"
<1>0. book' \in Seq(Line)
  BY BookStep
<1>1. ASSUME UNCHANGED <<status, chains, paid, raced>>, request' \in [Requests -> Flight],
             \A o \in {"submit", "pay"}, e \in Documents :
               Flying(o, e)' \subseteq Flying(o, e)
      PROVE  RowsOK' /\ UNCHANGED status /\ \A d \in Documents : Course(d)'
  BY <1>0, <1>1, Untouched DEF RowsOK
<1>2. ASSUME NEW d \in Documents, create(d)
      PROVE  /\ RowsOK' /\ \A e \in Documents : Course(e)'
             /\ \A e \in Documents : status[e] = "PAID" => status'[e] = "PAID"
  <2>1. /\ status[d] = "NONE" /\ UNCHANGED <<chains, paid, request, raced>>
        /\ \A e \in Documents \ {d} : status'[e] = status[e]
    BY <1>2 DEF create, RowsOK
  <2>2. \A o \in {"submit", "pay"}, e \in Documents : Flying(o, e)' = Flying(o, e)
    BY <2>1 DEF Flying
  <2>3. status' \in [Documents -> DocStatuses] /\ Course(d)'
    BY <1>2, CreateCourse
  <2>4. \A e \in Documents \ {d} : Course(e)'
    BY <2>1, <2>2, Untouched
  <2> QED
    BY <1>0, <2>1, <2>3, <2>4 DEF RowsOK
<1>3. ASSUME NEW d \in Documents, NEW st \in {"APPROVED", "REJECTED"}, decide(d, st)
      PROVE  /\ RowsOK' /\ \A e \in Documents : Course(e)'
             /\ \A e \in Documents : status[e] = "PAID" => status'[e] = "PAID"
  <2>1. /\ UNCHANGED <<paid, request, raced>>
        /\ \A e \in Documents \ {d} : status'[e] = status[e] /\ chains'[e] = chains[e]
    BY <1>3 DEF decide, setStatus, RowsOK
  <2>2. \A o \in {"submit", "pay"}, e \in Documents : Flying(o, e)' = Flying(o, e)
    BY <2>1 DEF Flying
  <2>3. /\ status' \in [Documents -> DocStatuses]
        /\ chains' \in [Documents -> [opened : Nat, running : Nat]]
        /\ status[d] # "PAID" /\ Course(d)'
    BY <1>3, DecideCourse
  <2>4. \A e \in Documents \ {d} : Course(e)'
    BY <2>1, <2>2, Untouched
  <2> QED
    BY <1>0, <2>1, <2>3, <2>4 DEF RowsOK
<1>4. ASSUME NEW q \in Requests, reads(q)
      PROVE  RowsOK' /\ UNCHANGED status /\ \A d \in Documents : Course(d)'
  <2>1. ASSUME NEW type \in BookTypes, NEW x \in BookAmounts, lockFund(q, type, x)
        PROVE  RowsOK' /\ UNCHANGED status /\ \A d \in Documents : Course(d)'
    <3> DEFINE rec == [op |-> "book", line |-> bookLine(type, x, "none")]
    <3>1. type \in TxTypes /\ x \in Nat /\ "none" \in Documents \cup {"none"}
      BY CashAssumption
    <3>2. bookLine(type, x, "none") \in Line
      BY <3>1, LineType
    <3>3. rec \in Flight /\ rec.op = "book"
      BY <3>2 DEF Flight
    <3>4. /\ UNCHANGED <<status, chains, paid, raced>>
          /\ request[q] = idle /\ request' = [request EXCEPT ![q] = rec]
      BY <2>1 DEF lockFund, begin
    <3> HIDE DEF rec
    <3>5. /\ request' \in [Requests -> Flight] /\ request'[q].op = "book"
          /\ \A p \in Requests \ {q} : request'[p] = request[p]
      BY <3>3, <3>4 DEF RowsOK
    <3>6. \A o \in {"submit", "pay"}, e \in Documents : Flying(o, e)' \subseteq Flying(o, e)
      BY <3>5 DEF Flying
    <3> QED
      BY <1>1, <3>4, <3>5, <3>6
  <2> QED
    BY <1>4, <2>1, ReadCourse DEF reads
<1>5. ASSUME NEW q \in Requests, NEW final \in BOOLEAN, submit(q, final)
      PROVE  /\ RowsOK' /\ \A e \in Documents : Course(e)'
             /\ \A e \in Documents : status[e] = "PAID" => status'[e] = "PAID"
  <2>1. request[q].op = "submit" /\ end(q) /\ UNCHANGED <<paid, raced>>
    BY <1>5 DEF submit
  <2>2. PICK d \in Documents : d = request[q].doc
    BY <2>1, FlightKinds
  <2>3. /\ request' \in [Requests -> Flight]
        /\ \A o \in {"submit", "pay"}, e \in Documents : Flying(o, e)' = Flying(o, e) \ {q}
    BY <2>1, EndFlying
  <2>4. /\ status' \in [Documents -> DocStatuses]
        /\ chains' \in [Documents -> [opened : Nat, running : Nat]]
        /\ status[d] # "PAID" /\ Course(d)'
        /\ \A e \in Documents \ {d} : status'[e] = status[e] /\ chains'[e] = chains[e]
    BY <1>5, <2>2, SubmitCourse
  <2>5. \A e \in Documents \ {d} : Course(e)'
    BY <2>1, <2>3, <2>4, Untouched
  <2> QED
    BY <1>0, <2>1, <2>2, <2>3, <2>4, <2>5 DEF RowsOK
<1>6. ASSUME NEW q \in Requests, pay(q)
      PROVE  /\ RowsOK' /\ \A e \in Documents : Course(e)'
             /\ \A e \in Documents : status[e] = "PAID" => status'[e] = "PAID"
  <2>1. request[q].op = "pay" /\ end(q) /\ UNCHANGED <<chains, raced>>
    BY <1>6 DEF pay
  <2>2. PICK d \in Documents : d = request[q].doc
    BY <2>1, FlightKinds
  <2>3. /\ request' \in [Requests -> Flight]
        /\ \A o \in {"submit", "pay"}, e \in Documents : Flying(o, e)' = Flying(o, e) \ {q}
    BY <2>1, EndFlying
  <2>4. /\ status' \in [Documents -> DocStatuses] /\ paid' \in [Documents -> Nat]
        /\ status[d] = "PAID" => status'[d] = "PAID"
        /\ Course(d)'
        /\ \A e \in Documents \ {d} : status'[e] = status[e] /\ paid'[e] = paid[e]
    BY <1>6, <2>2, PayCourse
  <2>5. \A e \in Documents \ {d} : Course(e)'
    BY <2>1, <2>3, <2>4, Untouched
  <2> QED
    BY <1>0, <2>1, <2>2, <2>3, <2>4, <2>5 DEF RowsOK
<1>7. ASSUME NEW q \in Requests, recordPettyCashTransaction(q) \/ rollback(q)
      PROVE  RowsOK' /\ UNCHANGED status /\ \A d \in Documents : Course(d)'
  <2>1. end(q) /\ UNCHANGED <<status, chains, paid, raced>>
    BY <1>7 DEF recordPettyCashTransaction, rollback
  <2> QED
    BY <1>1, <2>1, EndFlying
<1> QED
  BY <1>2, <1>3, <1>4, <1>5, <1>6, <1>7 DEF CashNext, writes

-----------------------------------------------------------------------------
(* The theorems *)

\* The cash office opens with no document, no line and nobody at work.
LEMMA CashInitInv == CashInit => CashInv
<1> SUFFICES ASSUME CashInit PROVE CashInv
  OBVIOUS
<1>1. RowsOK
  BY DEF CashInit, RowsOK, DocStatuses, Flight
<1>2. \A q \in Requests : request[q].op = "idle"
  BY DEF CashInit, idle
<1>3. FundInv /\ SumRuns /\ BalanceRuns
  BY <1>2, CashAssumption DEF CashInit, FundInv, SumRuns, balance, BalanceRuns
<1>4. ASSUME NEW d \in Documents PROVE Course(d)
  <2>1. \A o \in {"submit", "pay"} : Flying(o, d) = {}
    BY <1>2 DEF Flying
  <2>2. status[d] = "NONE" /\ chains[d].running = 0 /\ chains[d].opened = 0 /\ paid[d] = 0
    BY DEF CashInit
  <2> QED
    BY <2>1, <2>2 DEF Course, FromDraft, SinglePayment, SingleCourse, Drafting
<1> QED
  BY <1>1, <1>3, <1>4 DEF CashInv

\* Every step of the cash office keeps the invariant.
LEMMA CashStep == CashInv /\ [CashNext]_cashVars => CashInv'
<1> SUFFICES ASSUME CashInv, [CashNext]_cashVars PROVE CashInv'
  OBVIOUS
<1>1. CASE CashNext
  BY <1>1, BookStep, DocumentStep DEF CashInv
<1>2. CASE UNCHANGED cashVars
  <2>1. \A o \in {"submit", "pay"}, e \in Documents : Flying(o, e)' = Flying(o, e)
    BY <1>2 DEF cashVars, Flying
  <2>2. \A d \in Documents : Course(d)'
    BY <1>2, <2>1, Untouched DEF cashVars, CashInv
  <2> QED
    BY <1>2, <2>2 DEF cashVars, CashInv, RowsOK, FundInv, SumRuns, BalanceRuns, balance, signed
<1> QED
  BY <1>1, <1>2

\* Rows, fund lock, cash book and the course of every document.
THEOREM CashInvariant == CashSpec => []CashInv
  BY CashInitInv, CashStep, PTL DEF CashSpec

\* Types; a paid document has a payment on record and none under approval is a
\* draft.
THEOREM CashTypes == CashSpec => []CashTypeOK
<1>1. CashInv => CashTypeOK
  BY DocumentRow DEF CashInv, CashTypeOK, Course, FromDraft, DocStatuses
<1> QED
  BY <1>1, CashInvariant, PTL

\* recordPettyCashTransaction: every line starts from the balance before it.
THEOREM BookRuns == CashSpec => []BalanceRuns
<1>1. CashInv => BalanceRuns
  BY DEF CashInv
<1> QED
  BY <1>1, CashInvariant, PTL

\* payReplenishment, reimburseClaim: nothing but an overlap pays twice.
THEOREM PaidOnce == CashSpec => []PaidOnceUnlessRaced
<1>1. CashInv => PaidOnceUnlessRaced
  <2> SUFFICES ASSUME CashInv, NEW d \in Documents, paid[d] > 1,
                      <<"pay", d>> \notin raced
               PROVE  d \in Claims /\ <<"submit", d>> \in raced
    BY DEF PaidOnceUnlessRaced
  <2>1. Course(d) /\ paid[d] \in Nat
    BY DocumentRow DEF CashInv
  <2> QED
    BY <2>1 DEF Course, SinglePayment, SingleCourse, Drafting, Deciding, Decided, Reimbursed
<1> QED
  BY <1>1, CashInvariant, PTL

\* guard_ops_immutable: a paid replenishment stays paid.
THEOREM PaidStays == CashSpec => PaidIsFinal
<1>1. ASSUME CashInv, [CashNext]_cashVars
      PROVE  [\A r \in Replenishments : status[r] = "PAID" => status'[r] = "PAID"]_cashVars
  <2>1. CASE CashNext
    <3>1. \A d \in Documents : status[d] = "PAID" => status'[d] = "PAID"
      BY <1>1, <2>1, DocumentStep DEF CashInv
    <3> QED
      BY <3>1 DEF Documents
  <2> QED
    BY <1>1, <2>1
<1> QED
  BY <1>1, CashInvariant, PTL DEF CashSpec, PaidIsFinal

-----------------------------------------------------------------------------
(* Bank notifications *)

CreditLine == [row : Nat, account : Accounts \cup {None}]

\* What a request holds while it handles a message.
Handling ==
  {free} \cup [pc : {"attribute"}, msg : Messages]
         \cup [pc : {"lookup"}, msg : Messages, company : Companies]
         \cup [pc : {"insert", "post"}, msg : Messages, company : Companies,
               fresh : IngestRow, row : Nat]
         \cup [pc : {"reply"}, msg : Messages, answer : {"refused", "accepted"}]

IngestTypes ==
  /\ rows \in Seq(IngestRow) /\ lines \in Seq(CreditLine)
  /\ active \subseteq Accounts /\ open \subseteq Invoices
  /\ handling \in [Handlers -> Handling]
  /\ bank \in [Messages -> {"none", "unsent", "waiting", "accepted", "refused"}]

\* Two rows of one company never hold the same transaction.
OnFileOnce ==
  \A r, s \in DOMAIN rows :
    r # s => ~(/\ rows[r].company = rows[s].company
               /\ sameTransaction(rows[r].msg, rows[s].msg))

\* Rows and lines point to each other; money on a known account has its line;
\* a row is MATCHED exactly while it is linked.
CreditsMatch ==
  /\ \A l \in DOMAIN lines :
       /\ lines[l].row \in DOMAIN rows
       /\ rows[lines[l].row].line = l
  /\ \A r \in DOMAIN rows :
       /\ rows[r].line # 0 => /\ rows[r].line \in DOMAIN lines
                              /\ lines[rows[r].line] = [row |-> r, account |-> rows[r].account]
       /\ rows[r].account # None /\ rows[r].msg.leg # "VALIDATION" => rows[r].line # 0
       /\ rows[r].status = "MATCHED" <=> rows[r].matched # None

\* A request about to insert holds an untouched row for its own message.
FreshOK(h) ==
  h.pc \in {"insert", "post"} =>
    /\ h.fresh.msg = h.msg /\ h.fresh.company = h.company
    /\ h.fresh.line = 0 /\ h.fresh.status = "RECEIVED" /\ h.fresh.matched = None

\* A request past its insert found its row on file, or holds the index entry.
Inserting(h) == h.pc = "post" /\ h.row = 0

FoundOK(h) ==
  h.pc = "post" /\ h.row # 0 =>
    /\ h.row \in DOMAIN rows /\ rows[h.row].company = h.company
    /\ sameTransaction(h.msg, rows[h.row].msg)

IndexOK ==
  /\ \A q \in Handlers : FreshOK(handling[q]) /\ FoundOK(handling[q])
  /\ \A q \in Handlers : Inserting(handling[q]) =>
       stored(handling[q].company, handling[q].msg) = {}
  /\ \A p, q \in Handlers :
       p # q /\ Inserting(handling[p]) /\ Inserting(handling[q])
         => ~(/\ handling[p].company = handling[q].company
              /\ sameTransaction(handling[p].msg, handling[q].msg))

\* Some row on file holds the transaction of m.
OnFile(m) == \E r \in DOMAIN rows : sameTransaction(m, rows[r].msg)

\* Only what is on file is, or is about to be, accepted.
AcceptsOnFile ==
  /\ \A m \in Messages : bank[m] = "accepted" => OnFile(m)
  /\ \A q \in Handlers :
       handling[q].pc = "reply" /\ handling[q].answer = "accepted" => OnFile(handling[q].msg)

IngestInv == IngestTypes /\ OnFileOnce /\ CreditsMatch /\ IndexOK /\ AcceptsOnFile

\* The fields of what a request holds, by where the request is.
LEMMA HandlingKinds ==
  ASSUME NEW h \in Handling
  PROVE  /\ h.pc \in {"idle", "attribute", "lookup", "insert", "post", "reply"}
         /\ h.pc # "idle" => h.msg \in Messages
         /\ h.pc \in {"lookup", "insert", "post"} => h.company \in Companies
         /\ h.pc \in {"insert", "post"} =>
              h \in [pc : {"insert", "post"}, msg : Messages, company : Companies,
                     fresh : IngestRow, row : Nat]
         /\ h.pc = "reply" => h.answer \in {"refused", "accepted"}
  BY DEF Handling, free

\* The lowest of some row numbers is one of them.
LEMMA FirstIn ==
  ASSUME NEW ids \in SUBSET Nat, ids # {}
  PROVE  first(ids) \in ids
<1>1. PICK s \in ids : \A r \in ids : <<r, s>> \notin OpToRel(<, Nat)
  BY NatLessThanWellFounded, WFMin
<1>2. \A r \in ids : r < s => <<r, s>> \in OpToRel(<, Nat)
  BY DEF OpToRel
<1>3. \A r \in ids : ~(r < s)
  BY <1>1, <1>2
<1>4. \A r \in ids : r \in Nat /\ s \in Nat
  OBVIOUS
<1>5. \A r \in ids : s <= r
  BY <1>3, <1>4
<1> QED
  BY <1>5 DEF first

\* An invoice that fits is an invoice.
LEMMA MatchType ==
  ASSUME open \subseteq Invoices, NEW company, NEW m
  PROVE  findInvoiceMatch(company, m) \in Invoices \cup {None}
<1> DEFINE fits == {i \in open : InvoiceOf[i] = company /\ Outstanding[i] = m.amount}
<1>1. CASE Cardinality(fits) = 1
  <2>1. fits # {}
    BY <1>1, FS_EmptySet
  <2>2. (CHOOSE i \in fits : TRUE) \in fits
    BY <2>1
  <2> QED
    BY <1>1, <2>2 DEF findInvoiceMatch
<1>2. CASE Cardinality(fits) # 1
  BY <1>2 DEF findInvoiceMatch
<1> QED
  BY <1>1, <1>2

\* A step of one request that writes no row and no line.
LEMMA QuietStep ==
  ASSUME IngestInv, NEW q \in Handlers, NEW h \in Handling,
         rows' = rows, lines' = lines, active' = active, open' = open,
         handling' = [handling EXCEPT ![q] = h],
         FreshOK(h), FoundOK(h),
         Inserting(h) => /\ stored(h.company, h.msg) = {}
                         /\ \A p \in Handlers \ {q} : Inserting(handling[p]) =>
                              ~(/\ handling[p].company = h.company
                                /\ sameTransaction(handling[p].msg, h.msg)),
         bank' \in [Messages -> {"none", "unsent", "waiting", "accepted", "refused"}],
         \A m \in Messages : bank'[m] = "accepted" => bank[m] = "accepted" \/ OnFile(m),
         h.pc = "reply" /\ h.answer = "accepted" => OnFile(h.msg)
  PROVE  IngestInv'
<1>1. IngestTypes'
  BY DEF IngestInv, IngestTypes
<1>2. OnFileOnce' /\ CreditsMatch'
  BY DEF IngestInv, OnFileOnce, CreditsMatch
<1>3. handling'[q] = h /\ \A p \in Handlers \ {q} : handling'[p] = handling[p]
  BY DEF IngestInv, IngestTypes
<1>4. \A m, n : sameTransaction(m, n) => sameTransaction(n, m)
  BY DEF sameTransaction
<1>5. IndexOK'
  <2>1. \A p \in Handlers : FreshOK(handling'[p]) /\ FoundOK(handling'[p])
    BY <1>3 DEF IngestInv, IndexOK
  <2>2. \A p \in Handlers : Inserting(handling'[p]) =>
          stored(handling'[p].company, handling'[p].msg) = {}
    BY <1>3 DEF IngestInv, IndexOK
  <2>3. ASSUME NEW p \in Handlers, NEW r \in Handlers, p # r,
               Inserting(handling'[p]), Inserting(handling'[r])
        PROVE  ~(/\ handling'[p].company = handling'[r].company
                 /\ sameTransaction(handling'[p].msg, handling'[r].msg))
    <3>1. CASE p # q /\ r # q
      BY <1>3, <2>3, <3>1 DEF IngestInv, IndexOK
    <3>2. CASE r = q
      BY <1>3, <2>3, <3>2
    <3>3. CASE p = q
      BY <1>3, <1>4, <2>3, <3>3
    <3> QED
      BY <3>1, <3>2, <3>3
  <2> QED
    BY <2>1, <2>2, <2>3 DEF IndexOK, FreshOK, FoundOK, Inserting, stored
<1>6. AcceptsOnFile'
  BY <1>3 DEF IngestInv, AcceptsOnFile, OnFile
<1> QED
  BY <1>1, <1>2, <1>5, <1>6 DEF IngestInv

\* The bank delivers, or the message is attributed or refused.
LEMMA AttributeStep ==
  ASSUME IngestInv, NEW q \in Handlers,
         \/ \E m \in Messages : deliver(q, m)
         \/ verifyAndAttribute(q) \/ resolveAccountFails(q) \/ verificationKeysFail(q)
  PROVE  IngestInv'
<1>0. handling[q] \in Handling /\ bank \in [Messages -> {"none", "unsent", "waiting", "accepted", "refused"}]
  BY DEF IngestInv, IngestTypes
<1>1. ASSUME NEW h \in Handling, handling' = [handling EXCEPT ![q] = h],
             h.pc \in {"attribute", "lookup", "reply"},
             h.pc = "reply" => h.answer = "refused",
             rows' = rows, lines' = lines, active' = active, open' = open,
             bank' \in [Messages -> {"none", "unsent", "waiting", "accepted", "refused"}],
             \A m \in Messages : bank'[m] = "accepted" => bank[m] = "accepted"
      PROVE  IngestInv'
  <2>1. FreshOK(h) /\ FoundOK(h) /\ ~Inserting(h)
    BY <1>1 DEF FreshOK, FoundOK, Inserting
  <2> QED
    BY <1>1, <2>1, QuietStep
<1>2. ASSUME NEW m \in Messages, deliver(q, m) PROVE IngestInv'
  <2> DEFINE h == [pc |-> "attribute", msg |-> m]
  <2>1. h \in Handling /\ h.pc = "attribute"
    BY DEF Handling
  <2>2. handling' = [handling EXCEPT ![q] = h]
    BY <1>2 DEF deliver, step
  <2> HIDE DEF h
  <2>3. /\ bank' \in [Messages -> {"none", "unsent", "waiting", "accepted", "refused"}]
        /\ \A n \in Messages : bank'[n] = "accepted" => bank[n] = "accepted"
        /\ rows' = rows /\ lines' = lines /\ active' = active /\ open' = open
    BY <1>0, <1>2 DEF deliver
  <2> QED
    BY <1>1, <2>1, <2>2, <2>3
<1>3. ASSUME handling[q].pc = "attribute", refuse(q),
             rows' = rows, lines' = lines, active' = active, open' = open, bank' = bank
      PROVE  IngestInv'
  <2> DEFINE h == [pc |-> "reply", msg |-> handling[q].msg, answer |-> "refused"]
  <2>1. h \in Handling /\ h.pc = "reply" /\ h.answer = "refused"
    BY <1>0, <1>3, HandlingKinds DEF Handling
  <2>2. handling' = [handling EXCEPT ![q] = h]
    BY <1>3 DEF refuse, step
  <2> HIDE DEF h
  <2> QED
    BY <1>0, <1>1, <1>3, <2>1, <2>2
<1>4. ASSUME handling[q].pc = "attribute",
             NEW resolved \in {CompanyOf[a] : a \in Accounts} \cup {None}, attribute(q, resolved),
             rows' = rows, lines' = lines, active' = active, open' = open, bank' = bank
      PROVE  IngestInv'
  <2> DEFINE m == handling[q].msg
             company == IF resolved # None THEN resolved ELSE m.signer
             h == [pc |-> "lookup", msg |-> m, company |-> company]
  <2>1. m \in Messages
    BY <1>0, <1>4, HandlingKinds
  <2>2. company \in Companies
    BY <2>1 DEF Companies
  <2>3. refuse(q) \/ handling' = [handling EXCEPT ![q] = h]
    BY <1>4 DEF attribute, step
  <2> HIDE DEF m, company
  <2>4. h \in Handling /\ h.pc = "lookup"
    BY <2>1, <2>2 DEF Handling
  <2> HIDE DEF h
  <2> QED
    BY <1>0, <1>1, <1>3, <1>4, <2>3, <2>4
<1>5. CASE verifyAndAttribute(q)
  <2> DEFINE c == resolveAccount(handling[q].msg)
  <2>1. c \in {CompanyOf[a] : a \in Accounts} \cup {None}
    BY DEF resolveAccount, IngestInv, IngestTypes
  <2>2. handling[q].pc = "attribute" /\ attribute(q, c)
    BY <1>5 DEF verifyAndAttribute
  <2> HIDE DEF c
  <2> QED
    BY <1>4, <1>5, <2>1, <2>2 DEF verifyAndAttribute
<1>6. CASE resolveAccountFails(q)
  BY <1>4, <1>6 DEF resolveAccountFails
<1>7. CASE verificationKeysFail(q)
  BY <1>3, <1>7 DEF verificationKeysFail
<1> QED
  BY <1>2, <1>5, <1>6, <1>7

\* The replay defence finds the row on file, or prepares a fresh one.
LEMMA LookupStep ==
  ASSUME IngestInv, NEW q \in Handlers, stageLookup(q)
  PROVE  IngestInv'
<1> DEFINE m == handling[q].msg
           company == handling[q].company
           account == IF m.dest \in active /\ CompanyOf[m.dest] = company
                      THEN m.dest ELSE None
           byTxn == {r \in stored(company, m) : m.txn # None /\ rows[r].msg.txn = m.txn}
           found == IF byTxn # {} THEN byTxn ELSE stored(company, m)
           fresh == [msg |-> m, company |-> company, account |-> account,
                     status |-> "RECEIVED", line |-> 0, matched |-> None]
           h == [pc |-> IF found # {} THEN "post" ELSE "insert", msg |-> m,
                 company |-> company, fresh |-> fresh,
                 row |-> IF found # {} THEN first(found) ELSE 0]
<1>1. handling' = [handling EXCEPT ![q] = h]
  BY DEF stageLookup, step
<1>2. m \in Messages /\ company \in Companies
  BY HandlingKinds DEF IngestInv, IngestTypes, stageLookup
<1>3. account \in Accounts \cup {None}
  BY DEF IngestInv, IngestTypes
<1>4. fresh \in IngestRow
  BY <1>2, <1>3 DEF IngestRow
<1>5. /\ fresh.msg = m /\ fresh.company = company /\ fresh.line = 0
      /\ fresh.status = "RECEIVED" /\ fresh.matched = None
  OBVIOUS
<1>6. DOMAIN rows \in SUBSET Nat /\ 0 \notin DOMAIN rows
  BY DEF IngestInv, IngestTypes
<1>7. found \subseteq stored(company, m) /\ stored(company, m) \subseteq DOMAIN rows
  BY DEF stored
<1> DEFINE f == found
<1>8. h = [pc |-> IF f # {} THEN "post" ELSE "insert", msg |-> m, company |-> company,
           fresh |-> fresh, row |-> IF f # {} THEN first(f) ELSE 0]
  OBVIOUS
<1> HIDE DEF m, company, account, fresh, h, f
<1>9. f # {} => first(f) \in DOMAIN rows /\ rows[first(f)].company = company
                  /\ sameTransaction(m, rows[first(f)].msg) /\ first(f) \in Nat \ {0}
  <2>1. f \in SUBSET Nat
    BY <1>6, <1>7 DEF f
  <2>2. f # {} => first(f) \in f
    BY <2>1, FirstIn
  <2> QED
    BY <1>6, <1>7, <2>2 DEF f, stored
<1>10. /\ h.pc \in {"insert", "post"} /\ h.msg = m /\ h.company = company
       /\ h.fresh = fresh /\ h.row \in Nat
       /\ h.pc = "post" => f # {} /\ h.row = first(f)
  BY <1>8, <1>9
<1>11. h \in Handling
  <2>1. (IF f # {} THEN first(f) ELSE 0) \in Nat
    BY <1>9
  <2> QED
    BY <1>2, <1>4, <1>8, <2>1 DEF Handling
<1>12. FreshOK(h) /\ FoundOK(h) /\ ~Inserting(h)
  BY <1>5, <1>9, <1>10 DEF FreshOK, FoundOK, Inserting
<1> QED
  BY <1>1, <1>10, <1>11, <1>12, QuietStep DEF stageLookup, IngestInv, IngestTypes, AcceptsOnFile

\* The unique indexes: the insert waits, then goes through or finds the winner.
LEMMA InsertStep ==
  ASSUME IngestInv, NEW q \in Handlers, stageInsert(q)
  PROVE  IngestInv'
<1> DEFINE won == stored(handling[q].company, handling[q].msg)
           n == IF won # {} THEN first(won) ELSE 0
           h == [handling[q] EXCEPT !.pc = "post", !.row = n]
<1>1. handling' = [handling EXCEPT ![q] = h] /\ handling[q].pc = "insert" /\ indexFree(q)
  BY DEF stageInsert, step
<1>2. handling[q] \in [pc : {"insert", "post"}, msg : Messages, company : Companies,
                       fresh : IngestRow, row : Nat]
  BY <1>1, HandlingKinds DEF IngestInv, IngestTypes
<1>3. DOMAIN rows \in SUBSET Nat /\ 0 \notin DOMAIN rows
  BY DEF IngestInv, IngestTypes
<1>4. won \subseteq DOMAIN rows /\ (won # {} => first(won) \in won)
  <2>1. won \subseteq DOMAIN rows
    BY DEF stored
  <2>2. won \in SUBSET Nat
    BY <1>3, <2>1
  <2> HIDE DEF won
  <2> QED
    BY <2>1, <2>2, FirstIn
<1>5. n \in Nat /\ (won # {} => n # 0)
  BY <1>3, <1>4
<1>6. won # {} => /\ n \in DOMAIN rows /\ rows[n].company = handling[q].company
                  /\ sameTransaction(handling[q].msg, rows[n].msg)
  BY <1>4 DEF stored
<1> DEFINE w == won
<1>61. w = stored(handling[q].company, handling[q].msg) /\ (w = {} => n = 0)
  OBVIOUS
<1> HIDE DEF n, w
<1>7. /\ h.pc = "post" /\ h.row = n /\ h.msg = handling[q].msg
      /\ h.company = handling[q].company /\ h.fresh = handling[q].fresh
      /\ h \in Handling
  BY <1>2, <1>5 DEF Handling
<1> HIDE DEF h
<1>8. FreshOK(h) /\ FoundOK(h)
  <2>1. FreshOK(handling[q])
    BY DEF IngestInv, IndexOK
  <2>2. n # 0 => w # {}
    BY <1>61
  <2> QED
    BY <1>1, <1>6, <1>7, <2>1, <2>2 DEF FreshOK, FoundOK, w
<1>9. Inserting(h) => /\ stored(h.company, h.msg) = {}
                      /\ \A p \in Handlers \ {q} : Inserting(handling[p]) =>
                           ~(/\ handling[p].company = h.company
                             /\ sameTransaction(handling[p].msg, h.msg))
  BY <1>1, <1>5, <1>7 DEF Inserting, indexFree, w
<1>10. /\ rows' = rows /\ lines' = lines /\ active' = active /\ open' = open /\ bank' = bank
       /\ bank \in [Messages -> {"none", "unsent", "waiting", "accepted", "refused"}]
  BY DEF stageInsert, IngestInv, IngestTypes
<1> QED
  BY <1>1, <1>7, <1>8, <1>9, <1>10, QuietStep

\* The request ends: it answers the bank, or dies and is forgotten.
LEMMA EndStep ==
  ASSUME IngestInv, NEW q \in Handlers, reply(q) \/ die(q)
  PROVE  IngestInv'
<1>1. free \in Handling /\ free.pc = "idle"
  BY DEF free, Handling
<1>2. FreshOK(free) /\ FoundOK(free) /\ ~Inserting(free)
  BY <1>1 DEF FreshOK, FoundOK, Inserting
<1>3. /\ rows' = rows /\ lines' = lines /\ active' = active /\ open' = open
      /\ handling' = [handling EXCEPT ![q] = free]
  BY DEF reply, die, step
<1>4. bank \in [Messages -> {"none", "unsent", "waiting", "accepted", "refused"}]
  BY DEF IngestInv, IngestTypes
<1>5. /\ bank' \in [Messages -> {"none", "unsent", "waiting", "accepted", "refused"}]
      /\ \A m \in Messages : bank'[m] = "accepted" => bank[m] = "accepted" \/ OnFile(m)
  <2>1. CASE reply(q)
    <3>1. handling[q].msg \in Messages /\ handling[q].answer \in {"refused", "accepted"}
      BY <2>1, HandlingKinds DEF reply, IngestInv, IngestTypes
    <3>2. handling[q].answer = "accepted" => OnFile(handling[q].msg)
      BY <2>1 DEF reply, IngestInv, AcceptsOnFile
    <3>3. bank' = [bank EXCEPT ![handling[q].msg] = handling[q].answer]
      BY <2>1 DEF reply
    <3> QED
      BY <1>4, <3>1, <3>2, <3>3
  <2>2. CASE die(q)
    BY <1>4, <2>2 DEF die
  <2> QED
    BY <2>1, <2>2
<1> QED
  BY <1>1, <1>2, <1>3, <1>5, QuietStep

\* Rows on file keep their message, company and account.
FileKept ==
  \A r \in DOMAIN rows :
    /\ r \in DOMAIN rows' /\ rows'[r].msg = rows[r].msg
    /\ rows'[r].company = rows[r].company /\ rows'[r].account = rows[r].account

\* What operators do to accounts, invoices and links.
LEMMA OperatorStep ==
  ASSUME IngestInv, operators
  PROVE  IngestInv'
<1>0. rows \in Seq(IngestRow) /\ active \subseteq Accounts /\ open \subseteq Invoices
  BY DEF IngestInv, IngestTypes
<1>1. lines' = lines /\ handling' = handling /\ bank' = bank
  BY DEF operators, match, unmatch, setActive, closeInvoice
<1>2. active' \subseteq Accounts /\ open' \subseteq Invoices
  BY <1>0 DEF operators, match, unmatch, setActive, closeInvoice
<1>3. ASSUME rows' \in Seq(IngestRow), DOMAIN rows' = DOMAIN rows, FileKept,
             \A r \in DOMAIN rows :
               /\ rows'[r].line = rows[r].line
               /\ rows'[r].status = "MATCHED" <=> rows'[r].matched # None
      PROVE  IngestInv'
  <2>1. IngestTypes'
    BY <1>1, <1>2, <1>3 DEF IngestInv, IngestTypes
  <2>2. OnFileOnce'
    BY <1>3 DEF IngestInv, OnFileOnce, FileKept
  <2>3. CreditsMatch'
    BY <1>1, <1>3 DEF IngestInv, CreditsMatch, FileKept
  <2>4. \A c, m : stored(c, m)' = stored(c, m)
    BY <1>3 DEF stored, FileKept
  <2>5. IndexOK'
    BY <1>1, <1>3, <2>4 DEF IngestInv, IndexOK, FileKept, FoundOK, FreshOK, Inserting, stored
  <2>6. AcceptsOnFile'
    BY <1>1, <1>3 DEF IngestInv, AcceptsOnFile, OnFile, FileKept
  <2> QED
    BY <2>1, <2>2, <2>3, <2>5, <2>6 DEF IngestInv
<1>4. CASE rows' = rows
  BY <1>0, <1>3, <1>4 DEF FileKept, IngestInv, CreditsMatch
<1>5. ASSUME NEW r \in DOMAIN rows, NEW x \in Invoices \cup {None},
             NEW st \in {"RECEIVED", "POSTED", "MATCHED"},
             st = "MATCHED" <=> x # None,
             rows' = [rows EXCEPT ![r] = [rows[r] EXCEPT !.matched = x, !.status = st]]
      PROVE  IngestInv'
  <2> DEFINE y == [rows[r] EXCEPT !.matched = x, !.status = st]
  <2>1. rows[r] \in IngestRow
    BY <1>0
  <2>2. /\ y \in IngestRow /\ y.msg = rows[r].msg /\ y.company = rows[r].company
        /\ y.account = rows[r].account /\ y.line = rows[r].line
        /\ y.status = st /\ y.matched = x
    BY <2>1 DEF IngestRow
  <2>3. rows' = [rows EXCEPT ![r] = y]
    BY <1>5
  <2> HIDE DEF y
  <2>4. rows' \in Seq(IngestRow) /\ DOMAIN rows' = DOMAIN rows
    BY <1>0, <2>2, <2>3
  <2>5. rows'[r] = y /\ \A s \in DOMAIN rows \ {r} : rows'[s] = rows[s]
    BY <1>0, <2>3
  <2>6. \A s \in DOMAIN rows : rows[s].status = "MATCHED" <=> rows[s].matched # None
    BY DEF IngestInv, CreditsMatch
  <2> QED
    BY <1>3, <1>5, <2>2, <2>4, <2>5, <2>6 DEF FileKept
<1>6. ASSUME NEW r \in DOMAIN rows, NEW i \in Invoices, match(r, i) PROVE IngestInv'
  <2>1. rows' = [rows EXCEPT ![r] = [rows[r] EXCEPT !.matched = i, !.status = "MATCHED"]]
    BY <1>0, <1>6 DEF match
  <2>2. i # None
    BY IngestAssumption
  <2> QED
    BY <1>5, <2>1, <2>2
<1>7. ASSUME NEW r \in DOMAIN rows, unmatch(r) PROVE IngestInv'
  <2> DEFINE st == IF rows[r].line # 0 THEN "POSTED" ELSE "RECEIVED"
  <2>1. rows' = [rows EXCEPT ![r] = [rows[r] EXCEPT !.matched = None, !.status = st]]
    BY <1>0, <1>7 DEF unmatch
  <2>2. st \in {"POSTED", "RECEIVED"}
    OBVIOUS
  <2> HIDE DEF st
  <2> QED
    BY <1>5, <2>1, <2>2
<1>8. CASE (\E a \in Accounts : setActive(a)) \/ (\E i \in Invoices : closeInvoice(i))
  BY <1>4, <1>8 DEF setActive, closeInvoice
<1> QED
  BY <1>6, <1>7, <1>8 DEF operators

\* POSTED and RECEIVED tell whether the row has a line.
TellsLine(x) ==
  /\ x.status = "POSTED" => x.line # 0
  /\ x.status = "RECEIVED" => x.line = 0

\* What persist makes of the row x it has inserted or found: b, posted as the
\* line n if it is money on a known account, and linked if an invoice fits.
Persisted(x, b, n) ==
  /\ b \in IngestRow
  /\ b.msg = x.msg /\ b.company = x.company /\ b.account = x.account
  /\ b.line = IF postable(x) THEN n ELSE x.line
  /\ b.status = "MATCHED" <=> b.matched # None
  /\ b.matched # x.matched => x.matched = None \/ postable(x)
  /\ TellsLine(x) => TellsLine(b)

\* persist in one of its two forms: a new row, with its line if it gets one, or
\* a row on file, which never gets a second line.
LEMMA PersistMoves ==
  ASSUME IngestInv, NEW q \in Handlers, persist(q)
  PROVE  /\ handling' = [handling EXCEPT ![q] =
                           [pc |-> "reply", msg |-> handling[q].msg, answer |-> "accepted"]]
         /\ active' = active /\ open' = open /\ bank' = bank
         /\ \/ /\ Inserting(handling[q])
               /\ \E b : /\ Persisted(handling[q].fresh, b, Len(lines) + 1)
                         /\ rows' = Append(rows, b)
               /\ lines' = IF postable(handling[q].fresh)
                           THEN Append(lines, [row |-> Len(rows) + 1,
                                               account |-> handling[q].fresh.account])
                           ELSE lines
            \/ /\ handling[q].row \in DOMAIN rows /\ handling[q].pc = "post"
               /\ \E b : /\ Persisted(rows[handling[q].row], b, 0)
                         /\ rows' = [rows EXCEPT ![handling[q].row] = b]
               /\ lines' = lines /\ ~postable(rows[handling[q].row])
<1> DEFINE m == handling[q].msg
           isNew == handling[q].row = 0
           id == IF isNew THEN Len(rows) + 1 ELSE handling[q].row
           row == IF isNew THEN handling[q].fresh ELSE rows[id]
           posted == IF postable(row)
                     THEN [row EXCEPT !.line = Len(lines) + 1, !.status = "POSTED"]
                     ELSE row
           invoice == IF m.leg # "VALIDATION" THEN findInvoiceMatch(handling[q].company, m)
                                              ELSE None
           linked == IF linkable(posted) /\ invoice # None
                     THEN [posted EXCEPT !.status = "MATCHED", !.matched = invoice]
                     ELSE posted
<1>1. /\ handling[q].pc = "post"
      /\ rows' = IF isNew THEN Append(rows, linked) ELSE [rows EXCEPT ![id] = linked]
      /\ lines' = IF postable(row)
                  THEN Append(lines, [row |-> id, account |-> row.account])
                  ELSE lines
  BY DEF persist
<1>2. /\ handling' = [handling EXCEPT ![q] = [pc |-> "reply", msg |-> m, answer |-> "accepted"]]
      /\ active' = active /\ open' = open /\ bank' = bank
  BY DEF persist, step
<1>3. handling[q] \in [pc : {"insert", "post"}, msg : Messages, company : Companies,
                       fresh : IngestRow, row : Nat]
  BY <1>1, HandlingKinds DEF IngestInv, IngestTypes
<1>4. FreshOK(handling[q]) /\ FoundOK(handling[q])
  BY DEF IngestInv, IndexOK
<1>5. row \in IngestRow /\ (row.status = "MATCHED" <=> row.matched # None)
  <2>1. CASE isNew
    BY <1>1, <1>3, <1>4, <2>1 DEF FreshOK
  <2>2. CASE ~isNew
    <3>1. id \in DOMAIN rows /\ row = rows[id]
      BY <1>1, <1>4, <2>2 DEF FoundOK
    <3> HIDE DEF id, row
    <3>2. rows[id] \in IngestRow
      BY <3>1 DEF IngestInv, IngestTypes
    <3>3. rows[id].status = "MATCHED" <=> rows[id].matched # None
      BY <3>1 DEF IngestInv, CreditsMatch
    <3> QED
      BY <3>1, <3>2, <3>3
  <2> QED
    BY <2>1, <2>2
<1>6. invoice \in Invoices \cup {None}
  BY MatchType DEF IngestInv, IngestTypes
<1>7. Len(lines) + 1 \in Nat /\ Len(lines) + 1 # 0
  BY DEF IngestInv, IngestTypes
<1> DEFINE n == Len(lines) + 1
<1>8. /\ posted = IF postable(row) THEN [row EXCEPT !.line = n, !.status = "POSTED"] ELSE row
      /\ n \in Nat /\ n # 0
  BY <1>7
<1>9. /\ isNew => row = handling[q].fresh /\ id = Len(rows) + 1
      /\ ~isNew => id = handling[q].row /\ row = rows[handling[q].row]
  OBVIOUS
<1> HIDE DEF n, row, id, invoice, posted
<1>10. /\ posted \in IngestRow /\ posted.msg = row.msg /\ posted.company = row.company
       /\ posted.account = row.account /\ posted.matched = row.matched
       /\ posted.line = IF postable(row) THEN n ELSE row.line
       /\ posted.status = IF postable(row) THEN "POSTED" ELSE row.status
  <2>1. CASE postable(row)
    BY <1>5, <1>8, <2>1 DEF IngestRow
  <2>2. CASE ~postable(row)
    BY <1>5, <1>8, <2>2
  <2> QED
    BY <2>1, <2>2
<1>11. linked = posted \/ (/\ linkable(posted) /\ invoice # None
                           /\ linked = [posted EXCEPT !.status = "MATCHED", !.matched = invoice])
  OBVIOUS
<1> HIDE DEF linked
<1>12. ASSUME postable(row) => row.matched = None
       PROVE  Persisted(row, linked, n)
  <2>1. CASE linked = posted
    <3>1. TellsLine(row) => TellsLine(posted)
      BY <1>8, <1>10 DEF TellsLine
    <3> QED
      BY <1>5, <1>10, <1>12, <2>1, <3>1 DEF Persisted
  <2>2. CASE /\ linkable(posted) /\ invoice # None
             /\ linked = [posted EXCEPT !.status = "MATCHED", !.matched = invoice]
    <3>1. /\ linked \in IngestRow /\ linked.msg = posted.msg /\ linked.company = posted.company
          /\ linked.account = posted.account /\ linked.line = posted.line
          /\ linked.status = "MATCHED" /\ linked.matched = invoice
      BY <1>6, <1>10, <2>2 DEF IngestRow
    <3>2. row.matched = None
      BY <1>5, <1>10, <1>12, <2>2 DEF linkable
    <3> QED
      BY <1>10, <2>2, <3>1, <3>2 DEF Persisted, TellsLine
  <2> QED
    BY <1>11, <2>1, <2>2
<1>13. CASE isNew
  <2>1. row.matched = None
    BY <1>1, <1>4, <1>9, <1>13 DEF FreshOK
  <2>2. Inserting(handling[q])
    BY <1>1, <1>13 DEF Inserting
  <2>3. Persisted(handling[q].fresh, linked, Len(lines) + 1) /\ rows' = Append(rows, linked)
    BY <1>1, <1>9, <1>12, <1>13, <2>1 DEF n
  <2>4. lines' = IF postable(handling[q].fresh)
                 THEN Append(lines, [row |-> Len(rows) + 1, account |-> handling[q].fresh.account])
                 ELSE lines
    BY <1>1, <1>9, <1>13
  <2> QED
    BY <1>2, <2>2, <2>3, <2>4
<1>14. CASE ~isNew
  <2>1. handling[q].row \in DOMAIN rows
    BY <1>1, <1>4, <1>14 DEF FoundOK
  <2>2. ~postable(row)
    BY <1>9, <1>14, <2>1 DEF postable, IngestInv, CreditsMatch
  <2>3. Persisted(row, linked, 0)
    BY <1>12, <2>2 DEF Persisted
  <2>4. /\ Persisted(rows[handling[q].row], linked, 0) /\ ~postable(rows[handling[q].row])
        /\ rows' = [rows EXCEPT ![handling[q].row] = linked] /\ lines' = lines
    BY <1>1, <1>9, <1>14, <2>2, <2>3
  <2> QED
    BY <1>1, <1>2, <2>1, <2>4
<1> QED
  BY <1>13, <1>14

\* The request that wrote its row answers next; the others keep what they hold.
LEMMA PersistStep ==
  ASSUME IngestInv, NEW q \in Handlers, persist(q)
  PROVE  IngestInv'
<1> DEFINE h == [pc |-> "reply", msg |-> handling[q].msg, answer |-> "accepted"]
           x == handling[q].fresh
           k == Len(rows) + 1
           n == Len(lines) + 1
           d == handling[q].row
<1>0. /\ rows \in Seq(IngestRow) /\ lines \in Seq(CreditLine) /\ handling[q] \in Handling
      /\ active \subseteq Accounts /\ open \subseteq Invoices
      /\ handling \in [Handlers -> Handling]
      /\ bank \in [Messages -> {"none", "unsent", "waiting", "accepted", "refused"}]
  BY DEF IngestInv, IngestTypes
<1>1. /\ handling' = [handling EXCEPT ![q] = h]
      /\ active' = active /\ open' = open /\ bank' = bank
  BY PersistMoves
<1>2. handling[q].pc = "post" /\ handling[q].msg \in Messages
  BY <1>0, HandlingKinds DEF persist
<1>3. h \in Handling /\ h.pc = "reply" /\ h.msg = handling[q].msg
  BY <1>2 DEF Handling
<1> HIDE DEF h
<1>4. /\ handling' \in [Handlers -> Handling] /\ handling'[q] = h
      /\ \A p \in Handlers \ {q} : handling'[p] = handling[p]
  BY <1>0, <1>1, <1>3
<1>5. /\ \A m, o : sameTransaction(m, o) => sameTransaction(o, m)
      /\ \A m \in Messages : sameTransaction(m, m)
  BY IngestAssumption DEF sameTransaction
<1>6. ASSUME rows' \in Seq(IngestRow), lines' \in Seq(CreditLine), OnFileOnce', CreditsMatch',
             FileKept, \E r \in DOMAIN rows' : sameTransaction(handling[q].msg, rows'[r].msg),
             \A p \in Handlers \ {q} : Inserting(handling[p]) =>
               \A r \in DOMAIN rows' \ DOMAIN rows :
                 ~(/\ rows'[r].company = handling[p].company
                   /\ sameTransaction(handling[p].msg, rows'[r].msg))
      PROVE  IngestInv'
  <2>1. IngestTypes'
    BY <1>0, <1>1, <1>4, <1>6 DEF IngestTypes
  <2>2. ASSUME NEW p \in Handlers PROVE (FreshOK(handling[p]) /\ FoundOK(handling[p]))'
    <3>1. CASE p = q
      BY <1>3, <1>4, <3>1 DEF FreshOK, FoundOK
    <3>2. CASE p # q
      <4>1. FreshOK(handling[p]) /\ FoundOK(handling[p]) /\ handling'[p] = handling[p]
        BY <1>4, <3>2 DEF IngestInv, IndexOK
      <4> QED
        BY <1>6, <4>1 DEF FreshOK, FoundOK, FileKept
    <3> QED
      BY <3>1, <3>2
  <2>3. ASSUME NEW p \in Handlers, Inserting(handling'[p])
        PROVE  p # q /\ Inserting(handling[p]) /\ handling'[p] = handling[p]
    BY <1>3, <1>4, <2>3 DEF Inserting
  <2>4. ASSUME NEW p \in Handlers, Inserting(handling'[p])
        PROVE  stored(handling[p].company, handling[p].msg)' = {}
    <3>1. p # q /\ Inserting(handling[p]) /\ handling'[p] = handling[p]
      BY <2>3, <2>4
    <3>2. stored(handling[p].company, handling[p].msg) = {}
      BY <3>1 DEF IngestInv, IndexOK
    <3>3. ASSUME NEW r \in DOMAIN rows'
          PROVE  ~(/\ rows'[r].company = handling[p].company
                   /\ sameTransaction(handling[p].msg, rows'[r].msg))
      <4>1. CASE r \in DOMAIN rows
        BY <1>6, <3>2, <4>1 DEF stored, FileKept
      <4>2. CASE r \notin DOMAIN rows
        BY <1>6, <3>1, <4>2
      <4> QED
        BY <4>1, <4>2
    <3> QED
      BY <3>1, <3>3 DEF stored
  <2>5. ASSUME NEW p \in Handlers, NEW r \in Handlers, p # r,
               Inserting(handling'[p]), Inserting(handling'[r])
        PROVE  ~(/\ handling'[p].company = handling'[r].company
                 /\ sameTransaction(handling'[p].msg, handling'[r].msg))
    BY <2>3, <2>5 DEF IngestInv, IndexOK
  <2>6. IndexOK'
    BY <2>2, <2>4, <2>5 DEF IndexOK, Inserting
  <2>7. \A m : OnFile(m) => OnFile(m)'
    BY <1>6 DEF OnFile, FileKept
  <2>8. ASSUME NEW m \in Messages, bank'[m] = "accepted" PROVE OnFile(m)'
    BY <1>1, <2>7, <2>8 DEF IngestInv, AcceptsOnFile
  <2>9. ASSUME NEW p \in Handlers, handling'[p].pc = "reply", handling'[p].answer = "accepted"
        PROVE  OnFile(handling[p].msg)'
    <3>1. CASE p = q
      BY <1>3, <1>4, <1>6, <3>1 DEF OnFile
    <3>2. CASE p # q
      <4>1. OnFile(handling[p].msg) /\ handling'[p] = handling[p]
        BY <1>4, <2>9, <3>2 DEF IngestInv, AcceptsOnFile
      <4> QED
        BY <1>6, <4>1 DEF OnFile, FileKept
    <3> QED
      BY <3>1, <3>2
  <2>10. AcceptsOnFile'
    BY <2>8, <2>9 DEF AcceptsOnFile
  <2> QED
    BY <1>6, <2>1, <2>6, <2>10 DEF IngestInv
<1>7. ASSUME Inserting(handling[q]), NEW b, Persisted(x, b, n), rows' = Append(rows, b),
             lines' = IF postable(x) THEN Append(lines, [row |-> k, account |-> x.account])
                                     ELSE lines
      PROVE  IngestInv'
  <2>1. /\ x.msg = handling[q].msg /\ x.company = handling[q].company /\ x.line = 0
        /\ x.account \in Accounts \cup {None}
    <3>1. FreshOK(handling[q])
      BY DEF IngestInv, IndexOK
    <3>2. x \in IngestRow
      BY <1>0, <1>2, HandlingKinds
    <3> QED
      BY <1>2, <3>1, <3>2 DEF FreshOK, IngestRow
  <2>2. /\ b \in IngestRow /\ b.msg = handling[q].msg /\ b.company = handling[q].company
        /\ b.account = x.account /\ b.line = IF postable(x) THEN n ELSE 0
        /\ b.status = "MATCHED" <=> b.matched # None
    BY <1>7, <2>1 DEF Persisted
  <2>3. k \in Nat /\ n \in Nat /\ k # 0 /\ n # 0 /\ k \notin DOMAIN rows /\ n \notin DOMAIN lines
    BY <1>0
  <2>4. /\ rows' \in Seq(IngestRow) /\ DOMAIN rows' = DOMAIN rows \cup {k}
        /\ rows'[k] = b /\ \A r \in DOMAIN rows : rows'[r] = rows[r]
    BY <1>0, <1>7, <2>2
  <2> DEFINE y == [row |-> k, account |-> x.account]
  <2>5. /\ y \in CreditLine /\ y.row = k
        /\ lines' = IF postable(x) THEN Append(lines, y) ELSE lines
    BY <1>7, <2>1, <2>3 DEF CreditLine
  <2> HIDE DEF y
  <2>6. /\ lines' \in Seq(CreditLine)
        /\ \A l \in DOMAIN lines : l \in DOMAIN lines' /\ lines'[l] = lines[l]
        /\ postable(x) => DOMAIN lines' = DOMAIN lines \cup {n} /\ lines'[n] = y
        /\ ~postable(x) => lines' = lines
    <3>1. CASE postable(x)
      BY <1>0, <2>5, <3>1
    <3>2. CASE ~postable(x)
      BY <1>0, <2>5, <3>2
    <3> QED
      BY <3>1, <3>2
  <2>7. stored(handling[q].company, handling[q].msg) = {}
    BY <1>7 DEF IngestInv, IndexOK
  <2>8. \A r \in DOMAIN rows : ~(/\ rows[r].company = b.company
                                 /\ sameTransaction(b.msg, rows[r].msg))
    BY <2>2, <2>7 DEF stored
  <2> HIDE DEF k, n, x
  <2>9. OnFileOnce'
    <3>1. ASSUME NEW r \in DOMAIN rows', NEW s \in DOMAIN rows', r # s
          PROVE  ~(/\ rows'[r].company = rows'[s].company
                   /\ sameTransaction(rows'[r].msg, rows'[s].msg))
      <4>1. CASE r = k
        BY <2>4, <2>8, <3>1, <4>1
      <4>2. CASE s = k
        BY <1>5, <2>4, <2>8, <3>1, <4>2
      <4>3. CASE r # k /\ s # k
        BY <2>4, <3>1, <4>3 DEF IngestInv, OnFileOnce
      <4> QED
        BY <4>1, <4>2, <4>3
    <3> QED
      BY <3>1 DEF OnFileOnce
  <2>10. CreditsMatch'
    <3>1. ASSUME NEW l \in DOMAIN lines'
          PROVE  lines'[l].row \in DOMAIN rows' /\ rows'[lines'[l].row].line = l
      <4>1. CASE l \in DOMAIN lines
        BY <2>4, <2>6, <4>1 DEF IngestInv, CreditsMatch
      <4>2. CASE l \notin DOMAIN lines
        BY <2>2, <2>4, <2>5, <2>6, <4>2
      <4> QED
        BY <4>1, <4>2
    <3>2. ASSUME NEW r \in DOMAIN rows'
          PROVE  /\ rows'[r].line # 0 =>
                      /\ rows'[r].line \in DOMAIN lines'
                      /\ lines'[rows'[r].line] = [row |-> r, account |-> rows'[r].account]
                 /\ rows'[r].account # None /\ rows'[r].msg.leg # "VALIDATION" =>
                      rows'[r].line # 0
                 /\ rows'[r].status = "MATCHED" <=> rows'[r].matched # None
      <4>1. CASE r \in DOMAIN rows
        BY <2>4, <2>6, <4>1 DEF IngestInv, CreditsMatch
      <4>2. CASE r = k
        <5>1. y = [row |-> r, account |-> b.account]
          BY <2>2, <4>2 DEF y
        <5>2. b.account # None /\ b.msg.leg # "VALIDATION" => postable(x)
          BY <2>1, <2>2 DEF postable
        <5> QED
          BY <2>2, <2>3, <2>4, <2>6, <4>2, <5>1, <5>2
      <4> QED
        BY <2>4, <4>1, <4>2
    <3> QED
      BY <3>1, <3>2 DEF CreditsMatch
  <2>11. FileKept
    BY <2>4 DEF FileKept
  <2>12. \E r \in DOMAIN rows' : sameTransaction(handling[q].msg, rows'[r].msg)
    <3>1. sameTransaction(handling[q].msg, rows'[k].msg) /\ k \in DOMAIN rows'
      BY <1>2, <1>5, <2>2, <2>4
    <3> QED
      BY <3>1
  <2>13. ASSUME NEW p \in Handlers \ {q}, Inserting(handling[p]), NEW r \in DOMAIN rows' \ DOMAIN rows
         PROVE  ~(/\ rows'[r].company = handling[p].company
                  /\ sameTransaction(handling[p].msg, rows'[r].msg))
    <3>1. rows'[r] = b
      BY <2>4, <2>13
    <3> QED
      BY <1>7, <2>2, <2>13, <3>1 DEF IngestInv, IndexOK
  <2> QED
    BY <1>6, <2>4, <2>6, <2>9, <2>10, <2>11, <2>12, <2>13
<1>8. ASSUME d \in DOMAIN rows, ~postable(rows[d]), NEW b, Persisted(rows[d], b, 0),
             rows' = [rows EXCEPT ![d] = b], lines' = lines
      PROVE  IngestInv'
  <2>1. /\ b \in IngestRow /\ b.msg = rows[d].msg /\ b.company = rows[d].company
        /\ b.account = rows[d].account /\ b.line = rows[d].line
        /\ b.status = "MATCHED" <=> b.matched # None
    BY <1>8 DEF Persisted
  <2>2. /\ rows' \in Seq(IngestRow) /\ DOMAIN rows' = DOMAIN rows
        /\ rows'[d] = b /\ \A r \in DOMAIN rows \ {d} : rows'[r] = rows[r]
    BY <1>0, <1>8, <2>1
  <2>3. FoundOK(handling[q]) /\ d # 0
    BY <1>0, <1>8 DEF IngestInv, IndexOK
  <2>4. sameTransaction(handling[q].msg, rows[d].msg)
    BY <1>2, <2>3 DEF FoundOK
  <2> HIDE DEF d
  <2>5. FileKept
    BY <2>1, <2>2 DEF FileKept
  <2>6. OnFileOnce'
    BY <2>2, <2>5 DEF FileKept, IngestInv, OnFileOnce
  <2>7. CreditsMatch'
    <3>1. \A r \in DOMAIN rows : rows'[r].line = rows[r].line
      BY <2>1, <2>2
    <3>2. \A r \in DOMAIN rows : rows'[r].status = "MATCHED" <=> rows'[r].matched # None
      <4>1. \A r \in DOMAIN rows : rows[r].status = "MATCHED" <=> rows[r].matched # None
        BY DEF IngestInv, CreditsMatch
      <4> QED
        BY <2>1, <2>2, <4>1
    <3>3. CreditsMatch /\ DOMAIN rows' = DOMAIN rows /\ lines' = lines
      BY <1>8, <2>2 DEF IngestInv
    <3>4. \A r \in DOMAIN rows :
            rows'[r].account = rows[r].account /\ rows'[r].msg.leg = rows[r].msg.leg
      BY <2>5 DEF FileKept
    <3>5. \A l \in DOMAIN lines' :
            lines'[l].row \in DOMAIN rows' /\ rows'[lines'[l].row].line = l
      BY <3>1, <3>3 DEF CreditsMatch
    <3>6. \A r \in DOMAIN rows' :
            /\ rows'[r].line # 0 =>
                 /\ rows'[r].line \in DOMAIN lines'
                 /\ lines'[rows'[r].line] = [row |-> r, account |-> rows'[r].account]
            /\ rows'[r].account # None /\ rows'[r].msg.leg # "VALIDATION" => rows'[r].line # 0
      BY <3>1, <3>3, <3>4 DEF CreditsMatch
    <3> QED
      BY <3>2, <3>3, <3>5, <3>6 DEF CreditsMatch
  <2>8. \E r \in DOMAIN rows' : sameTransaction(handling[q].msg, rows'[r].msg)
    <3>1. sameTransaction(handling[q].msg, rows'[d].msg) /\ d \in DOMAIN rows'
      BY <1>8, <2>1, <2>2, <2>4
    <3> QED
      BY <3>1
  <2>9. DOMAIN rows' \ DOMAIN rows = {} /\ lines' \in Seq(CreditLine)
    BY <1>0, <1>8, <2>2
  <2> QED
    BY <1>6, <2>2, <2>5, <2>6, <2>7, <2>8, <2>9
<1> QED
  BY <1>7, <1>8, PersistMoves

LEMMA IngestInitInv == IngestInit => IngestInv
<1> SUFFICES ASSUME IngestInit PROVE IngestInv
  OBVIOUS
<1>1. free \in Handling /\ free.pc = "idle"
  BY DEF free, Handling
<1>2. \A q \in Handlers : handling[q].pc = "idle"
  BY <1>1 DEF IngestInit
<1>3. \A m \in Messages : bank[m] \in {"none", "unsent"}
  BY DEF IngestInit
<1>4. bank \in [Messages -> {"none", "unsent", "waiting", "accepted", "refused"}]
  BY DEF IngestInit
<1>5. rows \in Seq(IngestRow) /\ lines \in Seq(CreditLine) /\ DOMAIN rows = {} /\ DOMAIN lines = {}
  BY DEF IngestInit
<1>6. handling \in [Handlers -> Handling] /\ active \subseteq Accounts /\ open \subseteq Invoices
  BY <1>1, IngestAssumption DEF IngestInit
<1> QED
  BY <1>2, <1>3, <1>4, <1>5, <1>6
  DEF IngestInv, IngestTypes, OnFileOnce, CreditsMatch, IndexOK, FreshOK, FoundOK, Inserting,
      AcceptsOnFile

LEMMA IngestStep == IngestInv /\ [IngestNext]_ingestVars => IngestInv'
<1> SUFFICES ASSUME IngestInv, [IngestNext]_ingestVars PROVE IngestInv'
  OBVIOUS
<1>1. CASE UNCHANGED ingestVars
  BY <1>1 DEF ingestVars, IngestInv, IngestTypes, OnFileOnce, CreditsMatch, IndexOK, FreshOK,
     FoundOK, Inserting, stored, AcceptsOnFile, OnFile
<1>2. ASSUME NEW q \in Handlers,
             (\E m \in Messages : deliver(q, m)) \/ ingest(q) \/ fault(q)
      PROVE  IngestInv'
  BY <1>2, AttributeStep, LookupStep, InsertStep, PersistStep, EndStep DEF ingest, fault
<1> QED
  BY <1>1, <1>2, OperatorStep DEF IngestNext

\* The file of notifications, the lines it credited, the requests in flight and
\* the answers given agree at every moment, whatever is repeated, raced, lost
\* or crashed.
THEOREM IngestInvariant == IngestSpec => []IngestInv
  BY IngestInitInv, IngestStep, PTL DEF IngestSpec

\* kcb_ipn_stage and kcb_ipn_post_transaction: the bank may deliver a message
\* any number of times, to any number of requests at once; the account is
\* credited once.
THEOREM OneCredit == IngestSpec => []CreditedOnce
<1>1. IngestInv => CreditedOnce
  <2> SUFFICES ASSUME IngestInv, NEW i \in DOMAIN lines, NEW j \in DOMAIN lines, i # j
               PROVE  ~(/\ rows[lines[i].row].company = rows[lines[j].row].company
                        /\ sameTransaction(rows[lines[i].row].msg, rows[lines[j].row].msg))
    BY DEF CreditedOnce
  <2>1. /\ lines[i].row \in DOMAIN rows /\ lines[j].row \in DOMAIN rows
        /\ lines[i].row # lines[j].row
    BY DEF IngestInv, CreditsMatch
  <2> QED
    BY <2>1 DEF IngestInv, OnFileOnce
<1> QED
  BY <1>1, IngestInvariant, PTL

\* The answer is sent after the commit: what the bank was told is accepted is
\* on file, and credited if it is money on a known account.
THEOREM AcceptedStaysOnFile == IngestSpec => []AcceptedIsOnFile
<1>1. IngestInv => AcceptedIsOnFile
  <2> SUFFICES ASSUME IngestInv, NEW m \in Messages, bank[m] = "accepted"
               PROVE  \E r \in DOMAIN rows :
                        /\ sameTransaction(m, rows[r].msg)
                        /\ rows[r].account # None /\ rows[r].msg.leg # "VALIDATION" =>
                             /\ rows[r].line \in DOMAIN lines
                             /\ lines[rows[r].line] = [row |-> r, account |-> rows[r].account]
    BY DEF AcceptedIsOnFile
  <2>1. PICK r \in DOMAIN rows : sameTransaction(m, rows[r].msg)
    BY DEF IngestInv, AcceptsOnFile, OnFile
  <2>2. rows[r].account # None /\ rows[r].msg.leg # "VALIDATION" =>
          /\ rows[r].line \in DOMAIN lines
          /\ lines[rows[r].line] = [row |-> r, account |-> rows[r].account]
    BY DEF IngestInv, CreditsMatch
  <2> QED
    BY <2>1, <2>2
<1> QED
  BY <1>1, IngestInvariant, PTL

\* The status of every row tells whether it has a line.
StatusTells == \A r \in DOMAIN rows : TellsLine(rows[r])

LEMMA StatusStaysTold ==
  ASSUME IngestInv, StatusTells, [IngestNext]_ingestVars PROVE StatusTells'
<1>0. rows \in Seq(IngestRow)
  BY DEF IngestInv, IngestTypes
<1>1. CASE rows' = rows
  BY <1>1 DEF StatusTells
<1>2. ASSUME NEW r \in DOMAIN rows, NEW x, TellsLine(x), rows' = [rows EXCEPT ![r] = x]
      PROVE  StatusTells'
  <2>1. DOMAIN rows' = DOMAIN rows /\ \A s \in DOMAIN rows : rows'[s] \in {x, rows[s]}
    BY <1>0, <1>2
  <2> QED
    BY <1>2, <2>1 DEF StatusTells
<1>3. ASSUME NEW r \in DOMAIN rows, NEW i \in Invoices, match(r, i) PROVE StatusTells'
  <2> DEFINE x == [rows[r] EXCEPT !.matched = i, !.status = "MATCHED"]
  <2>1. rows' = [rows EXCEPT ![r] = x]
    BY <1>0, <1>3 DEF match
  <2>2. rows[r] \in IngestRow
    BY <1>0
  <2>3. TellsLine(x)
    BY <2>2 DEF TellsLine, IngestRow
  <2> HIDE DEF x
  <2> QED
    BY <1>2, <2>1, <2>3
<1>4. ASSUME NEW r \in DOMAIN rows, unmatch(r) PROVE StatusTells'
  <2> DEFINE x == [rows[r] EXCEPT !.matched = None,
                                  !.status = IF rows[r].line # 0 THEN "POSTED" ELSE "RECEIVED"]
  <2>1. rows' = [rows EXCEPT ![r] = x]
    BY <1>0, <1>4 DEF unmatch
  <2>2. rows[r] \in IngestRow
    BY <1>0
  <2>3. TellsLine(x)
    BY <2>2 DEF TellsLine, IngestRow
  <2> HIDE DEF x
  <2> QED
    BY <1>2, <2>1, <2>3
<1>5. CASE operators
  BY <1>1, <1>3, <1>4, <1>5 DEF operators, setActive, closeInvoice
<1>6. ASSUME NEW q \in Handlers, persist(q) PROVE StatusTells'
  <2>1. ASSUME Inserting(handling[q]), NEW b,
               Persisted(handling[q].fresh, b, Len(lines) + 1), rows' = Append(rows, b)
        PROVE  StatusTells'
    <3>1. FreshOK(handling[q]) /\ handling[q].pc = "post"
      BY <2>1 DEF IngestInv, IndexOK, Inserting
    <3>2. TellsLine(b)
      BY <2>1, <3>1 DEF FreshOK, TellsLine, Persisted
    <3>3. b \in IngestRow
      BY <2>1 DEF Persisted
    <3>4. \A s \in DOMAIN rows' : (s \in DOMAIN rows /\ rows'[s] = rows[s]) \/ rows'[s] = b
      BY <1>0, <2>1, <3>3
    <3> QED
      BY <3>2, <3>4 DEF StatusTells
  <2>2. ASSUME handling[q].row \in DOMAIN rows, NEW b,
               Persisted(rows[handling[q].row], b, 0),
               rows' = [rows EXCEPT ![handling[q].row] = b]
        PROVE  StatusTells'
    <3>1. TellsLine(b)
      BY <2>2 DEF Persisted, StatusTells
    <3> QED
      BY <1>2, <2>2, <3>1
  <2> QED
    BY <1>6, <2>1, <2>2, PersistMoves
<1>7. operators \/ (\E q \in Handlers : persist(q)) \/ rows' = rows
  BY DEF IngestNext, deliver, ingest, fault, verifyAndAttribute, stageLookup,
     stageInsert, reply, verificationKeysFail, resolveAccountFails, die, ingestVars
<1> QED
  BY <1>1, <1>5, <1>6, <1>7

\* A counted fault stays within the bound of the model.
LEMMA FaultsBounded ==
  faults \in 0..MaxFaults /\ [IngestNext]_ingestVars => (faults \in 0..MaxFaults)'
<1> SUFFICES ASSUME faults \in 0..MaxFaults, [IngestNext]_ingestVars
             PROVE  faults' \in 0..MaxFaults
  OBVIOUS
<1>1. MaxFaults \in Nat
  BY IngestAssumption
<1>2. faults' = faults \/ (faults < MaxFaults /\ faults' = faults + 1)
  <2>1. CASE operators
    BY <2>1 DEF operators, match, unmatch, setActive, closeInvoice
  <2>2. ASSUME NEW q \in Handlers, fault(q)
        PROVE  faults < MaxFaults /\ faults' = faults + 1
    BY <2>2 DEF fault, verificationKeysFail, resolveAccountFails, die
  <2>3. ASSUME NEW q \in Handlers, ingest(q) PROVE faults' = faults
    BY <2>3 DEF ingest, verifyAndAttribute, stageLookup, stageInsert, persist, reply
  <2>4. ASSUME NEW q \in Handlers, NEW m \in Messages, deliver(q, m) PROVE faults' = faults
    BY <2>4 DEF deliver
  <2>5. CASE UNCHANGED ingestVars
    BY <2>5 DEF ingestVars
  <2> QED
    BY <2>1, <2>2, <2>3, <2>4, <2>5 DEF IngestNext
<1> QED
  BY <1>1, <1>2

\* kcb_ipn_post_transaction, matchKcbNotification, unmatchKcbNotification: the
\* status of a notification tells whether it was credited and whether it is
\* linked, across automatic and manual links, their undoing and repetitions.
THEOREM StatusTellsCredit == IngestSpec => []IngestTypeOK
<1>1. IngestInit => StatusTells /\ faults \in 0..MaxFaults
  BY IngestAssumption DEF IngestInit, StatusTells
<1>2. IngestInv /\ StatusTells /\ [IngestNext]_ingestVars => StatusTells'
  BY StatusStaysTold
<1>3. IngestInv /\ StatusTells /\ faults \in 0..MaxFaults => IngestTypeOK
  <2> SUFFICES ASSUME IngestInv, StatusTells, faults \in 0..MaxFaults PROVE IngestTypeOK
    OBVIOUS
  <2>1. ASSUME NEW r \in DOMAIN rows
        PROVE  /\ rows[r] \in IngestRow
               /\ rows[r].status = "MATCHED" <=> rows[r].matched # None
               /\ TellsLine(rows[r])
    <3>1. rows \in Seq(IngestRow)
      BY DEF IngestInv, IngestTypes
    <3>2. rows[r] \in IngestRow
      BY <3>1
    <3> QED
      BY <3>2 DEF IngestInv, CreditsMatch, StatusTells
  <2>2. active \subseteq Accounts /\ open \subseteq Invoices
    BY DEF IngestInv, IngestTypes
  <2> QED
    BY <2>1, <2>2 DEF TellsLine, IngestTypeOK
<1> QED
  BY <1>1, <1>2, <1>3, FaultsBounded, IngestInvariant, PTL DEF IngestSpec

\* persist links only a row that has no link: a repeated delivery never moves or
\* removes the link an operator or an earlier delivery made.
THEOREM LinksKept == IngestSpec => LinkKeptByReplay
<1>1. IngestInv /\ [IngestNext]_ingestVars =>
        [\A r \in DOMAIN rows :
           rows[r].matched # None /\ rows'[r].matched # rows[r].matched
             => handling' = handling]_ingestVars
  <2> SUFFICES ASSUME IngestInv, IngestNext, NEW r \in DOMAIN rows,
                      rows[r].matched # None, rows'[r].matched # rows[r].matched
               PROVE  handling' = handling
    OBVIOUS
  <2>1. CASE operators
    BY <2>1 DEF operators, match, unmatch, setActive, closeInvoice
  <2>2. ASSUME NEW q \in Handlers, persist(q) PROVE FALSE
    <3>0. rows \in Seq(IngestRow)
      BY DEF IngestInv, IngestTypes
    <3>1. CASE \E b : rows' = Append(rows, b)
      BY <3>0, <3>1
    <3>2. ASSUME handling[q].row \in DOMAIN rows, ~postable(rows[handling[q].row]),
                 NEW b, Persisted(rows[handling[q].row], b, 0),
                 rows' = [rows EXCEPT ![handling[q].row] = b]
          PROVE  FALSE
      BY <3>0, <3>2 DEF Persisted
    <3> QED
      BY <2>2, <3>1, <3>2, PersistMoves
  <2>3. rows' # rows
    OBVIOUS
  <2> QED
    BY <2>1, <2>2, <2>3 DEF IngestNext, deliver, ingest, fault, verifyAndAttribute, stageLookup,
       stageInsert, reply, verificationKeysFail, resolveAccountFails, die
<1> QED
  BY <1>1, IngestInvariant, PTL DEF IngestSpec, LinkKeptByReplay

=============================================================================
