--------------------------- MODULE PayrollProofs ----------------------------
(***************************************************************************)
(* Proofs about a payroll run, for any amounts and any number of approval  *)
(* chains, payment batches and reopenings.                                 *)
(***************************************************************************)
EXTENDS PayrollRun, TLAPS

RunRow == [status : RunStatuses, net : Amounts, items : Amounts,
           reopens : 0..MaxReopens, locked : BOOLEAN]

Chain == [status : ChainStatuses, hash : Amounts \X (0..MaxReopens) \X BOOLEAN]

Batch == [total : Amounts, items : Amounts, status : BatchStatuses]

\* The tables are sequences of rows of their types.
RowsOK ==
  /\ run \in RunRow
  /\ posted \in Seq(Amounts)
  /\ chains \in Seq(Chain)
  /\ batches \in Seq(Batch)
  /\ recon \in {"NONE", "MATCHED", "DIFFERENCE"} /\ touched \in BOOLEAN

\* Unless the record routes touched the run, submitPayroll is the only way to a
\* chain: one at most is open, and only while the run waits for it or was
\* voided under it.  This is what keeps an old rejection from a posted run.
ChainsInv ==
  ~touched => \A i \in DOMAIN chains :
    open(i) => /\ run.status \in {"SUBMITTED", "VOID"}
               /\ \A j \in DOMAIN chains : open(j) => i = j

\* A status that says posted, and the bank's and ledger's side of the others.
StatusInv ==
  /\ run.status = "POSTED" => gl_posted
  /\ StatusAgreesWithMoney

PayrollInv ==
  /\ RowsOK
  /\ PayrollPostedOnce
  /\ OneBatchUnderWay
  /\ ReconciledAgrees
  /\ ChainsInv
  /\ StatusInv
-----------------------------------------------------------------------------
(* Rows *)

\* A function over the positions of a sequence, with values in S, is again a
\* sequence of that length.
LEMMA RowByRow ==
  ASSUME NEW S, NEW n \in Nat, NEW t \in [1..n -> S]
  PROVE  t \in Seq(S) /\ Len(t) = n /\ DOMAIN t = 1..n
  OBVIOUS

\* Changing the status of one row of a table changes nothing else.
LEMMA OneRow ==
  ASSUME NEW S, NEW q \in Seq(S), NEW k \in DOMAIN q, NEW v \in S,
         NEW t, t = [q EXCEPT ![k] = v]
  PROVE  /\ t \in Seq(S) /\ DOMAIN t = DOMAIN q
         /\ t[k] = v /\ \A j \in DOMAIN q : j # k => t[j] = q[j]
  OBVIOUS

\* createPayroll inserts a calculated run with nothing attached to it.
LEMMA PayrollInitInv == PayrollInit => PayrollInv
<1> SUFFICES ASSUME PayrollInit PROVE PayrollInv
  OBVIOUS
<1>1. RowsOK
  <2>1. PICK n \in Amounts :
          run = [status |-> "DRAFT", net |-> n, items |-> n, reopens |-> 0,
                 locked |-> FALSE]
    BY DEF PayrollInit
  <2>2. run \in RunRow
    BY <2>1, PayrollAssumption DEF RunRow, RunStatuses
  <2>3. posted \in Seq(Amounts) /\ chains \in Seq(Chain) /\ batches \in Seq(Batch)
    BY DEF PayrollInit
  <2>4. recon \in {"NONE", "MATCHED", "DIFFERENCE"} /\ touched \in BOOLEAN
    BY DEF PayrollInit
  <2> QED
    BY <2>2, <2>3, <2>4 DEF RowsOK
<1>2. PayrollPostedOnce /\ OneBatchUnderWay /\ ReconciledAgrees
  BY DEF PayrollInit, PayrollPostedOnce, OneBatchUnderWay, ReconciledAgrees
<1>3. ChainsInv /\ StatusInv
  BY DEF PayrollInit, ChainsInv, StatusInv, StatusAgreesWithMoney, gl_posted
<1> QED
  BY <1>1, <1>2, <1>3 DEF PayrollInv

\* startWorkflow approves the run or adds one open chain.
LEMMA StartRows ==
  ASSUME RowsOK, NEW final \in BOOLEAN, startWorkflow(final)
  PROVE  /\ run' \in RunRow /\ chains' \in Seq(Chain)
         /\ run'.items = run.items
         /\ \/ run'.status = "APPROVED" /\ UNCHANGED chains
            \/ /\ run'.status = "SUBMITTED"
               /\ DOMAIN chains' = 1..(Len(chains) + 1)
               /\ \A i \in DOMAIN chains : chains'[i] = chains[i]
<1>1. CASE final
  BY <1>1 DEF startWorkflow, RowsOK, RunRow, RunStatuses
<1>2. CASE ~final
  <2>1. material(run) \in Amounts \X (0..MaxReopens) \X BOOLEAN
    BY DEF RowsOK, RunRow, material
  <2>2. [status |-> "RUNNING", hash |-> material(run)] \in Chain
    BY <2>1 DEF Chain, ChainStatuses
  <2>3. /\ run' = [run EXCEPT !.status = "SUBMITTED"]
        /\ chains' = Append(chains, [status |-> "RUNNING", hash |-> material(run)])
    BY <1>2 DEF startWorkflow
  <2>4. chains \in Seq(Chain) /\ Len(chains) \in Nat
    BY DEF RowsOK
  <2>5. /\ chains' \in Seq(Chain) /\ DOMAIN chains' = 1..(Len(chains) + 1)
        /\ \A i \in DOMAIN chains : chains'[i] = chains[i]
    BY <2>2, <2>3, <2>4
  <2> QED
    BY <2>3, <2>5 DEF RowsOK, RunRow, RunStatuses
<1> QED
  BY <1>1, <1>2

\* decideTask closes one chain.
LEMMA DecidedRows ==
  ASSUME RowsOK, NEW i \in DOMAIN chains
  PROVE  /\ decided(i) \in Seq(Chain) /\ DOMAIN decided(i) = DOMAIN chains
         /\ decided(i)[i].status = "DECIDED"
         /\ \A j \in DOMAIN chains : j # i => decided(i)[j] = chains[j]
<1> DEFINE c == [chains[i] EXCEPT !.status = "DECIDED"]
<1>1. chains \in Seq(Chain) /\ chains[i] \in Chain
  BY DEF RowsOK
<1>2. c \in Chain /\ c.status = "DECIDED"
  BY <1>1 DEF Chain, ChainStatuses
<1>3. decided(i) = [chains EXCEPT ![i] = c]
  BY <1>1 DEF decided
<1> HIDE DEF c
<1> QED
  BY <1>1, <1>2, <1>3, OneRow

-----------------------------------------------------------------------------
(* Payment batches *)

\* A new batch, which needs all the others at the bank.
added ==
  /\ DOMAIN batches' = 1..(Len(batches) + 1)
  /\ \A b \in DOMAIN batches :
       batches[b].status \in DISBURSED /\ batches'[b] = batches[b]
  /\ batches'[Len(batches) + 1].status = "DRAFT"

\* Batch b moved on: to the bank, or from CONFIRMED to RECONCILED on a match.
moved(b) ==
  /\ DOMAIN batches' = DOMAIN batches
  /\ \A c \in DOMAIN batches : c # b => batches'[c] = batches[c]
  /\ batches'[b].items = batches[b].items
  /\ \/ /\ batches[b].status \notin DISBURSED
        /\ batches'[b].status \in BatchStatuses \ {"RECONCILED"}
     \/ /\ batches[b].status = "CONFIRMED"
        /\ batches'[b].status = "RECONCILED" /\ matched(b)

\* One row given a new status, for the operations on a batch.
LEMMA StatusRow ==
  ASSUME RowsOK, NEW b \in DOMAIN batches, NEW to \in BatchStatuses,
         batches' = [batches EXCEPT ![b].status = to]
  PROVE  /\ batches' \in Seq(Batch) /\ DOMAIN batches' = DOMAIN batches
         /\ batches'[b].status = to /\ batches'[b].items = batches[b].items
         /\ \A c \in DOMAIN batches : c # b => batches'[c] = batches[c]
<1> DEFINE r == [batches[b] EXCEPT !.status = to]
<1>1. batches \in Seq(Batch) /\ batches[b] \in Batch
  BY DEF RowsOK
<1>2. r \in Batch /\ r.status = to /\ r.items = batches[b].items
  BY <1>1 DEF Batch
<1>3. batches' = [batches EXCEPT ![b] = r]
  BY <1>1
<1> HIDE DEF r
<1> QED
  BY <1>1, <1>2, <1>3, OneRow

\* The six operations of payments.ts on batches, in these terms.
LEMMA DisbursementStep ==
  ASSUME RowsOK, disbursement
  PROVE  /\ UNCHANGED <<run, posted, chains, touched>>
         /\ batches' \in Seq(Batch)
         /\ recon' \in {"NONE", "MATCHED", "DIFFERENCE"}
         /\ \/ UNCHANGED batches \/ added
            \/ \E b \in DOMAIN batches : moved(b)
<1>1. CASE createPaymentBatch
  <2> DEFINE r == [total |-> run.net, items |-> run.items, status |-> "DRAFT"]
  <2>1. r \in Batch /\ r.status = "DRAFT"
    BY DEF RowsOK, RunRow, Batch, BatchStatuses
  <2>2. /\ batches' = Append(batches, r) /\ UNCHANGED <<run, posted, chains, recon, touched>>
        /\ \A b \in DOMAIN batches : batches[b].status \in DISBURSED
    BY <1>1 DEF createPaymentBatch, pending
  <2>3. batches \in Seq(Batch) /\ recon \in {"NONE", "MATCHED", "DIFFERENCE"}
    BY DEF RowsOK
  <2> HIDE DEF r
  <2> QED
    BY <2>1, <2>2, <2>3 DEF added
<1>2. ASSUME NEW b \in DOMAIN batches, NEW from \in SUBSET (BatchStatuses \ DISBURSED),
             NEW to \in BatchStatuses \ {"RECONCILED"}, moveBatch(b, from, to)
      PROVE  /\ UNCHANGED <<run, posted, chains, recon, touched>>
             /\ batches' \in Seq(Batch) /\ moved(b)
  BY <1>2, StatusRow DEF moveBatch, moved
<1>3. ASSUME NEW b \in DOMAIN batches,
             \/ validatePaymentBatch(b) \/ approvePaymentBatch(b)
             \/ exportPaymentBatch(b) \/ confirmPaymentBatch(b)
      PROVE  /\ UNCHANGED <<run, posted, chains, recon, touched>>
             /\ batches' \in Seq(Batch) /\ moved(b)
  <2> USE DEF BatchStatuses, DISBURSED
  <2>1. CASE validatePaymentBatch(b)
    BY <1>2, <2>1 DEF validatePaymentBatch
  <2>2. CASE approvePaymentBatch(b)
    BY <1>2, <2>2 DEF approvePaymentBatch
  <2>3. CASE exportPaymentBatch(b)
    BY <1>2, <2>3 DEF exportPaymentBatch
  <2>4. CASE confirmPaymentBatch(b)
    BY <1>2, <2>4 DEF confirmPaymentBatch
  <2> QED
    BY <1>3, <2>1, <2>2, <2>3, <2>4
<1>4. CASE reconcilePayments
  <2>1. PICK b \in DOMAIN batches :
          /\ batches[b].status = "CONFIRMED"
          /\ recon' = IF matched(b) THEN "MATCHED" ELSE "DIFFERENCE"
          /\ batches' = IF matched(b)
                        THEN [batches EXCEPT ![b].status = "RECONCILED"]
                        ELSE batches
    BY <1>4 DEF reconcilePayments
  <2>2. UNCHANGED <<run, posted, chains, touched>>
    BY <1>4 DEF reconcilePayments
  <2>3. CASE matched(b)
    BY <2>1, <2>2, <2>3, StatusRow DEF moved, BatchStatuses
  <2>4. CASE ~matched(b)
    BY <2>1, <2>2, <2>4 DEF RowsOK
  <2> QED
    BY <2>3, <2>4
<1> QED
  BY <1>1, <1>3, <1>4 DEF disbursement, RowsOK

\* Whatever a step is, no batch comes back from the bank: a row stays, with
\* what it paid, and stays disbursed and reconciled.
LEMMA BatchesKept ==
  ASSUME RowsOK, NEW c \in DOMAIN batches,
         UNCHANGED batches \/ added \/ \E b \in DOMAIN batches : moved(b)
  PROVE  /\ c \in DOMAIN batches' /\ batches'[c].items = batches[c].items
         /\ batches[c].status \in DISBURSED => batches'[c].status \in DISBURSED
         /\ batches[c].status = "RECONCILED" => batches'[c].status = "RECONCILED"
<1>1. DOMAIN batches = 1..Len(batches) /\ Len(batches) \in Nat
  BY DEF RowsOK
<1>2. CASE UNCHANGED batches
  BY <1>2
<1>3. CASE added
  BY <1>1, <1>3 DEF added
<1>4. ASSUME NEW b \in DOMAIN batches, moved(b)
      PROVE  /\ c \in DOMAIN batches' /\ batches'[c].items = batches[c].items
             /\ batches[c].status \in DISBURSED => batches'[c].status \in DISBURSED
             /\ batches[c].status = "RECONCILED" => batches'[c].status = "RECONCILED"
  <2>1. CASE c # b
    BY <1>4, <2>1 DEF moved
  <2>2. CASE c = b
    BY <1>4, <2>2 DEF moved, DISBURSED
  <2> QED
    BY <2>1, <2>2
<1> QED
  BY <1>2, <1>3, <1>4

-----------------------------------------------------------------------------
(* The other operations *)

\* Calculation, approval, record routes and lifecycle keep the rows; only
\* postPayrollRun writes to the ledger.
LEMMA RunRows ==
  ASSUME RowsOK, preparation \/ recordRoutes \/ lifecycle
  PROVE  /\ RowsOK' /\ UNCHANGED <<batches, recon>>
         /\ postPayrollRun \/ UNCHANGED posted
<1> USE DEF RowsOK
<1>1. CASE preparation
  <2>1. ASSUME NEW n \in Amounts, calculatePayroll(n) PROVE run' \in RunRow
    BY <2>1 DEF calculatePayroll, RunRow
  <2>2. ASSUME NEW f \in BOOLEAN, submitPayroll(f)
        PROVE  run' \in RunRow /\ chains' \in Seq(Chain)
    BY <2>2, StartRows DEF submitPayroll
  <2>3. ASSUME NEW k \in DOMAIN chains, approve(k)
        PROVE  run' \in RunRow /\ chains' \in Seq(Chain)
    BY <2>3, DecidedRows DEF approve, RunRow, RunStatuses
  <2>4. ASSUME NEW k \in DOMAIN chains, reject(k)
        PROVE  run' \in RunRow /\ chains' \in Seq(Chain)
    BY <2>4, DecidedRows DEF reject, RunRow, RunStatuses
  <2> QED
    BY <1>1, <2>1, <2>2, <2>3, <2>4
       DEF preparation, calculatePayroll, submitPayroll, approve, reject
<1>2. CASE recordRoutes
  <2>1. ASSUME NEW n \in Amounts, patch(n)
        PROVE  run' \in RunRow /\ chains' \in Seq(Chain) /\ touched'
    <3>1. chains' \in [1..Len(chains) -> Chain] /\ Len(chains) \in Nat
      <4>1. \A k \in 1..Len(chains) : chains[k] \in Chain
        OBVIOUS
      <4>2. \A k \in 1..Len(chains) :
              [chains[k] EXCEPT !.status = "CANCELLED"] \in Chain
        BY <4>1 DEF Chain, ChainStatuses
      <4> QED
        BY <2>1, <4>1, <4>2 DEF patch
    <3>2. run' \in RunRow
      BY <2>1 DEF patch, RunRow, RunStatuses
    <3> QED
      BY <2>1, <3>1, <3>2, RowByRow DEF patch
  <2>2. ASSUME NEW f \in BOOLEAN, submitRecord(f)
        PROVE  run' \in RunRow /\ chains' \in Seq(Chain) /\ touched'
    BY <2>2, StartRows DEF submitRecord
  <2>3. UNCHANGED <<posted, batches, recon>> /\ touched' = TRUE
    BY <1>2 DEF recordRoutes, patch, submitRecord
  <2>4. run' \in RunRow /\ chains' \in Seq(Chain)
    BY <1>2, <2>1, <2>2 DEF recordRoutes
  <2> QED
    BY <2>3, <2>4
<1>3. CASE lifecycle
  <2>1. UNCHANGED <<chains, batches, recon, touched>>
    BY <1>3 DEF lifecycle, releasePayroll, markPayrollPaid, closePayroll, transition,
                reopenPayroll, voidPayroll, postPayrollRun
  <2>2. run' \in RunRow
    <3>1. CASE releasePayroll
      BY <3>1 DEF releasePayroll, RunRow, RunStatuses
    <3>2. CASE markPayrollPaid \/ closePayroll
      BY <3>2 DEF markPayrollPaid, closePayroll, transition, RunRow, RunStatuses
    <3>3. ASSUME NEW x \in BOOLEAN, NEW n \in Amounts, reopenPayroll(x, n)
          PROVE  run' \in RunRow
      BY <3>3, PayrollAssumption DEF reopenPayroll, reopenedTo, RunRow, RunStatuses
    <3>4. CASE voidPayroll
      BY <3>4 DEF voidPayroll, RunRow, RunStatuses
    <3>5. CASE postPayrollRun
      BY <3>5 DEF postPayrollRun, RunRow, RunStatuses
    <3> QED
      BY <1>3, <3>1, <3>2, <3>3, <3>4, <3>5 DEF lifecycle
  <2>3. posted' \in Seq(Amounts) /\ (postPayrollRun \/ UNCHANGED posted)
    <3>1. CASE postPayrollRun
      <4>1. run.items \in Amounts
        BY DEF RunRow
      <4> QED
        BY <3>1, <4>1 DEF postPayrollRun
    <3>2. CASE ~postPayrollRun
      BY <1>3, <3>2 DEF lifecycle, releasePayroll, markPayrollPaid, closePayroll,
                        transition, reopenPayroll, voidPayroll
    <3> QED
      BY <3>1, <3>2
  <2> QED
    BY <2>1, <2>2, <2>3
<1> QED
  BY <1>1, <1>2, <1>3

\* postPayrollRun posts into an empty ledger: gl_posted is read under the lock.
LEMMA PostOnce ==
  ASSUME RowsOK, postPayrollRun
  PROVE  /\ posted = <<>> /\ posted' = <<run.items>>
         /\ run'.status = "POSTED" /\ run'.items = run.items
         /\ run.status # "VOID"
<1>1. posted = <<>> /\ posted' = Append(posted, run.items)
  BY DEF postPayrollRun, postable, gl_posted
<1> QED
  BY <1>1 DEF postPayrollRun, postable, RowsOK, RunRow

\* Every step keeps rows, ledger and batches.
LEMMA LedgerStep ==
  ASSUME RowsOK, PayrollPostedOnce, OneBatchUnderWay, ReconciledAgrees, PayrollNext
  PROVE  RowsOK' /\ PayrollPostedOnce' /\ OneBatchUnderWay' /\ ReconciledAgrees'
<1>1. CASE preparation \/ recordRoutes \/ lifecycle
  <2>1. RowsOK' /\ UNCHANGED <<batches, recon>> /\ (postPayrollRun \/ UNCHANGED posted)
    BY <1>1, RunRows
  <2>2. CASE postPayrollRun
    <3>1. posted = <<>> /\ posted' = <<run.items>>
      BY <2>2, PostOnce
    <3> QED
      BY <2>1, <3>1 DEF PayrollPostedOnce, OneBatchUnderWay, ReconciledAgrees
  <2>3. CASE UNCHANGED posted
    BY <2>1, <2>3 DEF PayrollPostedOnce, OneBatchUnderWay, ReconciledAgrees
  <2> QED
    BY <2>1, <2>2, <2>3
<1>2. CASE disbursement
  <2>1. /\ UNCHANGED <<run, posted, chains, touched>>
        /\ batches' \in Seq(Batch)
        /\ recon' \in {"NONE", "MATCHED", "DIFFERENCE"}
        /\ UNCHANGED batches \/ added \/ \E b \in DOMAIN batches : moved(b)
    BY <1>2, DisbursementStep
  <2>2. RowsOK' /\ PayrollPostedOnce'
    BY <2>1 DEF RowsOK, PayrollPostedOnce
  <2>3. DOMAIN batches = 1..Len(batches) /\ Len(batches) \in Nat
    BY DEF RowsOK
  <2>4. CASE UNCHANGED batches
    BY <2>1, <2>2, <2>4 DEF OneBatchUnderWay, ReconciledAgrees
  <2>5. CASE added
    BY <2>1, <2>2, <2>3, <2>5 DEF added, OneBatchUnderWay, ReconciledAgrees, DISBURSED
  <2>6. ASSUME NEW b \in DOMAIN batches, moved(b)
        PROVE  OneBatchUnderWay' /\ ReconciledAgrees'
    <3>1. OneBatchUnderWay'
      BY <2>6 DEF moved, OneBatchUnderWay, DISBURSED
    <3>2. ASSUME NEW c \in DOMAIN batches, batches'[c].status = "RECONCILED"
          PROVE  posted # <<>> /\ batches'[c].items = posted[1]
      <4>1. CASE c # b
        BY <2>6, <3>2, <4>1 DEF moved, ReconciledAgrees
      <4>2. CASE c = b
        <5>1. matched(b)
          BY <2>6, <3>2, <4>2 DEF moved
        <5> QED
          BY <2>6, <4>2, <5>1 DEF moved, matched, gl_posted
      <4> QED
        BY <4>1, <4>2
    <3> QED
      BY <2>1, <2>6, <3>1, <3>2 DEF moved, ReconciledAgrees
  <2> QED
    BY <2>1, <2>2, <2>4, <2>5, <2>6
<1> QED
  BY <1>1, <1>2 DEF PayrollNext

-----------------------------------------------------------------------------
(* Chains and statuses *)

\* The chains: submitPayroll starts one on a run that has none open, and a
\* decision ends the one it decides.
LEMMA ChainsStep ==
  ASSUME RowsOK, ChainsInv, PayrollNext
  PROVE  ChainsInv'
<1> SUFFICES ASSUME ~touched' PROVE ChainsInv'
  BY DEF ChainsInv
<1>0. DOMAIN chains = 1..Len(chains) /\ Len(chains) \in Nat
  BY DEF RowsOK
<1>1. CASE preparation
  <2>0. ~touched
    BY <1>1 DEF preparation, calculatePayroll, submitPayroll, approve, reject
  <2>1. ASSUME NEW n \in Amounts, calculatePayroll(n) PROVE ChainsInv'
    BY <2>0, <2>1 DEF calculatePayroll, ChainsInv, open, RowsOK, RunRow
  <2>2. ASSUME NEW f \in BOOLEAN, submitPayroll(f) PROVE ChainsInv'
    <3>1. \A k \in DOMAIN chains : ~open(k)
      BY <2>0, <2>2 DEF submitPayroll, submittable, ChainsInv
    <3>2. \/ UNCHANGED chains
          \/ /\ run'.status = "SUBMITTED"
             /\ DOMAIN chains' = 1..(Len(chains) + 1)
             /\ \A k \in DOMAIN chains : chains'[k] = chains[k]
      BY <2>2, StartRows DEF submitPayroll
    <3> QED
      BY <1>0, <3>1, <3>2 DEF ChainsInv, open
  <2>3. ASSUME NEW k \in DOMAIN chains, approve(k) \/ reject(k) PROVE ChainsInv'
    <3>1. open(k) /\ chains' = decided(k)
      BY <2>3 DEF approve, reject
    <3>2. /\ DOMAIN decided(k) = DOMAIN chains /\ decided(k)[k].status = "DECIDED"
          /\ \A j \in DOMAIN chains : j # k => decided(k)[j] = chains[j]
      BY DecidedRows
    <3> QED
      BY <2>0, <3>1, <3>2 DEF ChainsInv, open
  <2> QED
    BY <1>1, <2>1, <2>2, <2>3 DEF preparation
<1>2. CASE recordRoutes
  BY <1>2 DEF recordRoutes, patch, submitRecord
<1>3. CASE lifecycle
  <2>1. ~touched /\ UNCHANGED chains
    BY <1>3 DEF lifecycle, releasePayroll, markPayrollPaid, closePayroll, transition,
                reopenPayroll, voidPayroll, postPayrollRun
  <2>2. run.status \notin {"SUBMITTED", "VOID"} \/ run'.status = "VOID"
    BY <1>3 DEF lifecycle, releasePayroll, markPayrollPaid, closePayroll, transition,
                reopenPayroll, reopenable, voidPayroll, postPayrollRun, postable,
                RowsOK, RunRow
  <2> QED
    BY <2>1, <2>2 DEF ChainsInv, open
<1>4. CASE disbursement
  BY <1>4, DisbursementStep DEF ChainsInv, open
<1> QED
  BY <1>1, <1>2, <1>3, <1>4 DEF PayrollNext

\* A run with a confirmed batch keeps one.
LEMMA DisbursedStays ==
  ASSUME RowsOK, disbursed,
         UNCHANGED batches \/ added \/ \E b \in DOMAIN batches : moved(b)
  PROVE  disbursed'
  BY BatchesKept DEF disbursed

\* Statuses, ledger and bank.  The case that needs ChainsInv is reject: it
\* writes DRAFT over any status, but on a posted run no chain is open.
LEMMA StatusStep ==
  ASSUME RowsOK, PayrollPostedOnce, ChainsInv, StatusInv, PayrollNext
  PROVE  StatusInv'
<1>0. /\ run.status = "POSTED" => gl_posted
      /\ run.status = "VOID" => ~gl_posted
      /\ run.status = "PAID" => disbursed
      /\ run.status = "CLOSED" => disbursed \/ gl_posted
      /\ ~touched /\ gl_posted =>
           run.items = posted[1] /\ run.status \in {"POSTED", "CLOSED"}
  BY DEF StatusInv, StatusAgreesWithMoney, disbursed
<1>1. ASSUME run'.status = "POSTED" => gl_posted',
             run'.status = "VOID" => ~gl_posted',
             run'.status = "PAID" => disbursed',
             run'.status = "CLOSED" => disbursed' \/ gl_posted',
             ~touched' /\ gl_posted' =>
               run'.items = posted'[1] /\ run'.status \in {"POSTED", "CLOSED"}
      PROVE  StatusInv'
  BY <1>1 DEF StatusInv, StatusAgreesWithMoney, disbursed
<1>2. CASE preparation
  <2>0. UNCHANGED <<posted, batches, touched>>
    BY <1>2 DEF preparation, calculatePayroll, submitPayroll, approve, reject
  <2>1. ASSUME NEW n \in Amounts, calculatePayroll(n) PROVE StatusInv'
    BY <1>0, <1>1, <2>0, <2>1 DEF calculatePayroll, gl_posted, disbursed, RowsOK, RunRow
  <2>2. ASSUME NEW f \in BOOLEAN, submitPayroll(f) PROVE StatusInv'
    <3>1. run.status = "DRAFT" /\ run'.status \in {"APPROVED", "SUBMITTED"}
      BY <2>2, StartRows DEF submitPayroll, submittable
    <3> QED
      BY <1>0, <1>1, <2>0, <3>1 DEF gl_posted, disbursed
  <2>3. ASSUME NEW k \in DOMAIN chains, approve(k) PROVE StatusInv'
    <3>1. \/ UNCHANGED run
          \/ run.status = "SUBMITTED" /\ run'.status = "APPROVED"
      BY <2>3 DEF approve, PAYROLL_APPROVAL_STATUSES, RowsOK, RunRow, RunStatuses
    <3> QED
      BY <1>0, <1>1, <2>0, <3>1 DEF gl_posted, disbursed
  <2>4. ASSUME NEW k \in DOMAIN chains, reject(k) PROVE StatusInv'
    <3>1. run'.status = "DRAFT" /\ open(k)
      BY <2>4 DEF reject, RowsOK, RunRow
    <3>2. ~touched => ~gl_posted
      BY <1>0, <3>1 DEF ChainsInv
    <3> QED
      BY <1>1, <2>0, <3>1, <3>2 DEF gl_posted, disbursed
  <2> QED
    BY <1>2, <2>1, <2>2, <2>3, <2>4 DEF preparation
<1>3. CASE recordRoutes
  <2>0. UNCHANGED <<posted, batches>> /\ touched'
    BY <1>3 DEF recordRoutes, patch, submitRecord
  <2>1. run'.status \in {run.status, "DRAFT", "APPROVED", "SUBMITTED"}
    <3>1. ASSUME NEW n \in Amounts, patch(n)
          PROVE  run'.status \in {run.status, "DRAFT"}
      BY <3>1 DEF patch, RowsOK, RunRow
    <3>2. ASSUME NEW f \in BOOLEAN, submitRecord(f)
          PROVE  run'.status \in {"APPROVED", "SUBMITTED"}
      BY <3>2, StartRows DEF submitRecord
    <3> QED
      BY <1>3, <3>1, <3>2 DEF recordRoutes
  <2> QED
    BY <1>0, <1>1, <2>0, <2>1 DEF gl_posted, disbursed
<1>4. CASE lifecycle
  <2>0. UNCHANGED <<batches, touched>>
    BY <1>4 DEF lifecycle, releasePayroll, markPayrollPaid, closePayroll, transition,
                reopenPayroll, voidPayroll, postPayrollRun
  <2>1. CASE postPayrollRun
    BY <1>1, <2>0, <2>1, PostOnce DEF gl_posted, disbursed
  <2>2. CASE releasePayroll
    BY <1>0, <1>1, <2>0, <2>2 DEF releasePayroll, gl_posted, disbursed, RowsOK, RunRow
  <2>3. CASE markPayrollPaid
    BY <1>0, <1>1, <2>0, <2>3
       DEF markPayrollPaid, transition, gl_posted, disbursed, RowsOK, RunRow
  <2>4. CASE closePayroll
    BY <1>0, <1>1, <2>0, <2>4
       DEF closePayroll, transition, gl_posted, disbursed, RowsOK, RunRow
  <2>5. ASSUME NEW x \in BOOLEAN, NEW n \in Amounts, reopenPayroll(x, n)
        PROVE  StatusInv'
    BY <1>1, <2>0, <2>5 DEF reopenPayroll, reopenable, reopenedTo, gl_posted, disbursed
  <2>6. CASE voidPayroll
    BY <1>0, <1>1, <2>0, <2>6
       DEF voidPayroll, voidable, gl_posted, disbursed, RowsOK, RunRow
  <2> QED
    BY <1>4, <2>1, <2>2, <2>3, <2>4, <2>5, <2>6 DEF lifecycle
<1>5. CASE disbursement
  <2>1. /\ UNCHANGED <<run, posted, touched>>
        /\ disbursed => disbursed'
    BY <1>5, DisbursementStep, DisbursedStays
  <2> QED
    BY <1>0, <1>1, <2>1 DEF gl_posted
<1> QED
  BY <1>2, <1>3, <1>4, <1>5 DEF PayrollNext

-----------------------------------------------------------------------------
(* The theorems *)

\* The invariant of a payroll run: rows, ledger, batches, chains, statuses.
THEOREM PayrollInvariant == PayrollSpec => []PayrollInv
<1>1. PayrollInv /\ [PayrollNext]_payrollVars => PayrollInv'
  <2> SUFFICES ASSUME PayrollInv, [PayrollNext]_payrollVars PROVE PayrollInv'
    OBVIOUS
  <2>1. CASE PayrollNext
    BY <2>1, LedgerStep, ChainsStep, StatusStep DEF PayrollInv
  <2>2. CASE UNCHANGED payrollVars
    BY <2>2 DEF payrollVars, PayrollInv, RowsOK, PayrollPostedOnce, OneBatchUnderWay,
                ReconciledAgrees, ChainsInv, open, StatusInv, StatusAgreesWithMoney,
                gl_posted
  <2> QED
    BY <2>1, <2>2
<1> QED
  BY <1>1, PayrollInitInv, PTL DEF PayrollSpec

\* Rows stay in their domains; no run rests in REOPENED.
THEOREM PayrollTypes == PayrollSpec => []PayrollTypeOK
<1>1. PayrollInv => PayrollTypeOK
  <2> SUFFICES ASSUME RowsOK PROVE PayrollTypeOK
    BY DEF PayrollInv
  <2>1. \A i \in DOMAIN chains : chains[i] \in Chain
    BY DEF RowsOK
  <2>2. \A b \in DOMAIN batches : batches[b] \in Batch
    BY DEF RowsOK
  <2>3. /\ \A i \in DOMAIN chains : chains[i].status \in ChainStatuses
        /\ \A b \in DOMAIN batches :
             /\ batches[b].status \in BatchStatuses
             /\ batches[b].total \in Amounts /\ batches[b].items \in Amounts
    BY <2>1, <2>2 DEF Chain, Batch
  <2> QED
    BY <2>3 DEF RowsOK, PayrollTypeOK, RunRow
<1> QED
  BY <1>1, PayrollInvariant, PTL

\* postPayrollRun: the cost of a run is in the ledger once.
THEOREM PostedToLedgerOnce == PayrollSpec => []PayrollPostedOnce
<1>1. PayrollInv => PayrollPostedOnce
  BY DEF PayrollInv
<1> QED
  BY <1>1, PayrollInvariant, PTL

\* createPaymentBatch: one batch of a run is on its way to the bank.
THEOREM OneBatch == PayrollSpec => []OneBatchUnderWay
<1>1. PayrollInv => OneBatchUnderWay
  BY DEF PayrollInv
<1> QED
  BY <1>1, PayrollInvariant, PTL

\* reconcilePayments: what a RECONCILED batch paid is in the ledger for good.
THEOREM ReconciledForGood == PayrollSpec => []ReconciledAgrees
<1>1. PayrollInv => ReconciledAgrees
  BY DEF PayrollInv
<1> QED
  BY <1>1, PayrollInvariant, PTL

\* payrollLifecycle.ts: statuses agree with the ledger and the bank.
THEOREM StatusesAgree == PayrollSpec => []StatusAgreesWithMoney
<1>1. PayrollInv => StatusAgreesWithMoney
  BY DEF PayrollInv, StatusInv
<1> QED
  BY <1>1, PayrollInvariant, PTL
=============================================================================
