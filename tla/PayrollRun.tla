----------------------------- MODULE PayrollRun -----------------------------
(***************************************************************************)
(* One payroll run from its calculation to the bank and the ledger         *)
(* (services/hr.ts, payrollLifecycle.ts, payments.ts, finance.ts), with    *)
(* the two doors of the generic record routes that reach the same table.   *)
(* Every operation locks the row it changes and is one step.  Three reads  *)
(* take no lock and need none.  voidPayroll and markPayrollPaid read the   *)
(* statuses of the batches (payrollLifecycle.ts:439, 264): a confirmation  *)
(* looks at no run and is never undone, so one that lands after the read   *)
(* is one that comes just after the operation.  recordWorkflowDecision     *)
(* reads the run's status (line 188): inside the window, transition checks *)
(* it again under the lock and a change in between rolls the decision      *)
(* back; outside it an approval writes nothing and a rejection writes      *)
(* DRAFT whatever the status has become.                                   *)
(* Left out: who acts (the approval engine's module has the signatures; a  *)
(* batch needs a second user to approve it), the make-up of an amount,     *)
(* open validation errors (a submission not taken), payslips, loan         *)
(* recoveries and the payroll calendar.                                    *)
(***************************************************************************)
EXTENDS Integers, Sequences

CONSTANTS
  Amounts,     \* what a calculation or an edit may say the run pays
  MaxChains,   \* bound on approval chains of the run
  MaxBatches,  \* bound on payment batches of the run
  MaxReopens   \* bound on reopenings

ASSUME PayrollAssumption ==
  /\ Amounts \subseteq Nat \ {0} /\ Amounts # {}
  /\ MaxChains \in Nat /\ MaxBatches \in Nat /\ MaxReopens \in Nat

VARIABLES
  run,      \* the row of payrolls; items: the sum of its payroll_items
  posted,   \* net pay of the journals posted for it; gl_posted: not empty
  chains,   \* its workflow instances
  batches,  \* its payment_batches
  recon,    \* its payment_reconciliations row: NONE, MATCHED, DIFFERENCE
  touched   \* history: the record routes edited or submitted the run

payrollVars == <<run, posted, chains, batches, recon, touched>>

\* The statuses a run is left in: reopening passes through REOPENED, and
\* nothing writes VALIDATING, REVIEW, PENDING_APPROVAL, LOCKED or CANCELLED.
RunStatuses == {"DRAFT", "SUBMITTED", "APPROVED", "RELEASED", "PAID",
                "POSTED", "CLOSED", "VOID"}

\* FAILED is written and rolled back by the refusal that follows it.
BatchStatuses == {"DRAFT", "VALIDATED", "APPROVED", "EXPORTED", "CONFIRMED",
                  "RECONCILED"}

DISBURSED == {"CONFIRMED", "RECONCILED"}

\* A cancelled chain keeps its tasks, which can still be decided.
ChainStatuses == {"RUNNING", "CANCELLED", "DECIDED"}

PAYROLL_APPROVAL_STATUSES ==
  {"SUBMITTED", "VALIDATING", "REVIEW", "PENDING_APPROVAL"}

\* The columns of a run that its operations change and that the hash covers.
material(r) == <<r.net, r.reopens, r.locked>>

gl_posted == posted # <<>>

open(i) == chains[i].status # "DECIDED"

-----------------------------------------------------------------------------
(* Calculation and approval *)

\* createPayroll calculates the run it inserts.
PayrollInit ==
  /\ \E n \in Amounts :
       run = [status |-> "DRAFT", net |-> n, items |-> n, reopens |-> 0,
              locked |-> FALSE]
  /\ posted = <<>> /\ chains = <<>> /\ batches = <<>>
  /\ recon = "NONE" /\ touched = FALSE

\* Salaries, attendance and rates may have changed since the last time.
calculatePayroll(n) ==
  /\ run.status \in {"DRAFT", "SUBMITTED"}
  /\ run' = [run EXCEPT !.net = n, !.items = n]
  /\ UNCHANGED <<posted, chains, batches, recon, touched>>

\* startWorkflow: a final authority's submission is approved at once and
\* opens no chain.
startWorkflow(final) ==
  IF final
  THEN /\ run' = [run EXCEPT !.status = "APPROVED"]
       /\ UNCHANGED chains
  ELSE /\ Len(chains) < MaxChains
       /\ run' = [run EXCEPT !.status = "SUBMITTED"]
       /\ chains' = Append(chains, [status |-> "RUNNING",
                                    hash |-> material(run)])

submittable == run.status = "DRAFT"

submitPayroll(final) ==
  /\ submittable
  /\ startWorkflow(final)
  /\ UNCHANGED <<posted, batches, recon, touched>>

decided(i) == [chains EXCEPT ![i].status = "DECIDED"]

\* completeWorkflow: recordWorkflowDecision does nothing outside the window.
approve(i) ==
  /\ open(i)
  /\ chains' = decided(i)
  /\ run' = IF run.status \in PAYROLL_APPROVAL_STATUSES
            THEN [run EXCEPT !.status = "APPROVED"] ELSE run
  /\ UNCHANGED <<posted, batches, recon, touched>>

\* rejectWorkflow: outside the window the engine writes DRAFT itself.
reject(i) ==
  /\ open(i)
  /\ chains' = decided(i)
  /\ run' = [run EXCEPT !.status = "DRAFT"]
  /\ UNCHANGED <<posted, batches, recon, touched>>

-----------------------------------------------------------------------------
(* The record routes on the same table *)

\* PATCH: net_total is a writable column.  invalidateStaleApproval cancels the
\* running chains whose hash differs and takes the run back to DRAFT.
stale(i, r) == chains[i].status = "RUNNING" /\ chains[i].hash # material(r)

patch(n) ==
  LET edited == [run EXCEPT !.net = n]
      hit == {i \in DOMAIN chains : stale(i, edited)}
  IN /\ n # run.net
     /\ chains' = [i \in DOMAIN chains |->
                     IF i \in hit THEN [chains[i] EXCEPT !.status = "CANCELLED"]
                     ELSE chains[i]]
     /\ run' = IF hit = {} THEN edited ELSE [edited EXCEPT !.status = "DRAFT"]
     /\ touched' = TRUE
     /\ UNCHANGED <<posted, batches, recon>>

\* POST /:id/submit asks for no status.
submitRecord(final) ==
  /\ startWorkflow(final)
  /\ touched' = TRUE
  /\ UNCHANGED <<posted, batches, recon>>

-----------------------------------------------------------------------------
(* Lifecycle of the approved run *)

\* transition: from one of the listed statuses, under the row's lock.
transition(from, to) ==
  /\ run.status \in from
  /\ run' = [run EXCEPT !.status = to]
  /\ UNCHANGED <<posted, chains, batches, recon, touched>>

releasePayroll ==
  /\ run.status = "APPROVED"
  /\ run' = [run EXCEPT !.status = "RELEASED", !.locked = TRUE]
  /\ UNCHANGED <<posted, chains, batches, recon, touched>>

disbursed == \E b \in DOMAIN batches : batches[b].status \in DISBURSED

markPayrollPaid == disbursed /\ transition({"RELEASED"}, "PAID")

closePayroll == transition({"PAID", "POSTED"}, "CLOSED")

\* Mutant: a run in the ledger may be reopened.
reopenable_Posted ==
  run.status \in {"APPROVED", "RELEASED", "PAID", "POSTED", "CLOSED"}

reopenable ==
  /\ ~gl_posted
  /\ run.status \in {"APPROVED", "RELEASED", "PAID", "POSTED", "CLOSED"}

reopenedTo == "DRAFT"

\* Through REOPENED to DRAFT; recalculated unless the call says not to.
reopenPayroll(recalculate, n) ==
  /\ reopenable
  /\ run.reopens < MaxReopens
  /\ run' = [status |-> reopenedTo, reopens |-> run.reopens + 1, locked |-> FALSE,
             net |-> IF recalculate THEN n ELSE run.net,
             items |-> IF recalculate THEN n ELSE run.items]
  /\ UNCHANGED <<posted, chains, batches, recon, touched>>

voidable == ~gl_posted /\ ~disbursed

\* The open chains and the open batch stay as they are.
voidPayroll ==
  /\ voidable
  /\ run.status \in {"DRAFT", "SUBMITTED", "APPROVED", "RELEASED"}
  /\ run' = [run EXCEPT !.status = "VOID", !.locked = TRUE]
  /\ UNCHANGED <<posted, chains, batches, recon, touched>>

\* Mutant: the run's status alone says whether it is in the ledger.
postable_Status == run.status \in {"APPROVED", "RELEASED", "PAID"}

postable ==
  ~gl_posted /\ run.status \in {"APPROVED", "RELEASED", "PAID", "POSTED"}

\* postPayrollRun and finance.postPayroll.  The net pay of the journal is what
\* is left of the items.
postPayrollRun ==
  /\ postable
  /\ posted' = Append(posted, run.items)
  /\ run' = [run EXCEPT !.status = "POSTED"]
  /\ UNCHANGED <<chains, batches, recon, touched>>

-----------------------------------------------------------------------------
(* Payment batches *)

\* Mutant: a batch whose file was exported is out of the way.
pending_NotExported(b) == batches[b].status \notin DISBURSED \cup {"EXPORTED"}

pending(b) == batches[b].status \notin DISBURSED

createPaymentBatch ==
  /\ run.status \in {"APPROVED", "RELEASED", "PAID", "POSTED"}
  /\ \A b \in DOMAIN batches : ~pending(b)
  /\ Len(batches) < MaxBatches
  /\ batches' = Append(batches, [total |-> run.net, items |-> run.items,
                                 status |-> "DRAFT"])
  /\ UNCHANGED <<run, posted, chains, recon, touched>>

\* None of the four looks at the run.
moveBatch(b, from, to) ==
  /\ batches[b].status \in from
  /\ batches' = [batches EXCEPT ![b].status = to]
  /\ UNCHANGED <<run, posted, chains, recon, touched>>

validatePaymentBatch(b) ==
  /\ batches[b].items = batches[b].total
  /\ moveBatch(b, {"DRAFT"}, "VALIDATED")
approvePaymentBatch(b) == moveBatch(b, {"DRAFT", "VALIDATED"}, "APPROVED")
exportPaymentBatch(b) == moveBatch(b, {"APPROVED"}, "EXPORTED")
confirmPaymentBatch(b) == moveBatch(b, {"EXPORTED"}, "CONFIRMED")

\* Mutant: a journal that is missing is no difference.
matched_NoJournal(b) ==
  /\ run.net = batches[b].total
  /\ batches[b].total = batches[b].items
  /\ gl_posted => run.net = posted[1]

matched(b) ==
  /\ run.net = batches[b].total
  /\ batches[b].total = batches[b].items
  /\ gl_posted /\ run.net = posted[1]

\* Once per run, on its latest confirmed batch.
reconcilePayments ==
  /\ recon = "NONE"
  /\ \E b \in DOMAIN batches :
       /\ batches[b].status = "CONFIRMED"
       /\ \A c \in DOMAIN batches : c > b => batches[c].status # "CONFIRMED"
       /\ recon' = IF matched(b) THEN "MATCHED" ELSE "DIFFERENCE"
       /\ batches' = IF matched(b)
                     THEN [batches EXCEPT ![b].status = "RECONCILED"]
                     ELSE batches
  /\ UNCHANGED <<run, posted, chains, touched>>

-----------------------------------------------------------------------------
preparation ==
  \/ \E n \in Amounts : calculatePayroll(n)
  \/ \E final \in BOOLEAN : submitPayroll(final)
  \/ \E i \in DOMAIN chains : approve(i) \/ reject(i)

recordRoutes ==
  \/ \E n \in Amounts : patch(n)
  \/ \E final \in BOOLEAN : submitRecord(final)

lifecycle ==
  \/ releasePayroll \/ markPayrollPaid \/ closePayroll
  \/ \E recalculate \in BOOLEAN, n \in Amounts : reopenPayroll(recalculate, n)
  \/ voidPayroll \/ postPayrollRun

disbursement ==
  \/ createPaymentBatch
  \/ \E b \in DOMAIN batches :
       \/ validatePaymentBatch(b) \/ approvePaymentBatch(b)
       \/ exportPaymentBatch(b) \/ confirmPaymentBatch(b)
  \/ reconcilePayments

PayrollNext == preparation \/ recordRoutes \/ lifecycle \/ disbursement

PayrollSpec == PayrollInit /\ [][PayrollNext]_payrollVars

-----------------------------------------------------------------------------
(* Properties *)

\* Rows stay in their domains; in particular no run rests in REOPENED, the
\* status reopenPayroll passes through.
PayrollTypeOK ==
  /\ run \in [status : RunStatuses, net : Amounts, items : Amounts,
              reopens : 0..MaxReopens, locked : BOOLEAN]
  /\ posted \in Seq(Amounts)
  /\ \A i \in DOMAIN chains : chains[i].status \in ChainStatuses
  /\ \A b \in DOMAIN batches :
       /\ batches[b].status \in BatchStatuses
       /\ batches[b].total \in Amounts /\ batches[b].items \in Amounts
  /\ recon \in {"NONE", "MATCHED", "DIFFERENCE"} /\ touched \in BOOLEAN

\* Whatever drags a run back and forth (rejections of old chains, reopening,
\* the record routes), its cost is posted to the ledger once: postPayrollRun
\* goes by gl_posted, which nothing resets.
PayrollPostedOnce == Len(posted) <= 1

\* At most one batch of a run is on its way to the bank, however the run was
\* reopened, voided and approved again meanwhile.
OneBatchUnderWay ==
  \A b, c \in DOMAIN batches :
    batches[b].status \notin DISBURSED /\ batches[c].status \notin DISBURSED
      => b = c

\* What a RECONCILED batch paid out is the net pay in the ledger, also after
\* everything that may happen to the run later.
ReconciledAgrees ==
  \A b \in DOMAIN batches :
    batches[b].status = "RECONCILED" =>
      posted # <<>> /\ batches[b].items = posted[1]

\* The status of a run agrees with the ledger and the bank, however old
\* rejections, reopenings and the record routes drag it about: a VOID run is
\* not in the ledger, a PAID one has a confirmed batch, a CLOSED one was paid
\* or posted, and unless the record routes touched it a posted run stays
\* settled with the items that were posted (voidPayroll, markPayrollPaid,
\* closePayroll, reopenPayroll).
StatusAgreesWithMoney ==
  LET confirmed == \E b \in DOMAIN batches : batches[b].status \in DISBURSED
  IN /\ run.status = "VOID" => ~gl_posted
     /\ run.status = "PAID" => confirmed
     /\ run.status = "CLOSED" => confirmed \/ gl_posted
     /\ ~touched /\ gl_posted =>
          run.items = posted[1] /\ run.status \in {"POSTED", "CLOSED"}
=============================================================================
