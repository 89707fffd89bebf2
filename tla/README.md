# Verification of the Hope Design ERP: approvals, postings, payments

TLA+ models of the parts of this repository that decide who may approve, post,
pay and release controlled goods, checked with TLC on small instances. Every safety property
the runs check is also proved with TLAPS for every value of the constants; liveness is
only model-checked.

All paths below are relative to the repository. `services/` and `routes/` mean
`apps/api/src/services/` and `apps/api/src/routes/`; migrations are under
`packages/db/migrations/`.

## 1. The system

The repository is an ERP: an Express API over PostgreSQL (`apps/api`), a React
application (`apps/web`), the schema as SQL migrations with triggers and CHECK
constraints (`packages/db`), and a background worker. Every API call runs in one
database transaction (`tx`, `run(...)`); concurrency is that of transactions at
READ COMMITTED, of the worker's cron jobs, and of calls to outside services.

| Component | State | Operations | What is hard about it |
|---|---|---|---|
| Approval engine (`services/workflow.ts`, `routes/approvals.ts`, the escalation job of `services/cronJobs.ts`) | `workflow_instances`, `approval_tasks`, the document's status column | submit, approve, reject/return, delegate, execute, invalidate on edit, escalate | concurrent decisions; stage order; one person in several roles; edits after submission; an unlocked cron read; delegations that end |
| Record routes (`routes/crudFactory.ts`) and ledger posting (`services/finance.ts`, `services/inventory.ts`) | the document row, `gl_posted`, journals and stock movements | PATCH, submit, void, execute, post | submit reads without a lock and has no status guard; two ways to post |
| Purchase requisitions (`services/procurement.ts`) | `purchase_requisitions`, purchase orders | update, submit, cancel, reopen, hold, release, convert | unlocked edit; resuming after hold; withdrawal of chains |
| Expense-to-pay (`services/expenses.ts`, 0099, 0231) | `expense_transactions`, `payment_requests`, reconciliations | update, submit, verify, post, void, pay, approve, reject, execute, reconcile | five separated duties over seven steps; partial payments; triggers |
| Expense budgets (`services/expenses.ts`, `services/finance-advanced.ts`, 0083, 0233) | `budget_commitments`, posted debits | reserve, release, consume | check before lock; release by trigger |
| Petty cash, claims, daily close (`services/expenses.ts`, 0099) | the cash book of a fund, claims, replenishments, closings | record, submit, decide, reimburse, pay | unlocked reads before money moves; a chain that outlives its document |
| EFRIS fiscalisation (`services/efris/`, 0143) | `efris_transactions`, `efris_documents` | claim, submit to the tax authority, record, retry, poll | crash between the outside call and its record; stale claims; late answers |
| Worker and queue (`worker.ts`, `services/singleFlight.ts`, `services/queue/`) | advisory locks, jobs | tick, retry | lock lost with its connection; half-done ticks run again |
| General ledger (`services/finance.ts`, `services/finance-advanced.ts`, `services/organisationSettings/fiscal.ts`) | journal entries, periods, cash advances | draft, edit, post, void, reverse, settle, close, lock, reopen | two voids, two edit paths and two ways to move a period; unlocked draft reads; the record routes on the same table |
| Bank notification ingest (`services/kcb/`, 0160) | staged notifications, bank lines, invoice links | verify, attribute, stage, post, match, answer; link and unlink by hand | the bank repeats what is not answered; racing copies; a crash before the answer |
| Security printing (`services/securityPrinting.ts`, 0007) | the job, its two approval tasks, issued materials, batches, reconciliations | submit, approve, authorise, issue, produce, judge, reconcile, pack, dispatch, hold, resume, cancel | a held job resumes at any of eight statuses; tasks left open |
| Payroll (`services/hr.ts`, `services/payrollLifecycle.ts`, `services/payments.ts`) | the run, its chains, `gl_posted`, payment batches, the reconciliation | calculate, submit, decide, release, post, pay, close, reopen, void; create, validate, approve, export, confirm, reconcile a batch | old chains write over a newer status; two lifecycles that look at each other once |
| Supplier payments, stock, attendance, mail and the rest | their tables | see `PROJECT.json` | see `PROJECT.json` |

How they interact: a document's own service sets its status and calls
`startWorkflow`; the engine later writes the status of the document back
(`completeWorkflow`, `rejectWorkflow`), by id and without looking at the status it
overwrites; for documents whose approval moves money or stock it leaves the chain
in EXECUTION_PENDING until `executeWorkflow` runs the posting. Database triggers
take part: `guard_ops_immutable` refuses writes to posted or void expenses,
`release_expense_budget_commitment` frees a reservation when the status changes,
`trg_postings_append_only` refuses every update of `financial_postings`.
Journals and payroll runs have two doors: their own operations and the generic
record routes on the same table, which know nothing of periods, postings or
batches; `JournalLedger` and `PayrollRun` have both. Two of `decideTask`'s hooks,
those for security jobs and payroll runs, are modelled with their documents.

`PROJECT.json` lists every component with its status, and under `hazards` what in
this code a test would hardly reach, with the property that would catch it.

## 2. The modules

| Module | Models | Composition |
|---|---|---|
| `Workflow` | the engine over one document whose own lifecycle is left open | base |
| `CrudApproval` | a customer invoice on the record routes | EXTENDS `Workflow`; implements its `Spec` |
| `RequisitionLifecycle` | a purchase requisition | EXTENDS `Workflow`; implements its `Spec` |
| `ExpenseToPay` | one expense with its vouchers and reconciliations | EXTENDS `Workflow`; implements its `Spec` and `SettlementLedger` |
| `SettlementLedger` | what settling a payable promises, without people or vouchers | abstract |
| `ExpenseBudget` | several expenses on one budgeted account | stands alone |
| `EfrisQueue` | the fiscalisation queue, its workers and the tax authority | stands alone |
| `BankIngest` | bank notifications from delivery to answer, the bank and the operators | stands alone |
| `JournalLedger` | journals, periods and cash advances of one company | stands alone |
| `CashOffice` | one petty cash fund with claims, replenishments and daily closings | stands alone |
| `SecureJob` | one security printing job from draft to delivery | stands alone |
| `PayrollRun` | one payroll run with its chains and payment batches | stands alone |

The `MC*` modules give the constants their values for TLC. The theorems are in modules
of their own:

| Proof module | About | Uses |
|---|---|---|
| `WorkflowProofs` | `Workflow` | |
| `RequisitionProofs` | `RequisitionLifecycle` | `WorkflowProofs` |
| `InvoiceProofs` | `CrudApproval`, `EfrisQueue` | `WorkflowProofs` |
| `ExpenseProofs` | `ExpenseToPay`, `ExpenseBudget`, `SettlementLedger` | `WorkflowProofs` |
| `JournalProofs` | `JournalLedger` | |
| `CashProofs` | `CashOffice`, `BankIngest` | |
| `SecureJobProofs` | `SecureJob` | |
| `PayrollProofs` | `PayrollRun` | |

**State and actions.** Rows are records, and one action is one service call,
because each call is one transaction that locks the rows it decides on. Where
the code does not lock, the call is two actions: the read and the write of the
submit route (`submitRead`, `submitWrite`), of a requisition's edit (`updateRead`,
`updateWrite`), of an expense's budget check (`submitCheck`, `submitCommit`) and of
the escalation job (`escalationSelect`, `escalationUpdate`). `JournalLedger` and
`CashOffice` give each such call a request in flight, from its read to its
write: `readDraft`/`postDraftJournal`, `readForUpdate`/`updateJournal`,
`readForSubmit`/`submit`, `readForPayment`/`pay`. The check of the accounting period
takes no lock either, so every operation that posts is the check and the posting:
`startManualJournal`/`createManualJournal`, `startVoid`/`voidJournal`,
`startCashAdvance`/`createCashAdvance`, `startSettlement`/`settleCashAdvance`,
`startVoidAdvance`/`voidCashAdvance`; the row locks an operation holds in between
are kept (`unlocked`, `free`). `lockFund`/`recordPettyCashTransaction` is a call that
does lock; the model keeps the lock explicit because the balance, the opening amount
plus the sum of all lines, is computed between the two. In `BankIngest` a request is at one of the points where the code
commits or waits, and may die at each. Actions have the names of the functions
they model.

**History.** Four modules remember something the database does not, so that a
property can name the exception it makes: `raced` (documents two requests were
posting or paying at the same time), `touched` (rows the record routes wrote) and
`overtaken` (chains that were live when a requisition's unlocked update was written).
No guard reads them, except that the bound `MaxTouched` counts the second.

**What the standing-alone modules keep of the engine.** A chain there is a status
(or, in `SecureJob`, the two tasks it has); who may sign is `Workflow`'s subject.
Kept is what reaches the document: that a chain can be completed or rejected once,
that old chains stay decidable, and which status they then write.

**What is abstracted.** Amounts are small whole numbers, so the 0.005 tolerance
of the payment checks is left out. The material content of a document is a
`version`; its hash is the version itself (no collisions). A chain of delegated
rows of a step is one task plus the set of users who handed it on. Permissions
appear as the set of users who may call an operation; tenants, companies and
branches as one. Notifications, audit rows and events are left out, except the
`self_authorized` audit row, which the properties use to tell a final authority's
own submission from an approved one.

**Users.** `Owner` is the value of the entity's `ownerColumn`. `FinalAuthority` are
the users who may hold one of SELF_AUTHORIZE_ROLES; such a submission is approved
with no chain (`selfAuthorize`).

## 3. The runs

| Run | Instance | Shows |
|---|---|---|
| `WorkflowChain` | 3 users, 2 stages, one bounded by amount, a delegation limited to amount 1, 2 contents, one submission; 572,240 states | the engine's guarantees, and that `EngineInv`, the inductive invariant of the proofs, is an invariant |
| `InvoiceApproval` | 3 users, 2 submitters of whom one is a final authority, 2 submissions | an invoice posts at most once and never on a status alone; the routes implement the engine |
| `Requisition` | 3 users, 2 contents with different totals, 2 submissions; 180,366 states | approval and orders follow a complete chain, and a chain that stands to its last signature approves what was submitted, over every route through hold, release, cancel, reopen, edit |
| `Expense` | 4 users, amounts 0, 1, 3, 2 vouchers, the claimant sometimes a final authority; 507,020 states | duties stay separated to the cash; settlement and engine are implemented |
| `Budget` | 3 expenses of 2, 2, 1 on an allocation of 3 of a budget of 4, one reservation released by hand | reservations never leak and stay within the header total |
| `EfrisQueue` | 2 registrations (one document under one code or two, or two documents), 2 workers, batches of 1, 2 attempts, one fault; 225,878 states | a document gets one fiscal number unless it was registered again under another code, fiscalised rows stay so, a cancelled row returns only through a worker that held it, nothing queued is stuck |
| `BankIngest` | 2 requests at a time, three sets of messages (a payment and its repetition under another request id, a payment and a validation with its reference, a payment on the platform's key and one signed by the wrong company), one fault, two acts of operators | a transaction is credited once, what was acknowledged is on file, a replay keeps a link, every message is answered |
| `JournalLedger` | 2 periods, an advance of 2, 3 entries, 2 requests, one period move and one write of the record routes; 754,488 states | entries are reversed once, drafts post once unless raced, a shut period takes only reversals of its own entries once the postings in flight have ended |
| `CashOffice` | a claim, a replenishment and a closing, 2 requests, 3 lines in the book, 2 chains per document; 4,441,124 states | the balance runs, only overlapping requests pay twice, a paid replenishment stays paid |
| `SecureJob` | 3 users, one of them a delegate without the stages' role, 2 materials, 2 batches, one reconciliation; 2,319,418 states | materials go out once, in full, under dual control; only passed batches leave; ended jobs stay ended unless a task was left open |
| `Payroll` | amounts 1 and 2, 2 chains, 2 batches, one reopening; 5.6 million states | the run posts once, its status agrees with ledger and bank, one batch is under way, what was reconciled stays true |
| `VoidedJournal` | as `JournalLedger` without the record routes | the finding of `PROJECT.json`: a voided entry leaves its negative in the trial balance |

**The fiscalisation queue.** `txn[r]` is a row of `efris_transactions`; `due` stands
for its `next_attempt_at` and, while it is PROCESSING, for the 300 seconds of its
claim. A worker's tick is `drainEfrisQueue` (lock, stale sweep and claim, one
statement), then for each claim `submitFiscalDocument` and one of `recordOutcome` and
`recordFailure`. The answer and its write are one action: the answer is local to
the worker, so no other step can come between them and make a difference. The tax
authority is external and owes nothing; that it answers a repeated exchange id
with the number it already issued is the assumption `stableExchangeId` rests on. The
identifier is a hash of `doc_type`, `doc_ref_type`, `doc_ref_id` and `doc_ref_code`: the
model has the document (`doc`) and the two fields the body of a registration is free
to choose (`code`), while the unique index looks at the document alone.
One fault per behaviour is a crash, a failure that could not be written, or the
loss of the lock's connection; each alone leads to every recovery path of the
code. Two workers and a lost lock show overlapping claims; batches of one make
rows compete; two attempts show a retry and giving up. `AttemptCap` stops users
from re-queueing a failed row for ever.

**Fairness.** In `EfrisSpec` some worker ticks while the lock is free and rows are
due (the scheduler repeats the task every 20 seconds); a worker that is not
crashed goes on with its row (the call has a timeout); time passes. Users and the
tax authority are not fair, and faults are bounded: with a crash on every attempt a
row would be claimed for ever, because the stale sweep does not look at
`max_attempts`. The company's configuration is taken to stay active; a
configuration found inactive after the claim is one of `recordFailure`'s errors.
In `IngestSpec` a request that does not die runs to its end (it waits at most for
the index entry of another request, which ends too), and the bank repeats a message
it has no answer to. Operators are not fair and faults are bounded: a bank whose
every request dies is never answered. The other specifications state safety only.

**Why the bounds are enough.** Two stages show order and one-person-two-stages;
two submissions, in the runs of the documents, show everything that an old chain can
do to a newer one (no code compares more than two instances of a document);
`WorkflowChain` has one, because each step of the engine changes
one chain, or every chain by one rule (section 4). Two contents show an edit
and its undoing. Two vouchers that together must fit into 3 units show partial
payment, exact payment and over-reservation. Three expenses on a budget that
holds two show the race. Two requests in flight show every race of a read with a
write, because each reads and writes one document or one fund; two chains of a
document show an old one beside a newer one; two batches or reversals of which one
should exist show the second. Four users are the fewest with which an expense can be
claimed, approved, verified, posted and paid; every property about people says
that two roles differ, which two people can violate.

`MaxEntries = 3` holds a draft, what was posted for it and one reversal, or two
postings of a raced draft, or a payment and two settlements of an advance. The
first period starts open and the second is created CLOSED, so that one move shuts
the one under a posting in flight, or reopens the other.

**Type invariants.** Every module states the domains of its state as an invariant
(`CrudTypeOK`, `LedgerTypeOK`, ...). `TypeOK` is part of `EngineInv`, which
`WorkflowChain` checks; the others are theorems (`InvoiceTypes`, `RequisitionTypes`,
`ExpenseTypes`, `LedgerTypes`, `CashTypes`, `PayrollTypes`, `EfrisTypes`,
`StatusTellsCredit`) or part of an invariant that is (`SecureInv`, the budget's).

**Deadlock** is not checked: a document in its last status legitimately has no
further step, and the id bounds stop further submissions.

**Mutants.** Every property of a passing run is violated when one named definition
is replaced by its mutant (a dropped guard, a missing recheck, a wrong status);
the mutants stand before the definitions they change.

## 4. What is proved

All of the properties the passing runs check are theorems, except the two liveness
properties. A theorem holds for every value of the constants that satisfies the `ASSUME`
of the component's module; nothing else is assumed, except in `EscapeIsOpen`.
`WorkflowChain` also checks the engine's inductive invariant with TLC.

**The assumptions** say what the code or its schema fixes. Worth naming:
`NeedsExecution = FALSE` for an expense (`services/entities.ts:61` has no `onApprove`);
`PostFrom \subseteq {"APPROVED", "POSTED"}`, the statuses from which the posting routes
accept a document; finite sets of vouchers, expenses and queue rows; positive amounts,
which the services and CHECK constraints ask for; and in `BankIngest`, that a message has
one of the two identifiers. A message with neither is never recognised as a repetition
(section 5).

**The approval engine** (`WorkflowProofs`), for any users, roles, stages, submissions,
amounts, contents and delegations: `TypeCorrect`; `EngineInvariant`; from it
`ApprovedChainsAreSigned`, `ApprovalIsSequential`, `OpenTasksAgree`,
`ExecutorsAreIndependent`, and the action property `DecisionsAreFinal`. None of the state
properties is inductive alone. That an approved chain is completely signed needs, at the
moment of the last signature, that every earlier stage is APPROVED rather than merely
closed: a rejection must have closed *every* task (`RefusalCloses`), tasks must exist
exactly for the stages that cover the amount (`RowsMatch`), an APPROVED task must carry a
decider who is not the owner (`DecidersRecorded`), and the stages before a signed one must
be approved by others (`SignedInOrder`). `StatusMatches` ties the instance to its tasks and
`ExecutorOutside` remembers the executor's check, which stays true because no task of a
fully signed chain is open. The proof takes one chain at a time (`ChainOK(c, t)`): each
action changes at most the chain it names, or changes every chain by a rule (edit,
escalation, withdrawal), and one lemma per action shows that `ChainOK` survives. A
cancelled chain keeps its open tasks in the code and can be completed later; `ChainOK`
holds of it throughout.

`SignersAreEntitled` needs a second invariant, `AssignedInv`: a task stands as its stage
configured it until somebody entitled to it hands it on. `EscapeIsOpen` has two
hypotheses about the company, without which it is false: `Staffed` (every stage names
somebody who can open its task) and `EnoughDelegatees` (as many people to delegate to,
the owner apart, as stages). The argument counts: the deciders of the other stages are
fewer than the delegatees, so one of these is free to sign the earliest open stage.

**The documents over the engine.** `RequisitionImplementsEngine`,
`InvoiceImplementsEngine` and `ExpenseImplementsEngine` are refinements: the document's
`Init` and every step of it are an initial state and a step, or a stutter, of `Workflow`.
All of the engine's theorems therefore hold of these documents, and the proofs below use
`EngineInv` as given. Three theorems join what the document proves with what the engine
does (`EntirelySigned`: every stage that covers the amount, different people, none the
owner, each entitled or handed the task by somebody entitled): `OrderedOnSignatures` for
requisitions, `PostedOnSignatures` for invoices and `CashOnSignatures` for expenses say
that an order, a journal and a payment each trace back to such a chain, unless a final
authority submitted. They need the refinement, since the entitlement of the signers is a
theorem about `Spec`, and the lemma `ApprovedByOthers` on chains that are approved
throughout but perhaps cancelled since.

- `RequisitionProofs`: `ApprovalIsOfSubmitted` with `StandingMatches` (a chain that stands
  was opened for the content as it is, or an unlocked update overtook it), which every
  step that writes the content or the instances has to keep; `CancelWithdraws`;
  and `ConversionIsBacked`, for which a status that says approved must at all times be
  backed by a chain that was completed, and a completed chain must stay so
  (`CompleteStays`) while the requisition is edited, held, released and reopened.
- `InvoiceProofs`: `InvoicePostedOnce` with `LedgerOK` (`gl_posted` exactly when there is a
  journal), `PostingIsBacked` with `ApprovalBacked`, which is about the approved status
  before anything is posted.
- `ExpenseProofs`: `PostingUnderControl` and `DutiesApart` from `ExpenseInv`. That an
  approver of the expense never pays it needs that no approver can appear afterwards:
  `OneChain` (an expense has one chain at most, for its own amount, and that chain is
  decided once the expense is approved or posted),
  `BooksOK` (who verified and posted), `VouchersOK` (each
  voucher's signatures by its status, and that it exists only on a posted expense).

**Settlement** (`ExpenseProofs`). `NeverOverpaid` and `PaymentsFinal` are about the abstract
`SettlementLedger`. `VouchersSettle` proves that the vouchers implement it under the mapping
of reserved and paid to sums over vouchers, and `ExpenseNeverOverpaid` and
`ExpensePaymentsFinal` carry both results back. The sums are folds of the community modules
over finite sets. The induction theorems of the library cannot be applied by the provers, so
that a fold exists, is unique and gains the value of an element when the set gains the
element is proved by least counterexample: among the subsets for which it fails, a smallest
one exists (finiteness), and removing the chosen element contradicts it. The lemmas from
`IsSum` to `TotalAdds` state this once for every sum.

**Budgets** (`ExpenseProofs`). `ReservedOnce` with `HeldOnce` (commitment by status) and
`BooksMatch` (the posted debits are the sum over the posted expenses). `BudgetHolds` with
`Covered`: commitments and debits exceed the header total by no more than the posted
expenses whose reservation was released by hand. Requests between their check and their
commit need no clause: the second check, under the lock, is made against the sums
as they are then.

**Fiscalisation** (`InvoiceProofs`). `OneFiscalNumber` rests on `Stable`, every request
carries the identifier of a registration, and on `Genuine`, the number a fiscalised row
carries was issued for its document and code, which stays so because a registered row
never changes either. Two numbers of one document then come from two registrations under
two codes, and since the index lets one of them be live at a time (`LiveOnce`), one has
failed or been cancelled. `OneLiveRow` is about the queue: the batch claim does not look at the unique
index and still never violates it, because only live rows are due (`DeadNotDue`) and all
else that brings a row to life looks at the index. `QueueMovesOn` is the safety half of
`EventuallySettled`: a waiting row is due (`WaitingDue`), so every unsettled row can be
claimed now or when its time has run out, and the lock is held only by a worker with rows to
work off (`LockWorks`). `EfrisTypes` needs that attempts only grow. `FiscalizedForGood`
needs `LockKept`: as long as no lock connection was lost, only the holder of the advisory
lock has claims, and none is of a fiscalised row. `CancelledForGood` needs the types only,
the exception being in its statement.

**General ledger** (`JournalProofs`). `EntriesReversedOnce`, `DraftsPostedOnce`,
`ShutPeriodsStayShut` from `LedgerInv`. The unlocked reads make the work: `FlightInv` says
that what a transaction read as a draft, whatever it has become since, is not POSTED and
takes no part in a reversal, and that unless it was raced for, this transaction alone will
post it. `HeldInv` says what the row locks of a posting in flight keep true between its
check of the period and its posting. `AdvancesOK` and `PointersOK` tie advances and
reversals to the entries they name. A close may come between check and posting, so
`ShutPeriodsStayShut` speaks of a period that is `Shut`: not open, and found open by no
posting still in flight. It then stays so until it is opened again.

**Cash office** (`CashProofs`). `BookRuns` needs `FundInv`: one transaction holds the fund's
lock and its line starts from the balance of the book; `SumRuns` ties that balance, which
the code computes as the opening amount plus the sum of the lines, to the last line.
`PaidOnce` and `PaidStays` need,
document by document (`Course`), what may be in flight at each status; any number of old
chains may still be decided.

**Bank notifications** (`CashProofs`). `OneCredit`, `AcceptedStaysOnFile` and `LinksKept`
from `IngestInv`: two rows of one company never hold the same transaction (`OnFileOnce`);
rows and lines point to each other (`CreditsMatch`); a request past its insert found its
row or holds the index entry, and no two hold entries that collide (`IndexOK`); only what
is on file is, or is about to be, accepted (`AcceptsOnFile`). A request may die at each
point; it leaves nothing behind that the invariant speaks of. `StatusTellsCredit` adds
that POSTED and RECEIVED tell whether there is a line, through links and their undoing.

**Security printing** (`SecureJobProofs`). `DualControl`, `IssuedOnce`, `PassedLeaves`,
`EndsStay` from `SecureInv`. Since a held job resumes at any of eight statuses, the
status says nothing about the signatures; `SignatureInv` ties what is authorised and
issued to the people and the tasks instead, and `StockInv` what was dispatched to the
batches. A task may have been delegated: whoever it was handed to can reject it, while
approving a job and authorising its materials also ask for the approver's role. An owner
is not refused, because `security_printing.jobs` names no `ownerColumn`
(`services/entities.ts:54`).

**Payroll** (`PayrollProofs`). `PostedToLedgerOnce`, `OneBatch`, `ReconciledForGood`,
`StatusesAgree` from `PayrollInv`. The part that is not a property is `ChainsInv`: until
the record routes wrote the run, at most one chain is open and the run is then SUBMITTED or
VOID, so that no old chain can write over a newer status.

**Only model-checked.** `EventuallySettled` and `EventuallyAnswered` are liveness under
fairness, which needs ENABLED and is out of this prover's reach.

## 5. Observations

The finding backed by a run is in `PROJECT.json`. Reading the code for the models
also showed the following, which no run carries. Where it limits a property, the
property says so.

Approvals and documents:

- `services/workflow.ts:141` (`invalidateStaleApproval`) cancels the chain of an
  edited document and leaves its tasks PENDING; `decideTask` looks at the task only,
  so the cancelled chain can still be completed and approves the edited document,
  while the comment at `routes/crudFactory.ts:293` says the edit sends it back.
- `routes/ops/finance.ts:130` posts an APPROVED invoice without asking who approved
  it, while `services/workflow.ts:493` says "whoever approved the document may not
  execute it". `ExecutorIndependent` holds of the execute step only.
- `services/entities.ts:28` gives customer invoices the rejected status REJECTED,
  which the CHECK of `customer_invoices` (0003, line 282) does not list: an invoice
  can be approved but a rejection rolls back. The models guard `rejectTask` by the
  status list.
- A stock adjustment is guarded by its status alone: submitted again after its
  posting (`routes/ops/inventory.ts:43`), approved and posted again
  (`services/inventory.ts:191`), it moves the stock twice, against
  `docs/audit/AUDIT_APPROVAL_WORKFLOW_2026-10-20.md:97`.
- `services/procurement.ts:2891` looks for a chain in status COMPLETED, which no
  instance ever has: a requisition approved before its hold resumes as SUBMITTED and
  waits for nobody, against the comment at line 2866.
- `services/procurement.ts:789` withdraws RUNNING chains only; a chain the
  escalation job has moved to ESCALATED survives the cancellation of its
  requisition. `CancelStopsChains` states what does hold.
- `services/procurement.ts:608` checks DRAFT without a lock, so an edit can land
  under a running chain. `ApprovedAsSubmitted` names such chains (`overtaken`) and no
  others.
- The material hash covers the header row (`services/workflow.ts:118-134`): a change of
  a document's lines that leaves the header as it was does not invalidate a chain. A
  `version` in the models is a content of the header.
- `routes/registry.ts:267-268` puts `workflow_instances` and `approval_tasks` on the
  record routes, both at one path, where the first router answers. Holders of
  `workflows.instances.*` can insert an instance and change its amount, document or step
  by PATCH. No module has these administrative writes.

Expenses, budgets and cash:

- `services/expenses.ts:383` compares with the allocation of the line before the
  lock; under the lock only the header total is compared (0083, line 315), so racing
  submissions can exceed an allocation, against the comment at line 410.
  `WithinBudget` states the header total.
- `services/expenses.ts:1092` updates `financial_postings`, which
  `trg_postings_append_only` (0099, line 608) refuses: a posted expense can never be
  voided. `voidExpense` therefore has the guard `~glPosted`.
- `services/expenses.ts:1097`: voiding a submitted expense leaves its approval task
  open, and the immutability trigger refuses every decision on it from then on.
- `services/expenses.ts:1551` books a replenishment's cash when it is requested and
  1597 books it again when it is paid. `BalanceRuns` holds of the book as written.
- Two overlapping payments of one claim or replenishment both book
  (`services/expenses.ts:1701`, 1589); the trigger protects PAID, not REIMBURSED.
- The receipts and spending of a daily close swap the tenant and the company
  parameter (`services/expenses.ts:1825-1827`), and leave out ADJUSTMENT lines.

Ledger:

- `assertPeriodOpen` (`services/finance.ts:239`) takes no lock, so a posting that found
  the period open can land after it was closed or locked.
- The record routes on `financial_periods` (`routes/registry.ts:105`) can move a period's
  dates; the models take the period of a date as fixed.
- The record routes on `journal_entries` submit a journal of any status, POSTED
  included, PATCH `entry_date` and `reversal_of_id` in any status, and insert
  headers without lines, also in shut periods.
- CLOSED is terminal for `setPeriodStatus`, but a lock by `movePeriod` and an OPEN by
  `setPeriodStatus` (`services/finance.ts:1454`) reopen a closed period without the
  counter and the reason that `reopen` asks for.
- Two overlapping `postDraftJournal` calls post a draft twice. An edit read while
  the journal was a draft can change it after its approval. No route calls
  `postJournalWorkflow`, so an APPROVED journal is never posted.
- `reverse_journal` posts into a shut period, and voiding an entry of a shut period
  changes that period. An advance whose journal was voided from the journals page
  can no longer be voided itself.

EFRIS:

- 0211 says "A document is fiscalised once". The exchange id also depends on `doc_type`
  and `doc_ref_code` (`services/efris/processor.ts:76-84`), which POST /efris takes from
  its body (`routes/ops/finance.ts:404-414`): a document registered again under another
  code, after a FAILED or CANCELLED row whose submission URA had accepted, gets a second
  number. `OneFdnUnlessRecoded` names the case.
- `services/finance-advanced.ts:693` re-queues a row that a worker holds, which lifts
  the refusal of a cancellation; the worker then writes its outcome over CANCELLED,
  against `services/efris/directory.ts:1128`. `CancelledUnlessHeld` names the case.
- `services/finance-advanced.ts:536` says a document registered without auto_submit
  "is parked as PENDING and an authorized user queues it explicitly";
  `efris_claim_fiscal_batch` (0143, line 107) claims PENDING rows that are due, and a new
  row is, so under a TEST or ACTIVE configuration the worker submits it.
- A worker that lost its lock writes its outcome by row id and can turn a row that
  another worker fiscalised back to RETRYING; `FiscalizedStays` therefore assumes
  the lock held.

Bank notifications:

- The search for a stored copy ignores `notification_type`, so a VALIDATION row
  shadows the payment that carries the same reference: it is acknowledged and never
  credited. `AcceptedIsOnFile` leaves such rows out of what it says about lines.
- A row stored while its account was unknown stays unmapped when it is repeated; an
  operator's unlinking is redone by the next copy; a message without both
  identifiers has no defence against its repetition.
- A failed read of the verification keys (`services/kcb/ingest.ts:276`) is answered
  like a bad signature, which the bank takes for a final refusal. The branch for
  error 23505 is unreachable, because the function handles the conflict itself.

Security printing:

- `resumeSecureJob` (line 1054) accepts any of eight statuses, so a job can skip its
  materials, the quality control, or the variance check of packing (line 927), which
  also passes when nothing was reconciled. `MaterialsUnderDualControl`,
  `IssuedInFullOnce` and `OnlyPassedLeaves` hold nevertheless.
- A step-2 task left open can turn a delivered or cancelled job REJECTED.
- `dispatchSecureJob` names no bin, so a batch received into a bin is refused with
  "Insufficient inventory"; a batch with spoilage or with no good pieces blocks the
  dispatch as well. `quantity_dispatched` counts failed batches.
- `createSecureJob` with machines is refused, a quarantined job can be passed later,
  and whoever reconciled may resolve the variance.

Payroll:

- A late rejection writes DRAFT over a void run and, once the record routes have
  submitted a run a second time, over a released or posted one, which the comment at
  `services/payrollLifecycle.ts:175-179` excludes. The record routes also PATCH
  `net_total` and submit POSTED runs; `StatusAgreesWithMoney` says with `~touched`
  where they come in.
- `voidPayroll` and `markPayrollPaid` read the batches without a lock
  (`services/payrollLifecycle.ts:439`, 264), so a batch can be confirmed while its run is
  being voided. The outcome is that of a confirmation just after the void, which the
  model has.
- After a confirmed batch a second one pays everybody again; a batch of a run that
  was voided or reopened can still be confirmed and keeps its old amount.
- `gl_posted` is never reset, so the advice "Reverse the GL posting first" cannot be
  followed; a POSTED run that was closed unpaid can never be paid. A FAILED batch
  status is always rolled back with its transaction.
- A recalculation after submission changes the amount the approvers saw; published
  payslips keep the amounts from before a reopening. The overlap check of
  `createPayroll` leaves PAID runs out and takes no lock. Loan balances are read
  without a lock and written as absolute values (`services/hr.ts:1579`).

## 6. Not modelled

`PROJECT.json` gives the reason for each component. Most of the repository is user
interface, reports, PDF layout, seed data, registers and settings: rows that are
written and read back, with nothing between two steps that could go wrong. The
computation of pay and taxes is decimal arithmetic over rate tables. Outside
providers appear only as what the code expects of them. Many record types (assets,
service desk, contracts, documents) have approvals and postings of their own, which
go through the modelled engine and ledger in the same way as those modelled here.

Of the modelled components these are left out: quotations and receipts, hand-made
budget commitments and journals of other documents on a budgeted account, credit
notes and stock movements in the fiscalisation queue, the Equity copy of the bank
code, bill validation, budget commitments of requisitions, the record routes on the
engine's tables and on the dates of periods, loans, payslips and the payroll calendar, the count of a petty
cash fund, allocations, consolidation and bank transfers, custody events and QR codes
of security jobs.

## 7. Plan

Done: the models of section 2, their runs, and a proof of every safety property the runs
check, including the refinements.

Next: models of credit notes in the fiscalisation queue (TRANSMITTED, polling), of loans,
and of the three-way match of supplier invoices.
