------------------------------ MODULE EfrisQueue ------------------------------
(***************************************************************************)
(* Fiscalisation of invoices: the efris_transactions queue, the workers    *)
(* that drain it one batch at a time under an advisory lock, and the tax   *)
(* authority (URA) at the other end of a call that may be lost, late or    *)
(* repeated.  A worker may crash at any point, lose its lock connection,   *)
(* or fail to write a failure down.  Credit notes and stock movements,     *)
(* which end in other statuses, are outside.                               *)
(***************************************************************************)
EXTENDS Integers, FiniteSetsExt

CONSTANTS
  Rows,         \* efris_transactions.id, in creation order
  Docs,         \* ERP documents (doc_ref_type, doc_ref_id)
  Codes,        \* doc_type and doc_ref_code, which POST /efris takes as given
  Bodies,       \* Bodies[r]: documents and codes the r-th registration may name
  Workers,      \* worker processes
  None,         \* no worker, no document, no code, no fiscal number
  Batch,        \* p_batch of efris_claim_fiscal_batch
  MaxAttempts,  \* efris_configurations.max_attempts
  AttemptCap,   \* bound: users re-queue a row only below this many attempts
  MaxFaults     \* bound on crashes, unwritten failures and lost locks

ASSUME EfrisAssumption ==
  /\ Rows \subseteq Nat /\ IsFiniteSet(Rows)
  /\ None \notin Workers \cup Docs \cup Codes
  /\ {Batch, MaxAttempts} \subseteq Nat \ {0}
  /\ {AttemptCap, MaxFaults} \subseteq Nat

ASSUME BodiesAssumption == Bodies \in [Rows -> SUBSET (Docs \X Codes)]

VARIABLES
  txn,       \* txn[r]: doc, code, status, enabled (fiscal_mode is TEST or
             \* ACTIVE), attempts, due (its next_attempt_at, or its claim's 300 s, passed)
  document,  \* document[r]: efris_documents.fdn of row r, or None
  errors,    \* errors[r]: unresolved efris_integration_errors of row r
  worker,    \* worker[w]: pc and todo, the claims of its batch still to process
  lock,      \* the worker whose connection holds the advisory lock
  requests,  \* exchange ids submitted to URA
  issued,    \* fiscal document numbers URA has issued
  faults,    \* crashes and unwritten failures so far
  lockLosses \* lost lock connections so far

efrisVars == <<txn, document, errors, worker, lock, requests, issued, faults,
               lockLosses>>

\* uq_efris_doc_live, less TRANSMITTED which invoices never reach.
LiveStatuses == {"PENDING", "QUEUED", "PROCESSING", "FISCALIZED", "RETRYING"}

\* The partial unique index admits a live status for row r.
indexAdmits(r, doc) ==
  \A q \in Rows \ {r} : txn[q].doc = doc => txn[q].status \notin LiveStatuses

\* Mutant: a fresh identifier for every attempt.
exchangeId_PerAttempt(claim) ==
  [doc |-> txn[claim.row].doc, code |-> txn[claim.row].code, nonce |-> claim.attempts]

\* The hash of doc_type, doc_ref_type, doc_ref_id and doc_ref_code, the same
\* for every attempt of the row.
stableExchangeId(claim) ==
  [doc |-> txn[claim.row].doc, code |-> txn[claim.row].code, nonce |-> 0]

idle == [pc |-> "idle", todo |-> {}]

\* Claims are processed in creation order.
current(w) == CHOOSE c \in worker[w].todo : \A d \in worker[w].todo : c.row <= d.row

setStatus(r, st, due) == txn' = [txn EXCEPT ![r].status = st, ![r].due = due]

\* After a row: the next claim, or the end of the tick and release of the lock.
nextClaim(w) ==
  LET rest == worker[w].todo \ {current(w)} IN
    IF rest = {}
    THEN /\ worker' = [worker EXCEPT ![w] = idle]
         /\ lock' = IF lock = w THEN None ELSE lock
    ELSE /\ worker' = [worker EXCEPT ![w] = [pc |-> "ready", todo |-> rest]]
         /\ UNCHANGED lock

-----------------------------------------------------------------------------
(* Users *)

\* registerEfrisDocument: QUEUED under auto_submit, PENDING with a
\* configuration that submits by hand or with none; nothing while the document
\* has a live row.  Its code need not be the one of an earlier, ended row.
register(r, d, c) ==
  /\ txn[r].status = "NONE" /\ \A q \in Rows : q < r => txn[q].status # "NONE"
  /\ indexAdmits(r, d)
  /\ \E st \in {"QUEUED", "PENDING"}, on \in BOOLEAN :
       /\ st = "QUEUED" => on
       /\ txn' = [txn EXCEPT ![r] = [doc |-> d, code |-> c, status |-> st,
                                     enabled |-> on, attempts |-> 0, due |-> TRUE]]
  /\ UNCHANGED <<document, errors, worker, lock, requests, issued, faults, lockLosses>>

\* Back to QUEUED, due at once; attempts are kept.
requeue(r) ==
  /\ txn[r].attempts < AttemptCap
  /\ indexAdmits(r, txn[r].doc)
  /\ txn' = [txn EXCEPT ![r].status = "QUEUED", ![r].enabled = TRUE, ![r].due = TRUE]
  /\ UNCHANGED <<document, errors, worker, lock, requests, issued, faults, lockLosses>>

\* Mutant: a cancelled row may be synchronised, too.
sync_Cancelled(r) == txn[r].status \notin {"NONE", "FISCALIZED"} /\ requeue(r)

\* syncEfrisTransaction takes a row a worker is processing, too.
sync(r) ==
  txn[r].status \notin {"NONE", "FISCALIZED", "CANCELLED"} /\ requeue(r)

retryEfrisError(r) ==
  /\ errors[r] > 0
  /\ txn[r].status \notin {"NONE", "FISCALIZED", "PROCESSING", "CANCELLED"}
  /\ requeue(r)

\* cancelEfrisTransaction refuses a fiscalised or a processing row.
cancel(r) ==
  /\ txn[r].status \notin {"NONE", "FISCALIZED", "PROCESSING", "CANCELLED"}
  /\ setStatus(r, "CANCELLED", FALSE)
  /\ UNCHANGED <<document, errors, worker, lock, requests, issued, faults, lockLosses>>

\* archiveEfrisError, with and without cancelTransaction.
archiveEfrisError(r) ==
  /\ errors[r] > 0
  /\ errors' = [errors EXCEPT ![r] = @ - 1]
  /\ \/ UNCHANGED txn
     \/ /\ txn[r].status \notin {"FISCALIZED", "PROCESSING"}
        /\ setStatus(r, "CANCELLED", FALSE)
  /\ UNCHANGED <<document, worker, lock, requests, issued, faults, lockLosses>>

-----------------------------------------------------------------------------
(* Workers *)

\* A claim's 300 seconds, or a retry's backoff, run out.  A FAILED row's
\* next_attempt_at is infinity.
elapse(r) ==
  /\ txn[r].status \in {"PROCESSING", "RETRYING"} /\ ~txn[r].due
  /\ txn' = [txn EXCEPT ![r].due = TRUE]
  /\ UNCHANGED <<document, errors, worker, lock, requests, issued, faults, lockLosses>>

\* Mutant: no recovery of stale claims.
claimable_NoRecovery ==
  {r \in Rows : /\ txn[r].status \in {"PENDING", "QUEUED", "RETRYING", "FAILED"}
                /\ txn[r].due /\ txn[r].enabled}

\* Rows efris_claim_fiscal_batch may claim: a stale PROCESSING row is first
\* re-queued, due at once.
claimable ==
  {r \in Rows : /\ txn[r].status \in {"PENDING", "QUEUED", "RETRYING", "FAILED",
                                      "PROCESSING"}
                /\ txn[r].due /\ txn[r].enabled}

claimed == {r \in claimable : Cardinality({q \in claimable : q < r}) < Batch}

\* What the worker holds of a claimed row, the attempt it is on included.
claimOf(r) == [row |-> r, attempts |-> txn[r].attempts + 1]

\* Mutant: the worker goes on without the lock.
tryAcquireWorkerLock_Ignored(w) == lock' = w

\* pg_try_advisory_lock, on a connection of its own.
tryAcquireWorkerLock(w) == lock = None /\ lock' = w

\* A tick that wins the lock claims a batch.  A worker runs one tick at a time.
drainEfrisQueue(w) ==
  /\ worker[w].pc = "idle" /\ claimable # {}
  /\ tryAcquireWorkerLock(w)
  /\ txn' = [r \in Rows |->
       IF r \in claimed
       THEN [txn[r] EXCEPT !.status = "PROCESSING", !.due = FALSE, !.attempts = @ + 1]
       ELSE IF r \in claimable /\ txn[r].status = "PROCESSING"
       THEN [txn[r] EXCEPT !.status = "QUEUED"]
       ELSE txn[r]]
  /\ worker' = [worker EXCEPT ![w] =
       [pc |-> "ready", todo |-> {claimOf(r) : r \in claimed}]]
  /\ UNCHANGED <<document, errors, requests, issued, faults, lockLosses>>

\* The call to URA: the request is sent, outside any transaction.
submitFiscalDocument(w) ==
  /\ worker[w].pc = "ready"
  /\ worker' = [worker EXCEPT ![w].pc = "sent"]
  /\ requests' = requests \cup {stableExchangeId(current(w))}
  /\ UNCHANGED <<txn, document, errors, lock, issued, faults, lockLosses>>

\* URA issues a number for an exchange id it received, once, however late; a
\* request that is lost or refused is one it never issues for.
uraIssue(x) ==
  /\ x \in requests \ issued
  /\ issued' = issued \cup {x}
  /\ UNCHANGED <<txn, document, errors, worker, lock, requests, faults, lockLosses>>

\* The last transaction of processFiscalRow: document and status, by row id
\* and whatever the status has become.  A unique violation rolls it back and
\* leads to recordFailure.
persistOutcome(w) ==
  LET r == current(w).row IN
  /\ \/ /\ indexAdmits(r, txn[r].doc)
        /\ document' = [document EXCEPT ![r] = stableExchangeId(current(w))]
        /\ setStatus(r, "FISCALIZED", FALSE)
        /\ nextClaim(w)
     \/ /\ ~indexAdmits(r, txn[r].doc)
        /\ worker' = [worker EXCEPT ![w].pc = "conflict"]
        /\ UNCHANGED <<txn, document, lock>>
  /\ UNCHANGED <<errors, requests, issued, faults, lockLosses>>

\* A response with a confirmed FDN (extractFiscalIdentifiers), then the write.
\* Nothing others do can come between them and matter: the response is local.
recordOutcome(w) ==
  /\ worker[w].pc = "sent"
  /\ stableExchangeId(current(w)) \in issued
  /\ persistOutcome(w)

givesUp(claim, nonRetryable) == nonRetryable \/ claim.attempts >= MaxAttempts

\* An error before the call, a timeout, a refusal or an unusable response, each
\* retryable or not, or a conflict, which is.  recordFailure writes FAILED or
\* RETRYING by row id, whatever the status has become, unless the unique index
\* refuses: then nothing is written.
recordFailure(w) ==
  LET r == current(w).row IN
  /\ worker[w].pc \in {"ready", "sent", "conflict"}
  /\ \E nonRetryable \in BOOLEAN :
       /\ nonRetryable => worker[w].pc # "conflict"
       /\ LET quit == givesUp(current(w), nonRetryable) IN
          IF quit \/ indexAdmits(r, txn[r].doc)
          THEN /\ setStatus(r, IF quit THEN "FAILED" ELSE "RETRYING", FALSE)
               /\ errors' = [errors EXCEPT ![r] = @ + 1]
          ELSE UNCHANGED <<txn, errors>>
  /\ nextClaim(w)
  /\ UNCHANGED <<document, requests, issued, faults, lockLosses>>

\* recordFailure's own transaction fails; the error is only logged.
recordFailureFails(w) ==
  /\ worker[w].pc # "idle" /\ faults + lockLosses < MaxFaults
  /\ faults' = faults + 1
  /\ nextClaim(w)
  /\ UNCHANGED <<txn, document, errors, requests, issued, lockLosses>>

\* The process dies: its session and with it the lock are gone.
crash(w) ==
  /\ worker[w].pc # "idle" /\ faults + lockLosses < MaxFaults
  /\ faults' = faults + 1
  /\ worker' = [worker EXCEPT ![w] = idle]
  /\ lock' = IF lock = w THEN None ELSE lock
  /\ UNCHANGED <<txn, document, errors, requests, issued, lockLosses>>

\* Only the lock's connection is dropped; the worker goes on.
loseLock ==
  /\ lock # None /\ faults + lockLosses < MaxFaults
  /\ lock' = None
  /\ lockLosses' = lockLosses + 1
  /\ UNCHANGED <<txn, document, errors, worker, requests, issued, faults>>

-----------------------------------------------------------------------------
(* Specification *)

EfrisInit ==
  /\ txn = [r \in Rows |-> [doc |-> None, code |-> None, status |-> "NONE",
                            enabled |-> FALSE, attempts |-> 0, due |-> FALSE]]
  /\ document = [r \in Rows |-> None]
  /\ errors = [r \in Rows |-> 0]
  /\ worker = [w \in Workers |-> idle]
  /\ lock = None
  /\ requests = {} /\ issued = {}
  /\ faults = 0 /\ lockLosses = 0

users(r) ==
  \/ \E b \in Bodies[r] : register(r, b[1], b[2])
  \/ sync(r) \/ retryEfrisError(r) \/ cancel(r) \/ archiveEfrisError(r)

processRow(w) ==
  \/ submitFiscalDocument(w) \/ recordOutcome(w) \/ recordFailure(w)

EfrisNext ==
  \/ \E r \in Rows : users(r) \/ elapse(r)
  \/ \E w \in Workers : \/ drainEfrisQueue(w) \/ processRow(w)
                        \/ recordFailureFails(w) \/ crash(w)
  \/ \E x \in requests : uraIssue(x)
  \/ loseLock

\* The scheduler ticks every 20 seconds, a live process finishes its call (it
\* has a timeout) and time passes.  Users and URA owe nothing.
EfrisFairness ==
  /\ WF_efrisVars(\E w \in Workers : drainEfrisQueue(w))
  /\ \A w \in Workers : WF_efrisVars(processRow(w))
  /\ \A r \in Rows : WF_efrisVars(elapse(r))

EfrisSpec == EfrisInit /\ [][EfrisNext]_efrisVars /\ EfrisFairness

-----------------------------------------------------------------------------
(* Properties *)

\* Shape of the queue and of the workers.  Every claim a worker holds is of a
\* registered row, at an attempt the row has made.
EfrisTypeOK ==
  /\ \A r \in Rows :
       /\ txn[r].doc \in Docs \cup {None} /\ txn[r].code \in Codes \cup {None}
       /\ txn[r].status \in LiveStatuses \cup {"NONE", "FAILED", "CANCELLED"}
       /\ txn[r].due \in BOOLEAN /\ txn[r].enabled \in BOOLEAN
       /\ txn[r].attempts \in Nat /\ errors[r] \in Nat
  /\ \A w \in Workers :
       /\ worker[w].pc \in {"idle", "ready", "sent", "conflict"}
       /\ worker[w].pc = "idle" <=> worker[w].todo = {}
       /\ \A c \in worker[w].todo :
            /\ c.row \in Rows /\ txn[c.row].status # "NONE"
            /\ c.attempts \in 1..txn[c.row].attempts
  /\ lock \in Workers \cup {None}

\* A row registered for a document under a code.
registeredAs(r, x) ==
  txn[r].status # "NONE" /\ txn[r].doc = x.doc /\ txn[r].code = x.code

\* 0211: "A document is fiscalised once".  Through every crash, lost answer,
\* lost lock and retry URA issues it one number (stableExchangeId's purpose),
\* unless it was registered again, under another doc_type or doc_ref_code than
\* before, when its other registration had failed or been cancelled.  The
\* number a fiscalised row carries is one issued for its document and code.
OneFdnUnlessRecoded ==
  /\ \A x, y \in issued : x.doc = y.doc /\ x # y =>
       /\ x.code # y.code
       /\ \E r, q \in Rows : /\ registeredAs(r, x) /\ registeredAs(q, y)
                             /\ {"FAILED", "CANCELLED"} \cap {txn[r].status, txn[q].status} # {}
  /\ \A r \in Rows : txn[r].status = "FISCALIZED" =>
       document[r] \in issued /\ registeredAs(r, document[r])

\* A fiscalised row stays fiscalised: no late answer, failure or user moves it,
\* as long as the lock kept workers apart.
FiscalizedStays ==
  [][\A r \in Rows : txn[r].status = "FISCALIZED" /\ lockLosses = 0 =>
       txn'[r].status = "FISCALIZED"]_efrisVars

\* No row is stuck: once queued for an enabled company it is fiscalised, failed
\* for a person to see, or cancelled, though workers crash, answers get lost
\* and other rows compete for the batch.
EventuallySettled ==
  \A r \in Rows :
    (txn[r].status \in {"PENDING", "QUEUED", "PROCESSING", "RETRYING"} /\ txn[r].enabled)
      ~> txn[r].status \in {"FISCALIZED", "FAILED", "CANCELLED"}

\* archiveEfrisError: "the linked ERP transaction is moved to CANCELLED so it
\* stops being claimable".  No user and no new claim brings a cancelled row
\* back; only a worker that held it before, when sync had re-queued it under
\* the worker's hands, may still write its outcome over the cancellation.
CancelledUnlessHeld ==
  [][\A r \in Rows :
       txn[r].status = "CANCELLED" /\ (\A w \in Workers : \A c \in worker[w].todo : c.row # r)
         => txn'[r].status = "CANCELLED"]_efrisVars
=============================================================================
