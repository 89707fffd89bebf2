----------------------------- MODULE JournalLedger -----------------------------
(***************************************************************************)
(* The general ledger: accounting periods, journal entries and the cash    *)
(* advances that post through them.  An entry is reduced to its effect on  *)
(* one account, the advances' receivable.  assertPeriodOpen reads the      *)
(* period without a lock, so every operation that posts is two steps, the  *)
(* check and the posting, with anything in between that the row locks it   *)
(* holds allow.  The generic record routes reach journal_entries and       *)
(* financial_periods.  Which period covers a date is fixed: a record-route *)
(* PATCH that moves a period's dates is left out.                          *)
(***************************************************************************)
EXTENDS Integers, Sequences, FiniteSets

CONSTANTS
  NPeriods,    \* number of financial periods
  Today,       \* the period of the current date
  OpenedAs,    \* the statuses a period is created with
  Advances,    \* cash_advances.id
  Requests,    \* transactions in flight at a time
  Amounts,     \* amounts of new manual entries
  Settlements, \* amounts of settlements of an advance
  Corrections, \* amounts an edit of a draft writes
  AdvanceSum,  \* base_amount of an advance
  MaxEntries,  \* bound on journal entries
  MaxDrafts,   \* bound on journals created as drafts
  MaxMoves,    \* bound on changes of a period's status
  MaxTouched   \* bound on entries the record routes write, once each

PeriodStatuses == {"OPEN", "SOFT_CLOSE", "CLOSED", "LOCKED"}

ASSUME LedgerAssumption ==
  /\ NPeriods \in Nat \ {0} /\ Today \in 1..NPeriods
  /\ Amounts \cup Settlements \cup Corrections \subseteq Nat \ {0}
  /\ AdvanceSum \in Nat \ {0} /\ OpenedAs \subseteq PeriodStatuses
  /\ MaxEntries \in Nat /\ MaxDrafts \in Nat /\ MaxMoves \in Nat
  /\ MaxTouched \in Nat

\* financial_periods in calendar order.
Periods == 1..NPeriods

VARIABLES
  period,   \* period[p]: status of financial period p, or NONE
  moves,    \* changes of period status so far
  entries,  \* journal_entries in id order
  drafts,   \* drafts created so far
  advance,  \* advance[a]: status, settled_amount and gl_journal_id
  request,  \* request[q]: what a transaction has read, holds and will write
  raced,    \* history: drafts that two requests were posting at once
  touched   \* history: entries the record routes wrote

ledgerVars == <<period, moves, entries, drafts, advance, request, raced, touched>>

\* op names the operation, entry the journal it read (locked when voiding),
\* held the advances whose row it has locked or inserted.
flight(op, e, held, amount, p) ==
  [op |-> op, entry |-> e, held |-> held, amount |-> amount, period |-> p]

idle == flight("idle", 0, {}, 0, 1)

NoAdvance == [status |-> "NONE", settled |-> 0, journal |-> 0]

\* The bound on entries, those of the postings in flight included.
room ==
  Len(entries) + Cardinality({q \in Requests : request[q].op \notin {"idle", "update"}})
    < MaxEntries

begin(q, rec) ==
  /\ request[q] = idle /\ request' = [request EXCEPT ![q] = rec]
  /\ UNCHANGED <<period, moves, entries, advance, drafts, touched>>

end(q) == request' = [request EXCEPT ![q] = idle]

-----------------------------------------------------------------------------
(* Periods *)

move(p, st) ==
  /\ moves < MaxMoves
  /\ moves' = moves + 1
  /\ period' = [period EXCEPT ![p] = st]

\* createPeriod, and the record route's POST, which leaves the status to the
\* column's default OPEN.
createPeriod(p, st) ==
  /\ period[p] = "NONE"
  /\ period' = [period EXCEPT ![p] = st]
  /\ UNCHANGED <<moves, entries, advance, request, raced, drafts, touched>>

\* The older route: CLOSED is terminal, the rest is free.  It reads without a
\* lock, but a late write makes no move that movePeriod does not make as well.
setPeriodStatus(p, st) ==
  /\ period[p] # "NONE" /\ (period[p] = "CLOSED" => st = "CLOSED")
  /\ move(p, st)
  /\ UNCHANGED <<entries, advance, request, raced, drafts, touched>>

ALLOWED_FROM ==
  [open       |-> {"SOFT_CLOSE"},
   soft_close |-> {"OPEN"},
   close      |-> {"OPEN", "SOFT_CLOSE"},
   reopen     |-> {"CLOSED", "LOCKED"},
   lock       |-> {"OPEN", "SOFT_CLOSE", "CLOSED"},
   unlock     |-> {"LOCKED"}]

periodStatusFor ==
  [open |-> "OPEN", reopen |-> "OPEN", unlock |-> "OPEN",
   soft_close |-> "SOFT_CLOSE", close |-> "CLOSED", lock |-> "LOCKED"]

\* runPeriodClose, under the row lock, once the close tasks are done (they are
\* free here).
runPeriodClose(p) ==
  /\ period[p] \notin {"NONE", "CLOSED"}
  /\ move(p, "CLOSED")
  /\ UNCHANGED <<entries, advance, request, raced, drafts, touched>>

\* movePeriod holds the row lock; no period is shut while a later one is open.
movePeriod(p, act) ==
  /\ period[p] \in ALLOWED_FROM[act]
  /\ act \in {"close", "lock"} => \A r \in Periods : r > p => period[r] # "OPEN"
  /\ move(p, periodStatusFor[act])
  /\ UNCHANGED <<entries, advance, request, raced, drafts, touched>>

\* Mutant: a softly closed period takes postings.
assertPeriodOpen_SoftClose(p) == period[p] \in {"OPEN", "SOFT_CLOSE"}

assertPeriodOpen(p) == period[p] = "OPEN"

-----------------------------------------------------------------------------
(* Journals *)

entry(amount, p, st, of, draft) ==
  [amount |-> amount, period |-> p, status |-> st, of |-> of, draft |-> draft]

setStatus(es, e, st) == [es EXCEPT ![e].status = st]

\* createManualJournal finds the period open ...
startManualJournal(q, op, amount, p) ==
  /\ assertPeriodOpen(p) /\ room
  /\ begin(q, flight(op, 0, {}, amount, p))
  /\ UNCHANGED raced

\* ... and inserts a draft (op "new") or posts at once (op "post").
createManualJournal(q) ==
  /\ request[q].op \in {"post", "new"}
  /\ entries' = Append(entries,
                  entry(request[q].amount, request[q].period,
                        IF request[q].op = "new" THEN "DRAFT" ELSE "POSTED", 0, 0))
  /\ drafts' = IF request[q].op = "new" THEN drafts + 1 ELSE drafts
  /\ drafts' <= MaxDrafts
  /\ end(q)
  /\ UNCHANGED <<period, moves, advance, raced, touched>>

\* updateJournal reads the draft without a lock and later writes its lines
\* and date, whatever the entry has become.
readForUpdate(q, e, amount, p) ==
  /\ entries[e].status = "DRAFT" /\ assertPeriodOpen(p)
  /\ begin(q, flight("update", e, {}, amount, p))
  /\ UNCHANGED raced

updateJournal(q) ==
  /\ request[q].op = "update"
  /\ entries' = [entries EXCEPT ![request[q].entry].amount = request[q].amount,
                                ![request[q].entry].period = request[q].period]
  /\ end(q)
  /\ UNCHANGED <<period, moves, advance, raced, drafts, touched>>

\* postDraftJournal reads the draft without a lock; post_journal refuses one
\* without lines ...
readDraft(q, e) ==
  /\ entries[e].status = "DRAFT" /\ assertPeriodOpen(entries[e].period) /\ room
  /\ entries[e].amount # 0
  /\ begin(q, flight("draft", e, {}, entries[e].amount, entries[e].period))
  /\ raced' = IF \E r \in Requests : request[r].op = "draft" /\ request[r].entry = e
              THEN raced \cup {e} ELSE raced

\* Mutant: the draft stays a draft.
postDraftJournal_KeepsDraft(q) ==
  /\ request[q].op = "draft"
  /\ entries' = Append(entries, entry(request[q].amount, request[q].period,
                                      "POSTED", 0, request[q].entry))
  /\ end(q)
  /\ UNCHANGED <<period, moves, advance, raced, drafts, touched>>

\* ... and posts a new entry in its place.
postDraftJournal(q) ==
  /\ request[q].op = "draft"
  /\ entries' = Append(setStatus(entries, request[q].entry, "VOID"),
                       entry(request[q].amount, request[q].period,
                             "POSTED", 0, request[q].entry))
  /\ end(q)
  /\ UNCHANGED <<period, moves, advance, raced, drafts, touched>>

\* submitJournal, approveJournal and rejectJournal; an approved journal is
\* left there, since posting takes drafts only.
journalWorkflow(e, from, to) ==
  /\ <<from, to>> \in {<<"DRAFT", "SUBMITTED">>, <<"SUBMITTED", "APPROVED">>,
                       <<"SUBMITTED", "REJECTED">>}
  /\ entries[e].status = from
  /\ entries' = setStatus(entries, e, to)
  /\ UNCHANGED <<period, moves, advance, request, raced, drafts, touched>>

\* Mutant: the status of the entry is not looked at.
voidable_Any(e) == TRUE

voidable(e) == entries[e].status = "POSTED"

Voiding == {"void", "voidAdvance"}

\* No transaction that voids entry e holds its row lock.
unlocked(e) == \A q \in Requests : request[q].op \in Voiding => request[q].entry # e

\* voidJournal locks the entry, reads its lines and finds the period of today
\* open; op is "voidAdvance" on behalf of an advance.
startVoid(q, op, e, held) ==
  /\ unlocked(e) /\ voidable(e) /\ assertPeriodOpen(Today) /\ room
  /\ begin(q, flight(op, e, held, entries[e].amount, Today))
  /\ UNCHANGED raced

\* The reversal it then posts, and the mark on the original.
reversed(q) ==
  Append([entries EXCEPT ![request[q].entry].status = "VOID",
                         ![request[q].entry].of = 0],
         entry(-request[q].amount, request[q].period, "POSTED", request[q].entry, 0))

voidJournal(q) ==
  /\ request[q].op = "void"
  /\ entries' = reversed(q)
  /\ end(q)
  /\ UNCHANGED <<period, moves, advance, raced, drafts, touched>>

\* What an entry adds to the trial balance, which sums POSTED entries.
trialBalance(e) == IF entries[e].status = "POSTED" THEN entries[e].amount ELSE 0

\* reverse_journal locks the entry as well and reverses in its own period, open
\* or not, without a check.
reverseJournal(e) ==
  /\ unlocked(e) /\ voidable(e) /\ room
  /\ ~\E r \in DOMAIN entries : entries[r].of = e
  /\ entries' = Append(setStatus(entries, e, "REVERSED"),
                       entry(-entries[e].amount, entries[e].period, "POSTED", e, 0))
  /\ UNCHANGED <<period, moves, advance, request, raced, drafts, touched>>

-----------------------------------------------------------------------------
(* The record routes on journal_entries *)

touch(e) ==
  /\ e \notin touched /\ Cardinality(touched) < MaxTouched
  /\ touched' = touched \cup {e}
  /\ UNCHANGED <<period, moves, advance, request, raced>>

\* POST inserts a draft without lines, in a period of any status.
createRecord(p) ==
  /\ room
  /\ entries' = Append(entries, entry(0, p, "DRAFT", 0, 0))
  /\ drafts < MaxDrafts /\ drafts' = drafts + 1
  /\ touch(Len(entries) + 1)

\* PATCH: entry_date and reversal_of_id are writable columns, in any status.
patch(e, rec) ==
  /\ unlocked(e)
  /\ entries' = [entries EXCEPT ![e] = rec]
  /\ touch(e)
  /\ UNCHANGED drafts

\* POST /:id/submit asks for no status.
submitRecord(e) ==
  /\ unlocked(e)
  /\ entries' = setStatus(entries, e, "SUBMITTED")
  /\ touch(e)
  /\ UNCHANGED drafts

-----------------------------------------------------------------------------
(* Cash advances; each call holds the advance's row from its first statement *)

\* No transaction has locked advance a, or inserted it and not committed.
free(a) == \A q \in Requests : a \notin request[q].held

startCashAdvance(q, a, p) ==
  /\ free(a) /\ advance[a].status = "NONE" /\ assertPeriodOpen(p) /\ room
  /\ begin(q, flight("advance", 0, {a}, AdvanceSum, p))
  /\ UNCHANGED raced

createCashAdvance(q, a) ==
  /\ request[q].op = "advance" /\ a \in request[q].held
  /\ entries' = Append(entries, entry(request[q].amount, request[q].period,
                                      "POSTED", 0, 0))
  /\ advance' = [advance EXCEPT ![a] = [status |-> "POSTED", settled |-> 0,
                                        journal |-> Len(entries) + 1]]
  /\ end(q)
  /\ UNCHANGED <<period, moves, raced, drafts, touched>>

startSettlement(q, a, amount, p) ==
  /\ free(a) /\ advance[a].status = "POSTED"
  /\ amount <= AdvanceSum - advance[a].settled
  /\ assertPeriodOpen(p) /\ room
  /\ begin(q, flight("settle", 0, {a}, amount, p))
  /\ UNCHANGED raced

settleCashAdvance(q, a) ==
  /\ request[q].op = "settle" /\ a \in request[q].held
  /\ entries' = Append(entries, entry(-request[q].amount, request[q].period,
                                      "POSTED", 0, 0))
  /\ LET settled == advance[a].settled + request[q].amount IN
     advance' = [advance EXCEPT ![a].settled = settled,
                   ![a].status = IF settled >= AdvanceSum THEN "SETTLED" ELSE @]
  /\ end(q)
  /\ UNCHANGED <<period, moves, raced, drafts, touched>>

\* Refused once anything was settled, or when the journal was voided already.
startVoidAdvance(q, a) ==
  /\ free(a) /\ advance[a].status \in {"POSTED", "SETTLED"} /\ advance[a].settled = 0
  /\ startVoid(q, "voidAdvance", advance[a].journal, {a})

voidCashAdvance(q, a) ==
  /\ request[q].op = "voidAdvance" /\ a \in request[q].held
  /\ entries' = reversed(q)
  /\ advance' = [advance EXCEPT ![a].status = "VOID"]
  /\ end(q)
  /\ UNCHANGED <<period, moves, raced, drafts, touched>>

-----------------------------------------------------------------------------
LedgerInit ==
  /\ period = [p \in Periods |-> IF p = 1 THEN "OPEN" ELSE "NONE"]
  /\ moves = 0
  /\ entries = <<>> /\ drafts = 0
  /\ advance = [a \in Advances |-> NoAdvance]
  /\ request = [q \in Requests |-> idle]
  /\ raced = {} /\ touched = {}

periods ==
  \/ \E p \in Periods, st \in OpenedAs : createPeriod(p, st)
  \/ \E p \in Periods : runPeriodClose(p)
  \/ \E p \in Periods, act \in DOMAIN ALLOWED_FROM : movePeriod(p, act)
  \/ \E p \in Periods, st \in {"OPEN", "LOCKED", "CLOSED"} : setPeriodStatus(p, st)

journals ==
  \/ \E q \in Requests, p \in Periods, x \in Amounts, op \in {"post", "new"} :
       startManualJournal(q, op, x, p)
  \/ \E e \in DOMAIN entries :
       \/ \E q \in Requests : readDraft(q, e)
       \/ \E q \in Requests, x \in Corrections, p \in Periods :
            readForUpdate(q, e, x, p)
       \/ \E from, to \in {"DRAFT", "SUBMITTED", "APPROVED", "REJECTED"} :
            journalWorkflow(e, from, to)
       \/ \E q \in Requests : startVoid(q, "void", e, {})
       \/ reverseJournal(e)

writes(q) ==
  updateJournal(q) \/ postDraftJournal(q) \/ createManualJournal(q) \/ voidJournal(q)

\* A transaction fails and rolls back, which frees its locks.
rollback(q) ==
  /\ request[q] # idle
  /\ end(q)
  /\ UNCHANGED <<period, moves, entries, advance, raced, drafts, touched>>

advances ==
  \E q \in Requests, a \in Advances :
    \/ \E p \in Periods : startCashAdvance(q, a, p)
    \/ \E p \in Periods, x \in Settlements : startSettlement(q, a, x, p)
    \/ startVoidAdvance(q, a)
    \/ createCashAdvance(q, a) \/ settleCashAdvance(q, a) \/ voidCashAdvance(q, a)

recordRoutes ==
  \/ \E p \in Periods : createRecord(p)
  \/ \E e \in DOMAIN entries :
       \/ \E p \in Periods : patch(e, [entries[e] EXCEPT !.period = p])
       \/ \E of \in 0..Len(entries) : patch(e, [entries[e] EXCEPT !.of = of])
  \/ \E e \in DOMAIN entries : submitRecord(e)

LedgerNext ==
  \/ periods \/ journals \/ advances \/ recordRoutes
  \/ \E q \in Requests : writes(q) \/ rollback(q)

JournalSpec == LedgerInit /\ [][LedgerNext]_ledgerVars

-----------------------------------------------------------------------------
(* Properties *)

EntryStatuses ==
  {"DRAFT", "SUBMITTED", "APPROVED", "REJECTED", "POSTED", "VOID", "REVERSED"}

\* Types, and an advance agrees with what was settled of it: never more than
\* its amount, SETTLED exactly when all of it, VOID only when none of it.
LedgerTypeOK ==
  /\ period \in [Periods -> PeriodStatuses \cup {"NONE"}]
  /\ \A e \in DOMAIN entries :
       /\ entries[e].period \in Periods /\ entries[e].status \in EntryStatuses
       /\ entries[e].of \in 0..Len(entries) /\ entries[e].draft \in 0..(e - 1)
  /\ \A a \in Advances :
       /\ advance[a].settled \in 0..AdvanceSum
       /\ advance[a].status = "SETTLED" <=> advance[a].settled = AdvanceSum
       /\ advance[a].status = "VOID" => advance[a].settled = 0

\* An entry is reversed at most once, whichever of the two ways (voidJournal,
\* reverse_journal), and its reversal takes back exactly what it posted, also
\* when the record routes write the original before or after.  Reversals whose
\* own row the record routes wrote are left out.
ReversedOnce ==
  \A r \in DOMAIN entries \ touched : LET e == entries[r].of IN e # 0 =>
    /\ entries[r].amount = -entries[e].amount
    /\ entries[e].status # "POSTED"
    /\ \A s \in DOMAIN entries \ touched : entries[s].of = e => s = r

\* A draft is posted at most once unless two requests were posting it at the
\* same time, which nothing prevents.
PostedOnceUnlessRaced ==
  \A r, s \in DOMAIN entries :
    r # s /\ entries[r].draft # 0 /\ entries[r].draft = entries[s].draft
      => entries[r].draft \in raced

\* The operations that post in the period they found open.
Posting == {"post", "draft", "advance", "settle", "void", "voidAdvance"}

\* Period p is not open and no posting that found it open is still in flight.
Shut(p) ==
  period[p] # "OPEN" /\ \A q \in Requests : request[q].op \in Posting => request[q].period # p

\* What period p holds, entries the record routes wrote left out.
postedIn(p) ==
  {e \in DOMAIN entries \ touched : entries[e].status = "POSTED" /\ entries[e].period = p}

\* A period's check and its posting are apart, so a posting may land after the
\* period was shut.  But once the postings in flight have ended, and until the
\* period is opened again, none begins (assertPeriodOpen) and nothing comes to
\* stand in it but reversals of its own entries, which reverse_journal posts
\* without looking at the period; no edit of a draft moves a posting there.
ShutTakesReversalsOnly ==
  [][\A p \in Periods : Shut(p) /\ period'[p] # "OPEN" =>
       /\ Shut(p)'
       /\ \A r \in postedIn(p)' \ postedIn(p) :
            entries'[r].of # 0 /\ entries'[entries'[r].of].period = p]_ledgerVars

\* A reversing entry offsets the entry it reverses: together they add nothing
\* to the trial balance.
ReversalOffsets ==
  \A r \in DOMAIN entries :
    entries[r].of # 0 => trialBalance(r) + trialBalance(entries[r].of) = 0
=============================================================================
