---------------------------- MODULE JournalProofs ----------------------------
(***************************************************************************)
(* Proofs about the general ledger, for any number of periods, advances,   *)
(* entries, drafts and transactions in flight, and any amounts.            *)
(***************************************************************************)
EXTENDS JournalLedger, TLAPS

Entry == [amount : Int, period : Periods, status : EntryStatuses, of : Nat, draft : Nat]

Advance == [status : {"NONE", "POSTED", "SETTLED", "VOID"}, settled : Nat, journal : Nat]

\* The operations that read a draft without locking it.
Reading == {"update", "draft"}

Ops == {"idle", "new"} \cup Reading \cup Posting

\* What a transaction carries between its check and its write.
Flight == [op : Ops, entry : Nat, held : SUBSET Advances, amount : Int, period : Periods]

RowsOK ==
  /\ period \in [Periods -> PeriodStatuses \cup {"NONE"}]
  /\ entries \in Seq(Entry)
  /\ advance \in [Advances -> Advance]
  /\ request \in [Requests -> Flight]

\* No row points past the end of the table.
PointersOK ==
  /\ \A e \in DOMAIN entries : entries[e].of <= Len(entries) /\ entries[e].draft < e
  /\ \A q \in Requests : request[q].op \in Reading => request[q].entry \in DOMAIN entries
  /\ \A a \in Advances : advance[a].status \in {"POSTED", "SETTLED"} =>
                           advance[a].journal \in DOMAIN entries

\* What was settled of an advance.
AdvancesOK ==
  \A a \in Advances :
    /\ advance[a].settled \in 0..AdvanceSum
    /\ advance[a].status = "SETTLED" <=> advance[a].settled = AdvanceSum
    /\ advance[a].status = "VOID" => advance[a].settled = 0

\* Entry e neither reverses another nor is reversed (record routes apart).
Apart(e) ==
  /\ e \notin touched => entries[e].of = 0
  /\ \A r \in DOMAIN entries \ touched : entries[r].of # e

\* A draft takes no part in any reversal, and nothing was posted from it.
DraftsInv ==
  \A e \in DOMAIN entries : entries[e].status = "DRAFT" =>
    Apart(e) /\ \A r \in DOMAIN entries : entries[r].draft # e

\* What a transaction in flight read as a draft, whatever it has become since:
\* it is not POSTED, takes no part in any reversal, and unless it was raced
\* for, this transaction alone will post it, for the first time.
FlightInv ==
  \A q \in Requests : request[q].op \in Reading =>
    /\ entries[request[q].entry].status # "POSTED" /\ Apart(request[q].entry)
    /\ request[q].op = "draft" /\ request[q].entry \notin raced =>
         /\ \A r \in DOMAIN entries : entries[r].draft # request[q].entry
         /\ \A p \in Requests :
              request[p].op = "draft" /\ request[p].entry = request[q].entry => p = q

\* What the row locks keep: the entry a transaction is voiding is still POSTED
\* with the lines it read and no other voids it; the advance it holds is held by
\* no other and still is as it found it.
HeldInv ==
  \A q \in Requests :
    /\ request[q].op \in Voiding =>
         /\ request[q].entry \in DOMAIN entries
         /\ entries[request[q].entry].status = "POSTED"
         /\ entries[request[q].entry].amount = request[q].amount
         /\ \A p \in Requests :
              request[p].op \in Voiding /\ request[p].entry = request[q].entry => p = q
    /\ \A a \in request[q].held :
         /\ \A p \in Requests : a \in request[p].held => p = q
         /\ request[q].op = "settle" =>
              /\ advance[a].status = "POSTED" /\ request[q].amount \in Nat \ {0}
              /\ request[q].amount <= AdvanceSum - advance[a].settled
         /\ request[q].op = "voidAdvance" => advance[a].settled = 0

LedgerInv ==
  /\ RowsOK /\ PointersOK /\ AdvancesOK /\ HeldInv
  /\ DraftsInv /\ FlightInv /\ ReversedOnce /\ PostedOnceUnlessRaced

-----------------------------------------------------------------------------
(* Sequences of entries *)

LEMMA AppendEntry ==
  ASSUME NEW s \in Seq(Entry), NEW x \in Entry, NEW t, t = Append(s, x)
  PROVE  /\ t \in Seq(Entry) /\ Len(t) = Len(s) + 1 /\ Len(s) \in Nat
         /\ DOMAIN s = 1..Len(s) /\ DOMAIN t = 1..(Len(s) + 1)
         /\ t[Len(s) + 1] = x /\ \A e \in DOMAIN s : t[e] = s[e]
  OBVIOUS

LEMMA PutEntry ==
  ASSUME NEW s \in Seq(Entry), NEW e \in DOMAIN s, NEW x \in Entry, NEW t,
         t = [s EXCEPT ![e] = x]
  PROVE  /\ t \in Seq(Entry) /\ Len(t) = Len(s) /\ DOMAIN t = DOMAIN s
         /\ t[e] = x /\ \A r \in DOMAIN s \ {e} : t[r] = s[r]
  OBVIOUS

\* A row is written and another added.
LEMMA PutAppend ==
  ASSUME NEW s \in Seq(Entry), NEW e \in DOMAIN s, NEW y \in Entry, NEW x \in Entry, NEW t,
         t = Append([s EXCEPT ![e] = y], x)
  PROVE  /\ t \in Seq(Entry) /\ DOMAIN t = 1..(Len(s) + 1) /\ Len(t) = Len(s) + 1
         /\ DOMAIN s = 1..Len(s) /\ Len(s) \in Nat
         /\ t[e] = y /\ t[Len(s) + 1] = x
         /\ \A r \in DOMAIN s \ {e} : r \in DOMAIN t /\ t[r] = s[r]
<1> DEFINE u == [s EXCEPT ![e] = y]
<1>1. /\ u \in Seq(Entry) /\ Len(u) = Len(s) /\ DOMAIN u = DOMAIN s
      /\ u[e] = y /\ \A r \in DOMAIN s \ {e} : u[r] = s[r]
  BY PutEntry
<1>2. t = Append(u, x)
  OBVIOUS
<1> HIDE DEF u
<1>3. /\ t \in Seq(Entry) /\ Len(t) = Len(u) + 1 /\ Len(u) \in Nat
      /\ DOMAIN u = 1..Len(u) /\ DOMAIN t = 1..(Len(u) + 1)
      /\ t[Len(u) + 1] = x /\ \A r \in DOMAIN u : t[r] = u[r]
  <2>1. u \in Seq(Entry)
    BY <1>1
  <2> QED
    BY <1>2, <2>1, AppendEntry
<1> QED
  BY <1>1, <1>3

\* setStatus writes one column of one row.
LEMMA SetStatusRow ==
  ASSUME NEW s \in Seq(Entry), NEW e \in DOMAIN s, NEW st \in EntryStatuses, NEW t,
         t = setStatus(s, e, st)
  PROVE  /\ t \in Seq(Entry) /\ Len(t) = Len(s) /\ DOMAIN t = DOMAIN s
         /\ t[e].status = st /\ t[e].of = s[e].of /\ t[e].amount = s[e].amount
         /\ t[e].draft = s[e].draft
         /\ \A r \in DOMAIN s \ {e} : t[r] = s[r]
<1> DEFINE x == [s[e] EXCEPT !.status = st]
<1>1. s[e] \in Entry
  OBVIOUS
<1>2. /\ x \in Entry /\ x.status = st /\ x.of = s[e].of /\ x.amount = s[e].amount
      /\ x.draft = s[e].draft
  BY <1>1 DEF Entry
<1>3. t = [s EXCEPT ![e] = x]
  BY DEF setStatus
<1> HIDE DEF x
<1> QED
  BY <1>2, <1>3, PutEntry

\* Two columns of one row are written as one row.
LEMMA TwoColumns ==
  ASSUME NEW s \in Seq(Entry), NEW e \in DOMAIN s, NEW v, NEW w
  PROVE  /\ [s EXCEPT ![e].status = v, ![e].of = w] =
              [s EXCEPT ![e] = [s[e] EXCEPT !.status = v, !.of = w]]
         /\ [s EXCEPT ![e].amount = v, ![e].period = w] =
              [s EXCEPT ![e] = [s[e] EXCEPT !.amount = v, !.period = w]]
  BY DEF Entry

\* What a request is.
LEMMA FlightKinds ==
  ASSUME RowsOK, NEW q \in Requests
  PROVE  /\ idle \in Flight /\ idle.op = "idle" /\ idle.held = {}
         /\ request[q] \in Flight /\ request[q].op \in Ops /\ request[q].entry \in Nat
         /\ request[q].amount \in Int /\ request[q].period \in Periods
         /\ request[q].held \subseteq Advances
<1>1. 1 \in Periods /\ "idle" \in Ops
  BY LedgerAssumption DEF Periods, Ops
<1>2. idle \in Flight /\ idle.op = "idle" /\ idle.held = {}
  BY <1>1 DEF Flight, idle, flight
<1>3. request[q] \in Flight
  BY DEF RowsOK
<1> QED
  BY <1>2, <1>3 DEF Flight

\* What flight() builds.
LEMMA FlightRow ==
  ASSUME NEW o \in Ops, NEW e \in Nat, NEW h \in SUBSET Advances, NEW m \in Int,
         NEW p \in Periods
  PROVE  /\ flight(o, e, h, m, p) \in Flight
         /\ flight(o, e, h, m, p).op = o /\ flight(o, e, h, m, p).entry = e
         /\ flight(o, e, h, m, p).held = h /\ flight(o, e, h, m, p).amount = m
         /\ flight(o, e, h, m, p).period = p
  BY DEF flight, Flight

\* The columns of an entry.
LEMMA EntryTypes ==
  ASSUME RowsOK
  PROVE  /\ Len(entries) \in Nat /\ DOMAIN entries = 1..Len(entries)
         /\ \A e \in DOMAIN entries :
              /\ entries[e] \in Entry /\ e \in Nat \ {0}
              /\ entries[e].amount \in Int /\ entries[e].period \in Periods
              /\ entries[e].status \in EntryStatuses
              /\ entries[e].of \in Nat /\ entries[e].draft \in Nat
<1>1. /\ entries \in Seq(Entry) /\ Len(entries) \in Nat /\ DOMAIN entries = 1..Len(entries)
      /\ \A e \in DOMAIN entries : entries[e] \in Entry
  BY DEF RowsOK
<1> QED
  BY <1>1 DEF Entry

-----------------------------------------------------------------------------
(* Steps and what they keep *)

\* An old entry keeps what it posted and where it came from; its status moves
\* towards the end only; and its link is cut, or the record routes wrote it.
Kept(e) ==
  /\ entries'[e].amount = entries[e].amount /\ entries'[e].draft = entries[e].draft
  /\ \/ entries'[e].status = entries[e].status
     \/ entries'[e].status \notin {"DRAFT", "POSTED"}
  /\ entries'[e].of \in {entries[e].of, 0} \/ e \in touched'

Grown(n) ==
  /\ Len(entries') = Len(entries) + n /\ n \in {0, 1}
  /\ DOMAIN entries = 1..Len(entries) /\ DOMAIN entries' = 1..Len(entries')

\* Requests end at most.
Ended == \A q \in Requests : request'[q] = request[q] \/ request'[q] = idle

\* No request starts by reading a draft.
NoNewRead == \A q \in Requests : request'[q] = request[q] \/ request'[q].op \notin Reading

LEMMA EndedReadsNothing == ASSUME Ended PROVE NoNewRead
  BY DEF Ended, NoNewRead, Reading, idle, flight

Safe == DraftsInv /\ FlightInv /\ ReversedOnce /\ PostedOnceUnlessRaced

\* An entry apart stays apart as long as no reversal of it is added.
LEMMA ApartStays ==
  ASSUME RowsOK, PointersOK, touched \subseteq touched', NEW n, Grown(n),
         NEW e \in DOMAIN entries, Apart(e),
         \A r \in DOMAIN entries : entries'[r].of \in {entries[r].of, 0} \/ r \in touched',
         \A r \in DOMAIN entries' \ DOMAIN entries : entries'[r].of # e
  PROVE  Apart(e)'
<1>1. e # 0
  BY DEF Grown
<1>2. ASSUME NEW r \in DOMAIN entries' \ touched' PROVE entries'[r].of # e
  BY <1>1, <1>2 DEF Apart
<1>3. e \notin touched' => entries'[e].of = 0
  BY DEF Apart
<1> QED
  BY <1>2, <1>3 DEF Apart

\* A step that adds no reversal, posts no draft and edits no amount.
LEMMA PlainSafe ==
  ASSUME RowsOK, PointersOK, Safe, touched \subseteq touched', raced \subseteq raced',
         NoNewRead,
         NEW n, Grown(n), \A e \in DOMAIN entries : Kept(e),
         \A r \in DOMAIN entries' \ DOMAIN entries :
           entries'[r].of = 0 /\ entries'[r].draft = 0
  PROVE  Safe'
<1>0. /\ Len(entries) \in Nat /\ \A e \in DOMAIN entries : e # 0 /\ e \in DOMAIN entries'
      /\ \A e \in DOMAIN entries : entries[e].of \in Nat /\ entries[e].draft \in Nat
  BY EntryTypes DEF Grown
<1>1. ASSUME NEW e \in DOMAIN entries, Apart(e) PROVE Apart(e)'
  BY <1>0, <1>1, ApartStays DEF Kept
<1>2. DraftsInv'
  <2> SUFFICES ASSUME NEW e \in DOMAIN entries', entries'[e].status = "DRAFT"
               PROVE  Apart(e)' /\ \A r \in DOMAIN entries' : entries'[r].draft # e
    BY DEF DraftsInv
  <2>1. CASE e \in DOMAIN entries
    <3>1. Apart(e) /\ \A r \in DOMAIN entries : entries[r].draft # e
      BY <2>1 DEF Kept, Safe, DraftsInv
    <3> QED
      BY <1>0, <1>1, <2>1, <3>1 DEF Kept
  <2>2. CASE e \notin DOMAIN entries
    <3>1. e = Len(entries) + 1
      BY <1>0, <2>2 DEF Grown
    <3>2. \A r \in DOMAIN entries : entries[r].of < e /\ entries[r].draft < e
      BY <1>0, <3>1 DEF PointersOK, Grown
    <3>3. ASSUME NEW r \in DOMAIN entries' PROVE entries'[r].draft # e
      BY <1>0, <3>1, <3>2 DEF Kept
    <3>4. ASSUME NEW r \in DOMAIN entries' \ touched' PROVE entries'[r].of # e
      BY <1>0, <3>1, <3>2 DEF Kept
    <3> QED
      BY <2>2, <3>3, <3>4 DEF Apart
  <2> QED
    BY <2>1, <2>2
<1>3. FlightInv'
  <2> SUFFICES ASSUME NEW q \in Requests, request'[q].op \in Reading, NEW e, e = request'[q].entry
               PROVE  /\ entries'[e].status # "POSTED" /\ Apart(e)'
                      /\ request'[q].op = "draft" /\ e \notin raced' =>
                           /\ \A r \in DOMAIN entries' : entries'[r].draft # e
                           /\ \A p \in Requests :
                                request'[p].op = "draft" /\ request'[p].entry = e => p = q
    BY DEF FlightInv, Apart
  <2>1. request'[q] = request[q] /\ request[q].op \in Reading
    BY DEF NoNewRead
  <2>2. e = request[q].entry
    BY <2>1
  <2>3. e \in DOMAIN entries /\ entries[e].status # "POSTED" /\ Apart(e)
    BY <2>1, <2>2 DEF PointersOK, Safe, FlightInv
  <2>4. entries'[e].status # "POSTED" /\ Apart(e)'
    BY <1>1, <2>3 DEF Kept
  <2>5. ASSUME request[q].op = "draft", e \notin raced'
        PROVE  /\ \A r \in DOMAIN entries' : entries'[r].draft # e
               /\ \A p \in Requests : request'[p].op = "draft" /\ request'[p].entry = e => p = q
    <3>1. /\ \A r \in DOMAIN entries : entries[r].draft # e
          /\ \A p \in Requests : request[p].op = "draft" /\ request[p].entry = e => p = q
      BY <2>1, <2>2, <2>5 DEF Safe, FlightInv
    <3>2. ASSUME NEW p \in Requests, request'[p].op = "draft"
          PROVE  request'[p] = request[p]
      BY <3>2 DEF NoNewRead, Reading
    <3> QED
      BY <1>0, <2>3, <3>1, <3>2 DEF Kept
  <2> QED
    BY <2>1, <2>2, <2>4, <2>5
<1>4. ReversedOnce'
  <2> SUFFICES ASSUME NEW r \in DOMAIN entries' \ touched', entries'[r].of # 0
               PROVE  /\ entries'[r].amount = -entries'[entries'[r].of].amount
                      /\ entries'[entries'[r].of].status # "POSTED"
                      /\ \A s \in DOMAIN entries' \ touched' :
                           entries'[s].of = entries'[r].of => s = r
    BY DEF ReversedOnce
  <2>1. ASSUME NEW s \in DOMAIN entries' \ touched', entries'[s].of # 0
        PROVE  s \in DOMAIN entries \ touched /\ entries'[s].of = entries[s].of
    BY <2>1 DEF Kept
  <2>2. PICK e : e = entries[r].of
    OBVIOUS
  <2>3. e \in DOMAIN entries /\ entries'[r].of = e
    BY <1>0, <2>1, <2>2 DEF PointersOK, Grown
  <2>4. /\ entries[r].amount = -entries[e].amount /\ entries[e].status # "POSTED"
        /\ \A s \in DOMAIN entries \ touched : entries[s].of = e => s = r
    BY <2>1, <2>2 DEF Safe, ReversedOnce
  <2>5. entries'[r].amount = -entries'[e].amount /\ entries'[e].status # "POSTED"
    BY <2>1, <2>3, <2>4 DEF Kept
  <2> QED
    BY <2>1, <2>2, <2>3, <2>4, <2>5
<1>5. PostedOnceUnlessRaced'
  <2> SUFFICES ASSUME NEW r \in DOMAIN entries', NEW s \in DOMAIN entries', r # s,
                      entries'[r].draft # 0, entries'[r].draft = entries'[s].draft
               PROVE  entries'[r].draft \in raced'
    BY DEF PostedOnceUnlessRaced
  <2>1. /\ r \in DOMAIN entries /\ s \in DOMAIN entries
        /\ entries'[r].draft = entries[r].draft /\ entries'[s].draft = entries[s].draft
    BY DEF Kept
  <2> QED
    BY <2>1 DEF Safe, PostedOnceUnlessRaced
<1> QED
  BY <1>2, <1>3, <1>4, <1>5 DEF Safe

\* A step that adds the reversal of a POSTED entry e and marks e.
LEMMA ReversalSafe ==
  ASSUME RowsOK, PointersOK, Safe, touched' = touched, raced' = raced, NoNewRead,
         Grown(1), \A r \in DOMAIN entries : Kept(r),
         NEW e \in DOMAIN entries, entries[e].status = "POSTED",
         entries'[e].status # "POSTED",
         entries'[Len(entries) + 1].of = e, entries'[Len(entries) + 1].draft = 0,
         entries'[Len(entries) + 1].amount = -entries[e].amount,
         entries'[Len(entries) + 1].status = "POSTED"
  PROVE  Safe'
<1> DEFINE new == Len(entries) + 1
<1>0. /\ new \in Nat /\ new \notin DOMAIN entries /\ DOMAIN entries' = DOMAIN entries \cup {new}
      /\ \A r \in DOMAIN entries : r # 0 /\ entries[r].of < new /\ entries[r].draft < new
  BY EntryTypes DEF PointersOK, Grown
<1>1. ASSUME NEW d \in DOMAIN entries, d # e, Apart(d) PROVE Apart(d)'
  BY <1>0, <1>1, ApartStays DEF Kept
<1>2. DraftsInv'
  <2> SUFFICES ASSUME NEW d \in DOMAIN entries', entries'[d].status = "DRAFT"
               PROVE  Apart(d)' /\ \A r \in DOMAIN entries' : entries'[r].draft # d
    BY DEF DraftsInv
  <2>1. d \in DOMAIN entries /\ entries[d].status = "DRAFT"
    BY <1>0 DEF Kept
  <2>2. d # e /\ Apart(d) /\ \A r \in DOMAIN entries : entries[r].draft # d
    BY <2>1 DEF Safe, DraftsInv
  <2> QED
    BY <1>0, <1>1, <2>1, <2>2 DEF Kept
<1>3. FlightInv'
  <2> SUFFICES ASSUME NEW q \in Requests, request'[q].op \in Reading, NEW d,
                      d = request'[q].entry
               PROVE  /\ entries'[d].status # "POSTED" /\ Apart(d)'
                      /\ request'[q].op = "draft" /\ d \notin raced =>
                           /\ \A r \in DOMAIN entries' : entries'[r].draft # d
                           /\ \A p \in Requests :
                                request'[p].op = "draft" /\ request'[p].entry = d => p = q
    BY DEF FlightInv, Apart
  <2>1. request'[q] = request[q] /\ request[q].op \in Reading /\ d = request[q].entry
    BY DEF NoNewRead
  <2>2. d \in DOMAIN entries /\ entries[d].status # "POSTED" /\ Apart(d)
    BY <2>1 DEF PointersOK, Safe, FlightInv
  <2>3. entries'[d].status # "POSTED" /\ Apart(d)'
    BY <1>1, <2>2 DEF Kept
  <2>4. ASSUME request[q].op = "draft", d \notin raced
        PROVE  /\ \A r \in DOMAIN entries' : entries'[r].draft # d
               /\ \A p \in Requests :
                    request'[p].op = "draft" /\ request'[p].entry = d => p = q
    <3>1. /\ \A r \in DOMAIN entries : entries[r].draft # d
          /\ \A p \in Requests : request[p].op = "draft" /\ request[p].entry = d => p = q
      BY <2>1, <2>4 DEF Safe, FlightInv
    <3>2. ASSUME NEW p \in Requests, request'[p].op = "draft"
          PROVE  request'[p] = request[p]
      BY <3>2 DEF NoNewRead, Reading
    <3> QED
      BY <1>0, <2>2, <3>1, <3>2 DEF Kept
  <2> QED
    BY <2>1, <2>3, <2>4
<1>4. ReversedOnce'
  <2> SUFFICES ASSUME NEW r \in DOMAIN entries' \ touched, entries'[r].of # 0
               PROVE  /\ entries'[r].amount = -entries'[entries'[r].of].amount
                      /\ entries'[entries'[r].of].status # "POSTED"
                      /\ \A s \in DOMAIN entries' \ touched :
                           entries'[s].of = entries'[r].of => s = r
    BY DEF ReversedOnce
  <2>1. ASSUME NEW s \in DOMAIN entries \ touched, entries'[s].of # 0
        PROVE  /\ entries'[s].of = entries[s].of /\ entries[s].of \in DOMAIN entries
               /\ entries[s].of # e
               /\ entries[s].amount = -entries[entries[s].of].amount
               /\ entries[entries[s].of].status # "POSTED"
    <3>1. entries'[s].of = entries[s].of /\ entries[s].of # 0
      BY <2>1 DEF Kept
    <3>2. entries[s].of \in DOMAIN entries
      BY <3>1, EntryTypes DEF PointersOK
    <3> QED
      BY <3>1, <3>2 DEF Safe, ReversedOnce
  <2>2. CASE r = new
    <3>1. entries'[r].amount = -entries'[e].amount
      BY <2>2 DEF Kept
    <3>2. ASSUME NEW s \in DOMAIN entries' \ touched, entries'[s].of = e PROVE s = r
      BY <1>0, <2>1, <2>2, <3>2
    <3> QED
      BY <2>2, <3>1, <3>2
  <2>3. CASE r # new
    <3>1. r \in DOMAIN entries \ touched
      BY <1>0, <2>3
    <3>2. PICK d : d = entries[r].of
      OBVIOUS
    <3>3. /\ entries'[r].of = d /\ d \in DOMAIN entries /\ d # e
          /\ entries[r].amount = -entries[d].amount /\ entries[d].status # "POSTED"
      BY <2>1, <3>1, <3>2
    <3>4. entries'[r].amount = -entries'[d].amount /\ entries'[d].status # "POSTED"
      BY <3>1, <3>3 DEF Kept
    <3>5. ASSUME NEW s \in DOMAIN entries' \ touched, entries'[s].of = d PROVE s = r
      <4>1. s \in DOMAIN entries \ touched
        BY <1>0, <3>3, <3>5
      <4>2. entries[s].of = d
        BY <1>0, <2>1, <3>3, <3>5, <4>1
      <4> QED
        BY <1>0, <3>1, <3>2, <3>3, <4>1, <4>2 DEF Safe, ReversedOnce
    <3> QED
      BY <3>3, <3>4, <3>5
  <2> QED
    BY <2>2, <2>3
<1>5. PostedOnceUnlessRaced'
  <2> SUFFICES ASSUME NEW r \in DOMAIN entries', NEW s \in DOMAIN entries', r # s,
                      entries'[r].draft # 0, entries'[r].draft = entries'[s].draft
               PROVE  entries'[r].draft \in raced
    BY DEF PostedOnceUnlessRaced
  <2>1. /\ r \in DOMAIN entries /\ s \in DOMAIN entries
        /\ entries'[r].draft = entries[r].draft /\ entries'[s].draft = entries[s].draft
    BY <1>0 DEF Kept
  <2> QED
    BY <2>1 DEF Safe, PostedOnceUnlessRaced
<1> QED
  BY <1>2, <1>3, <1>4, <1>5 DEF Safe

\* updateJournal writes the amount of an entry that takes no part in any
\* reversal.
LEMMA UpdateSafe ==
  ASSUME RowsOK, PointersOK, Safe, touched' = touched, raced' = raced, NoNewRead, Grown(0),
         NEW e \in DOMAIN entries, Apart(e),
         \A r \in DOMAIN entries :
           /\ entries'[r].status = entries[r].status /\ entries'[r].of = entries[r].of
           /\ entries'[r].draft = entries[r].draft
           /\ r # e => entries'[r].amount = entries[r].amount
  PROVE  Safe'
<1>1. DOMAIN entries' = DOMAIN entries
  BY DEF Grown
<1>2. ASSUME NEW d PROVE Apart(d) /\ d \in DOMAIN entries => Apart(d)'
  BY <1>1 DEF Apart
<1>3. DraftsInv'
  BY <1>1, <1>2 DEF Safe, DraftsInv
<1>4. FlightInv'
  <2> SUFFICES ASSUME NEW q \in Requests, request'[q].op \in Reading, NEW d, d = request'[q].entry
               PROVE  /\ entries'[d].status # "POSTED" /\ Apart(d)'
                      /\ request'[q].op = "draft" /\ d \notin raced =>
                           /\ \A r \in DOMAIN entries' : entries'[r].draft # d
                           /\ \A p \in Requests :
                                request'[p].op = "draft" /\ request'[p].entry = d => p = q
    BY DEF FlightInv, Apart
  <2>1. request'[q] = request[q] /\ request[q].op \in Reading
    BY DEF NoNewRead
  <2>2. d \in DOMAIN entries /\ entries[d].status # "POSTED" /\ Apart(d)
    BY <2>1 DEF PointersOK, Safe, FlightInv
  <2>3. ASSUME NEW p \in Requests, request'[p].op = "draft" PROVE request'[p] = request[p]
    BY <2>3 DEF NoNewRead, Reading
  <2> QED
    BY <1>1, <1>2, <2>1, <2>2, <2>3 DEF Safe, FlightInv
<1>5. ReversedOnce'
  <2> SUFFICES ASSUME NEW r \in DOMAIN entries \ touched, entries[r].of # 0
               PROVE  /\ entries'[r].amount = -entries'[entries[r].of].amount
                      /\ entries'[entries[r].of].status # "POSTED"
                      /\ \A s \in DOMAIN entries \ touched :
                           entries'[s].of = entries[r].of => s = r
    BY <1>1 DEF ReversedOnce
  <2>1. entries[r].of \in DOMAIN entries
    BY EntryTypes DEF PointersOK
  <2>2. r # e /\ entries[r].of # e
    BY DEF Apart
  <2> QED
    BY <2>1, <2>2 DEF Safe, ReversedOnce
<1>6. PostedOnceUnlessRaced'
  BY <1>1 DEF Safe, PostedOnceUnlessRaced
<1> QED
  BY <1>3, <1>4, <1>5, <1>6 DEF Safe

\* updateJournal and postDraftJournal read a draft; the second remembers that
\* the draft is raced for when another transaction has read it as well.
LEMMA ReadSafe ==
  ASSUME RowsOK, PointersOK, Safe, touched' = touched, entries' = entries,
         NEW q \in Requests, request[q] = idle,
         NEW e \in DOMAIN entries, entries[e].status = "DRAFT",
         \A p \in Requests \ {q} : request'[p] = request[p],
         request'[q].entry = e, request'[q].op \in Reading,
         raced \subseteq raced',
         request'[q].op = "draft" /\ e \notin raced' =>
           \A p \in Requests : ~(request[p].op = "draft" /\ request[p].entry = e)
  PROVE  Safe'
<1>1. \A d : Apart(d) => Apart(d)'
  BY DEF Apart
<1>2. Apart(e) /\ \A r \in DOMAIN entries : entries[r].draft # e
  BY DEF Safe, DraftsInv
<1>3. FlightInv'
  <2> SUFFICES ASSUME NEW p \in Requests, request'[p].op \in Reading, NEW d, d = request'[p].entry
               PROVE  /\ entries[d].status # "POSTED" /\ Apart(d)'
                      /\ request'[p].op = "draft" /\ d \notin raced' =>
                           /\ \A r \in DOMAIN entries : entries[r].draft # d
                           /\ \A o \in Requests :
                                request'[o].op = "draft" /\ request'[o].entry = d => o = p
    BY DEF FlightInv, Apart
  <2>1. CASE p = q
    <3>1. d = e /\ entries[d].status # "POSTED" /\ Apart(d)'
      BY <1>1, <1>2, <2>1
    <3>2. ASSUME request'[q].op = "draft", d \notin raced', NEW o \in Requests,
                 request'[o].op = "draft", request'[o].entry = d
          PROVE  o = q
      BY <3>1, <3>2
    <3> QED
      BY <1>2, <2>1, <3>1, <3>2
  <2>2. CASE p # q
    <3>1. request'[p] = request[p] /\ request[p].op \in Reading
      BY <2>2
    <3>2. entries[d].status # "POSTED" /\ Apart(d)'
      BY <1>1, <3>1 DEF Safe, FlightInv
    <3>3. ASSUME request[p].op = "draft", d \notin raced'
          PROVE  /\ \A r \in DOMAIN entries : entries[r].draft # d
                 /\ \A o \in Requests :
                      request'[o].op = "draft" /\ request'[o].entry = d => o = p
      <4>1. d \notin raced
        BY <3>3
      <4>2. /\ \A r \in DOMAIN entries : entries[r].draft # d
            /\ \A o \in Requests : request[o].op = "draft" /\ request[o].entry = d => o = p
        BY <3>1, <3>3, <4>1 DEF Safe, FlightInv
      <4>3. ~(request'[q].op = "draft" /\ request'[q].entry = d)
        BY <3>1, <3>3
      <4> QED
        BY <4>2, <4>3
    <3> QED
      BY <3>1, <3>2, <3>3
  <2> QED
    BY <2>1, <2>2
<1>4. DraftsInv' /\ ReversedOnce' /\ PostedOnceUnlessRaced'
  BY <1>1 DEF Safe, DraftsInv, ReversedOnce, PostedOnceUnlessRaced
<1> QED
  BY <1>3, <1>4 DEF Safe

\* postDraftJournal: the draft becomes VOID, an entry that names it is added
\* and the transaction ends.
LEMMA PostSafe ==
  ASSUME RowsOK, PointersOK, Safe, touched' = touched, raced' = raced,
         NEW q \in Requests, request[q].op = "draft", request'[q] = idle,
         \A p \in Requests \ {q} : request'[p] = request[p],
         Grown(1), \A r \in DOMAIN entries : Kept(r),
         NEW e \in DOMAIN entries, e = request[q].entry, entries'[e].status = "VOID",
         entries'[Len(entries) + 1].of = 0, entries'[Len(entries) + 1].draft = e,
         entries'[Len(entries) + 1].status = "POSTED"
  PROVE  Safe'
<1> DEFINE new == Len(entries) + 1
<1>0. /\ new \in Nat /\ new \notin DOMAIN entries /\ DOMAIN entries' = DOMAIN entries \cup {new}
      /\ \A r \in DOMAIN entries : r # 0 /\ entries[r].of < new /\ entries[r].draft < new
  BY EntryTypes DEF PointersOK, Grown
<1>1. request[q].op \in Reading /\ idle.op = "idle"
  BY FlightKinds DEF Reading
<1>2. ASSUME NEW d \in DOMAIN entries, Apart(d) PROVE Apart(d)'
  BY <1>0, <1>2, ApartStays DEF Kept
<1>3. DraftsInv'
  <2> SUFFICES ASSUME NEW d \in DOMAIN entries', entries'[d].status = "DRAFT"
               PROVE  Apart(d)' /\ \A r \in DOMAIN entries' : entries'[r].draft # d
    BY DEF DraftsInv
  <2>1. d \in DOMAIN entries /\ entries[d].status = "DRAFT" /\ d # e
    BY <1>0 DEF Kept
  <2>2. Apart(d) /\ \A r \in DOMAIN entries : entries[r].draft # d
    BY <2>1 DEF Safe, DraftsInv
  <2> QED
    BY <1>0, <1>2, <2>1, <2>2 DEF Kept
<1>4. FlightInv'
  <2> SUFFICES ASSUME NEW p \in Requests, request'[p].op \in Reading, NEW d, d = request'[p].entry
               PROVE  /\ entries'[d].status # "POSTED" /\ Apart(d)'
                      /\ request'[p].op = "draft" /\ d \notin raced =>
                           /\ \A r \in DOMAIN entries' : entries'[r].draft # d
                           /\ \A o \in Requests :
                                request'[o].op = "draft" /\ request'[o].entry = d => o = p
    BY DEF FlightInv, Apart
  <2>1. p # q /\ request'[p] = request[p] /\ request[p].op \in Reading
    BY <1>1 DEF Reading
  <2>2. d \in DOMAIN entries /\ entries[d].status # "POSTED" /\ Apart(d)
    BY <2>1 DEF PointersOK, Safe, FlightInv
  <2>3. entries'[d].status # "POSTED" /\ Apart(d)'
    BY <1>2, <2>2 DEF Kept
  <2>4. ASSUME request[p].op = "draft", d \notin raced
        PROVE  /\ \A r \in DOMAIN entries' : entries'[r].draft # d
               /\ \A o \in Requests :
                    request'[o].op = "draft" /\ request'[o].entry = d => o = p
    <3>1. /\ \A r \in DOMAIN entries : entries[r].draft # d
          /\ \A o \in Requests : request[o].op = "draft" /\ request[o].entry = d => o = p
      BY <2>1, <2>4 DEF Safe, FlightInv
    <3>2. d # e
      BY <2>1, <3>1
    <3>3. \A o \in Requests : request'[o].op = "draft" => request'[o] = request[o]
      BY <1>1
    <3> QED
      BY <1>0, <2>2, <3>1, <3>2, <3>3 DEF Kept
  <2> QED
    BY <2>1, <2>3, <2>4
<1>5. ReversedOnce'
  <2> SUFFICES ASSUME NEW r \in DOMAIN entries' \ touched, entries'[r].of # 0
               PROVE  /\ entries'[r].amount = -entries'[entries'[r].of].amount
                      /\ entries'[entries'[r].of].status # "POSTED"
                      /\ \A s \in DOMAIN entries' \ touched :
                           entries'[s].of = entries'[r].of => s = r
    BY DEF ReversedOnce
  <2>1. ASSUME NEW s \in DOMAIN entries' \ touched, entries'[s].of # 0
        PROVE  s \in DOMAIN entries \ touched /\ entries'[s].of = entries[s].of
    BY <1>0, <2>1 DEF Kept
  <2>2. PICK d : d = entries[r].of
    OBVIOUS
  <2>3. d \in DOMAIN entries /\ entries'[r].of = d
    BY <2>1, <2>2, EntryTypes DEF PointersOK
  <2>4. /\ entries[r].amount = -entries[d].amount /\ entries[d].status # "POSTED"
        /\ \A s \in DOMAIN entries \ touched : entries[s].of = d => s = r
    BY <2>1, <2>2 DEF Safe, ReversedOnce
  <2>5. entries'[r].amount = -entries'[d].amount /\ entries'[d].status # "POSTED"
    BY <2>1, <2>3, <2>4 DEF Kept
  <2> QED
    BY <2>1, <2>2, <2>3, <2>4, <2>5
<1>6. PostedOnceUnlessRaced'
  <2> SUFFICES ASSUME NEW r \in DOMAIN entries', NEW s \in DOMAIN entries', r # s,
                      entries'[r].draft # 0, entries'[r].draft = entries'[s].draft
               PROVE  entries'[r].draft \in raced
    BY DEF PostedOnceUnlessRaced
  <2>1. ASSUME NEW o \in DOMAIN entries, entries'[o].draft = e PROVE e \in raced
    BY <1>1, <2>1 DEF Kept, Safe, FlightInv
  <2>2. CASE r = new \/ s = new
    BY <1>0, <2>1, <2>2
  <2>3. CASE r # new /\ s # new
    <3>1. r \in DOMAIN entries /\ s \in DOMAIN entries
      BY <1>0, <2>3
    <3> QED
      BY <3>1 DEF Kept, Safe, PostedOnceUnlessRaced
  <2> QED
    BY <2>2, <2>3
<1> QED
  BY <1>3, <1>4, <1>5, <1>6 DEF Safe

-----------------------------------------------------------------------------
(* The operations *)

\* Pointers stay inside the table as it grows.
LEMMA PointersStay ==
  ASSUME RowsOK, PointersOK, NEW n, Grown(n),
         \A e \in DOMAIN entries :
           entries'[e].of <= Len(entries) /\ entries'[e].draft = entries[e].draft,
         \A r \in DOMAIN entries' \ DOMAIN entries :
           entries'[r].of <= Len(entries) /\ entries'[r].draft <= Len(entries)
             /\ entries'[r].of \in Nat /\ entries'[r].draft \in Nat,
         \A e \in DOMAIN entries : entries'[e].of \in Nat,
         NoNewRead \/ \A q \in Requests :
           request'[q].op \in Reading => request'[q].entry \in DOMAIN entries,
         \A a \in Advances : advance'[a].status \in {"POSTED", "SETTLED"} =>
                                advance'[a].journal \in DOMAIN entries'
  PROVE  PointersOK'
<1>1. Len(entries) \in Nat /\ DOMAIN entries \subseteq DOMAIN entries'
  BY EntryTypes DEF Grown
<1>2. ASSUME NEW e \in DOMAIN entries'
      PROVE  entries'[e].of <= Len(entries') /\ entries'[e].draft < e
  <2>1. CASE e \in DOMAIN entries
    BY <1>1, <2>1, EntryTypes DEF PointersOK, Grown
  <2>2. CASE e \notin DOMAIN entries
    BY <1>1, <2>2 DEF Grown
  <2> QED
    BY <2>1, <2>2
<1>3. ASSUME NEW q \in Requests, request'[q].op \in Reading
      PROVE  request'[q].entry \in DOMAIN entries'
  BY <1>1, <1>3 DEF PointersOK, NoNewRead
<1> QED
  BY <1>1, <1>2, <1>3 DEF PointersOK

\* An entry that is neither a reversal nor posted from a draft is added.
LEMMA AddPlain ==
  ASSUME RowsOK, PointersOK, Safe, touched \subseteq touched', raced' = raced,
         NoNewRead, NEW x \in Entry, x.of = 0, x.draft = 0,
         entries' = Append(entries, x),
         \A a \in Advances : advance'[a].status \in {"POSTED", "SETTLED"} =>
                                advance'[a].journal \in 1..(Len(entries) + 1)
  PROVE  entries' \in Seq(Entry) /\ PointersOK' /\ Safe'
<1>1. /\ entries' \in Seq(Entry) /\ Grown(1) /\ entries'[Len(entries) + 1] = x
      /\ \A e \in DOMAIN entries : entries'[e] = entries[e]
      /\ Len(entries) \in Nat
  <2>1. entries \in Seq(Entry)
    BY DEF RowsOK
  <2>2. /\ entries' \in Seq(Entry) /\ Len(entries') = Len(entries) + 1 /\ Len(entries) \in Nat
        /\ DOMAIN entries = 1..Len(entries) /\ DOMAIN entries' = 1..(Len(entries) + 1)
        /\ entries'[Len(entries) + 1] = x /\ \A e \in DOMAIN entries : entries'[e] = entries[e]
    BY <2>1, AppendEntry
  <2> QED
    BY <2>2 DEF Grown
<1>2. \A r \in DOMAIN entries' \ DOMAIN entries : r = Len(entries) + 1
  BY <1>1 DEF Grown
<1>3. PointersOK'
  <2>1. \A e \in DOMAIN entries :
          /\ entries'[e].of <= Len(entries) /\ entries'[e].draft = entries[e].draft
          /\ entries'[e].of \in Nat
    BY <1>1, EntryTypes DEF PointersOK
  <2>2. DOMAIN entries' = 1..(Len(entries) + 1)
    BY <1>1 DEF Grown
  <2>3. \A r \in DOMAIN entries' \ DOMAIN entries :
          /\ entries'[r].of <= Len(entries) /\ entries'[r].draft <= Len(entries)
          /\ entries'[r].of \in Nat /\ entries'[r].draft \in Nat
    BY <1>1, <1>2
  <2> QED
    BY <1>1, <2>1, <2>2, <2>3, PointersStay
<1>4. Safe'
  BY <1>1, <1>2, PlainSafe DEF Kept
<1> QED
  BY <1>1, <1>3, <1>4

\* One column of one row is written; the rows stay where they are.
LEMMA MarkRow ==
  ASSUME RowsOK, PointersOK, Safe, touched \subseteq touched', raced' = raced,
         NoNewRead, advance' = advance,
         NEW e \in DOMAIN entries, NEW x \in Entry, entries' = [entries EXCEPT ![e] = x],
         x.amount = entries[e].amount, x.draft = entries[e].draft, x.of <= Len(entries),
         x.status = entries[e].status \/ x.status \notin {"DRAFT", "POSTED"},
         x.of = entries[e].of \/ e \in touched'
  PROVE  entries' \in Seq(Entry) /\ PointersOK' /\ Safe'
<1>1. /\ entries' \in Seq(Entry) /\ Len(entries') = Len(entries)
      /\ DOMAIN entries' = DOMAIN entries
      /\ entries'[e] = x /\ \A r \in DOMAIN entries \ {e} : entries'[r] = entries[r]
  <2>1. entries \in Seq(Entry)
    BY DEF RowsOK
  <2> QED
    BY <2>1, PutEntry
<1>2. Grown(0)
  BY <1>1, EntryTypes DEF Grown
<1>3. \A r \in DOMAIN entries : Kept(r)
  BY <1>1 DEF Kept
<1>4. x.of \in Nat
  BY DEF Entry
<1>5. PointersOK'
  BY <1>1, <1>2, <1>4, PointersStay, EntryTypes DEF PointersOK
<1>6. Safe'
  BY <1>1, <1>2, <1>3, PlainSafe
<1> QED
  BY <1>1, <1>5, <1>6

\* A POSTED entry e is marked VOID (its own link cut) or REVERSED, and its
\* reversal added.
LEMMA AddReversal ==
  ASSUME RowsOK, PointersOK, Safe, touched' = touched, raced' = raced, NoNewRead,
         NEW e \in DOMAIN entries, entries[e].status = "POSTED",
         NEW y \in Entry, NEW x \in Entry,
         entries' = Append([entries EXCEPT ![e] = y], x),
         y.status \in {"VOID", "REVERSED"}, y.of \in {0, entries[e].of},
         y.amount = entries[e].amount, y.draft = entries[e].draft,
         x.of = e, x.draft = 0, x.amount = -entries[e].amount, x.status = "POSTED",
         \A a \in Advances : advance'[a].status \in {"POSTED", "SETTLED"} =>
                                advance'[a].journal \in DOMAIN entries
  PROVE  entries' \in Seq(Entry) /\ PointersOK' /\ Safe'
<1> DEFINE t == [entries EXCEPT ![e] = y]
<1>1. entries \in Seq(Entry)
  BY DEF RowsOK
<1>2. /\ t \in Seq(Entry) /\ Len(t) = Len(entries) /\ DOMAIN t = DOMAIN entries
      /\ t[e] = y /\ \A r \in DOMAIN entries \ {e} : t[r] = entries[r]
  BY <1>1, PutEntry
<1>3. entries' = Append(t, x)
  OBVIOUS
<1> HIDE DEF t
<1>4. /\ entries' \in Seq(Entry) /\ Len(entries') = Len(entries) + 1
      /\ DOMAIN entries = 1..Len(entries) /\ DOMAIN entries' = 1..(Len(entries) + 1)
      /\ entries'[Len(entries) + 1] = x /\ \A r \in DOMAIN entries : entries'[r] = t[r]
  <2>1. /\ entries' \in Seq(Entry) /\ Len(entries') = Len(t) + 1
        /\ DOMAIN t = 1..Len(t) /\ DOMAIN entries' = 1..(Len(t) + 1)
        /\ entries'[Len(t) + 1] = x /\ \A r \in DOMAIN t : entries'[r] = t[r]
    <3>1. t \in Seq(Entry) /\ x \in Entry
      BY <1>2
    <3> QED
      BY ONLY <1>3, <3>1, AppendEntry
  <2> QED
    BY <1>2, <2>1
<1>5. Grown(1) /\ Len(entries) \in Nat
  BY <1>4, EntryTypes DEF Grown
<1>6. entries'[e] = y /\ \A r \in DOMAIN entries \ {e} : entries'[r] = entries[r]
  BY <1>2, <1>4
<1>7. \A r \in DOMAIN entries : Kept(r)
  BY <1>6 DEF Kept
<1>8. PointersOK'
  <2>1. \A r \in DOMAIN entries :
          /\ entries'[r].of \in Nat /\ entries'[r].of <= Len(entries)
          /\ entries'[r].draft = entries[r].draft
    BY <1>5, <1>6, EntryTypes DEF PointersOK
  <2>2. \A r \in DOMAIN entries' \ DOMAIN entries : r = Len(entries) + 1
    BY <1>4, <1>5
  <2>3. e \in Nat /\ e <= Len(entries)
    BY <1>4, <1>5
  <2>4. DOMAIN entries \subseteq DOMAIN entries'
    BY <1>4, <1>5
  <2> QED
    BY <1>4, <1>5, <2>1, <2>2, <2>3, <2>4, PointersStay DEF PointersOK
<1>9. Safe'
  BY <1>4, <1>5, <1>6, <1>7, ReversalSafe
<1> QED
  BY <1>4, <1>8, <1>9

\* The rows entry() builds.
LEMMA EntryRow ==
  ASSUME NEW a \in Int, NEW p \in Periods, NEW st \in EntryStatuses, NEW o \in Nat,
         NEW d \in Nat
  PROVE  /\ entry(a, p, st, o, d) \in Entry
         /\ entry(a, p, st, o, d).amount = a /\ entry(a, p, st, o, d).period = p
         /\ entry(a, p, st, o, d).status = st
         /\ entry(a, p, st, o, d).of = o /\ entry(a, p, st, o, d).draft = d
  BY DEF entry, Entry

\* A row whose status is written stays well typed.
LEMMA MarkedRow ==
  ASSUME NEW y \in Entry, NEW st \in EntryStatuses
  PROVE  /\ [y EXCEPT !.status = st] \in Entry
         /\ [y EXCEPT !.status = st].status = st /\ [y EXCEPT !.status = st].of = y.of
         /\ [y EXCEPT !.status = st].amount = y.amount
         /\ [y EXCEPT !.status = st].draft = y.draft
  BY DEF Entry

\* The locks keep what they keep while the requests that hold them last.
LEMMA HeldStays ==
  ASSUME RowsOK, HeldInv, Ended,
         \A q \in Requests : request'[q].op \in Voiding =>
           /\ request'[q].entry \in DOMAIN entries'
           /\ entries'[request'[q].entry].status = entries[request'[q].entry].status
           /\ entries'[request'[q].entry].amount = entries[request'[q].entry].amount,
         \A q \in Requests : \A a \in request'[q].held : advance'[a] = advance[a]
  PROVE  HeldInv'
<1>1. /\ \A q \in Requests : request'[q].op \in Voiding => request'[q] = request[q]
      /\ \A q \in Requests : \A a \in request'[q].held : request'[q] = request[q]
  BY FlightKinds DEF Ended, Voiding
<1>2. ASSUME NEW q \in Requests, request'[q].op \in Voiding
      PROVE  /\ request'[q].entry \in DOMAIN entries'
             /\ entries'[request'[q].entry].status = "POSTED"
             /\ entries'[request'[q].entry].amount = request'[q].amount
             /\ \A p \in Requests :
                  request'[p].op \in Voiding /\ request'[p].entry = request'[q].entry => p = q
  BY <1>1, <1>2 DEF HeldInv
<1>3. ASSUME NEW q \in Requests, NEW a \in request'[q].held
      PROVE  /\ \A p \in Requests : a \in request'[p].held => p = q
             /\ request'[q].op = "settle" =>
                  /\ advance'[a].status = "POSTED" /\ request'[q].amount \in Nat \ {0}
                  /\ request'[q].amount <= AdvanceSum - advance'[a].settled
             /\ request'[q].op = "voidAdvance" => advance'[a].settled = 0
  <2>1. request'[q] = request[q] /\ a \in request[q].held /\ advance'[a] = advance[a]
    BY <1>1
  <2>2. ASSUME NEW p \in Requests, a \in request'[p].held PROVE p = q
    BY <1>1, <2>1, <2>2 DEF HeldInv
  <2> QED
    BY <2>1, <2>2 DEF HeldInv
<1> QED
  BY <1>2, <1>3 DEF HeldInv

\* A step that writes one entry e at most, which none of the transactions that
\* go on is voiding, appends at most and leaves the advances alone.
LEMMA HeldThrough ==
  ASSUME RowsOK, HeldInv, Ended, NEW n, Grown(n), advance' = advance, NEW e,
         \A r \in DOMAIN entries \ {e} : entries'[r] = entries[r],
         \A q \in Requests : request'[q].op \in Voiding => request'[q].entry # e
  PROVE  HeldInv'
<1>1. \A q \in Requests : request'[q].op \in Voiding => request'[q] = request[q]
  BY FlightKinds DEF Ended, Voiding
<1>2. DOMAIN entries \subseteq DOMAIN entries'
  BY EntryTypes DEF Grown
<1>3. ASSUME NEW q \in Requests, request'[q].op \in Voiding
      PROVE  /\ request'[q].entry \in DOMAIN entries'
             /\ entries'[request'[q].entry] = entries[request'[q].entry]
  BY <1>1, <1>2, <1>3 DEF HeldInv
<1> QED
  BY <1>3, HeldStays

\* createPeriod, setPeriodStatus, runPeriodClose and movePeriod write the
\* periods alone.
LEMMA PeriodsInv == ASSUME LedgerInv, periods PROVE LedgerInv'
<1>1. PICK p \in Periods, st \in PeriodStatuses : period' = [period EXCEPT ![p] = st]
  <2>1. CASE \E p \in Periods, st \in OpenedAs : createPeriod(p, st)
    BY <2>1, LedgerAssumption DEF createPeriod
  <2>2. CASE \E p \in Periods, act \in DOMAIN ALLOWED_FROM : movePeriod(p, act)
    <3>1. PICK p \in Periods, act \in DOMAIN ALLOWED_FROM : movePeriod(p, act)
      BY <2>2
    <3>2. periodStatusFor[act] \in PeriodStatuses
      BY DEF ALLOWED_FROM, periodStatusFor, PeriodStatuses
    <3> QED
      BY <3>1, <3>2 DEF movePeriod, move
  <2>3. CASE \E p \in Periods, st \in {"OPEN", "LOCKED", "CLOSED"} : setPeriodStatus(p, st)
    BY <2>3 DEF setPeriodStatus, move, PeriodStatuses
  <2>4. CASE \E p \in Periods : runPeriodClose(p)
    BY <2>4 DEF runPeriodClose, move, PeriodStatuses
  <2> QED
    BY <2>1, <2>2, <2>3, <2>4 DEF periods
<1>2. UNCHANGED <<entries, advance, request, raced, touched>>
  BY DEF periods, createPeriod, movePeriod, setPeriodStatus, runPeriodClose
<1>3. RowsOK'
  BY <1>1, <1>2 DEF LedgerInv, RowsOK
<1>4. /\ PointersOK' /\ AdvancesOK' /\ DraftsInv' /\ FlightInv' /\ ReversedOnce'
      /\ PostedOnceUnlessRaced' /\ HeldInv'
  BY <1>2 DEF LedgerInv, PointersOK, AdvancesOK, DraftsInv, FlightInv, Apart, ReversedOnce,
       PostedOnceUnlessRaced, HeldInv
<1> QED
  BY <1>3, <1>4 DEF LedgerInv

\* A transaction that ends.
LEMMA EndRow ==
  ASSUME RowsOK, NEW q \in Requests, end(q)
  PROVE  /\ request' \in [Requests -> Flight] /\ request'[q] = idle /\ Ended /\ NoNewRead
         /\ \A p \in Requests \ {q} : request'[p] = request[p]
         /\ request'[q].op = "idle" /\ request'[q].held = {}
<1>1. request \in [Requests -> Flight] /\ idle \in Flight /\ idle.op = "idle" /\ idle.held = {}
  BY FlightKinds DEF RowsOK
<1>2. /\ request' \in [Requests -> Flight] /\ request'[q] = idle
      /\ \A p \in Requests \ {q} : request'[p] = request[p]
  BY <1>1 DEF end
<1>3. Ended
  BY <1>2 DEF Ended
<1> QED
  BY <1>1, <1>2, <1>3, EndedReadsNothing

\* A transaction that begins.
LEMMA BeginRow ==
  ASSUME RowsOK, NEW q \in Requests, NEW rec \in Flight, begin(q, rec)
  PROVE  /\ request[q] = idle /\ request' \in [Requests -> Flight] /\ request'[q] = rec
         /\ request[q].op = "idle" /\ request[q].held = {}
         /\ \A p \in Requests \ {q} : request'[p] = request[p]
         /\ UNCHANGED <<period, moves, entries, advance, drafts, touched>>
<1>1. idle.op = "idle" /\ idle.held = {}
  BY FlightKinds
<1> QED
  BY <1>1 DEF RowsOK, begin

\* A transaction begins that posts or inserts a draft, holding what it must.
LEMMA BeginInv ==
  ASSUME LedgerInv, NEW q \in Requests, NEW rec \in Flight, begin(q, rec), raced' = raced,
         rec.op \notin Reading,
         rec.op \in Voiding =>
           /\ unlocked(rec.entry) /\ rec.entry \in DOMAIN entries
           /\ entries[rec.entry].status = "POSTED"
           /\ entries[rec.entry].amount = rec.amount,
         \A a \in rec.held :
           /\ free(a)
           /\ rec.op = "settle" =>
                /\ advance[a].status = "POSTED" /\ rec.amount \in Nat \ {0}
                /\ rec.amount <= AdvanceSum - advance[a].settled
           /\ rec.op = "voidAdvance" => advance[a].settled = 0
  PROVE  LedgerInv'
<1>1. RowsOK /\ PointersOK /\ Safe /\ AdvancesOK /\ HeldInv
  BY DEF LedgerInv, Safe
<1>2. /\ request[q].op = "idle" /\ request[q].held = {}
      /\ request' \in [Requests -> Flight] /\ request'[q] = rec
      /\ \A p \in Requests \ {q} : request'[p] = request[p]
      /\ UNCHANGED <<period, moves, entries, advance, drafts, touched>>
  BY <1>1, BeginRow
<1>3. NoNewRead /\ Grown(0) /\ \A e \in DOMAIN entries : Kept(e)
  BY <1>1, <1>2, EntryTypes DEF NoNewRead, Grown, Kept
<1>4. Safe'
  BY <1>1, <1>2, <1>3, PlainSafe
<1>5. PointersOK'
  BY <1>1, <1>2, <1>3 DEF PointersOK, NoNewRead
<1>6. ASSUME NEW p \in Requests, request'[p].op \in Voiding
      PROVE  /\ request'[p].entry \in DOMAIN entries
             /\ entries[request'[p].entry].status = "POSTED"
             /\ entries[request'[p].entry].amount = request'[p].amount
             /\ \A o \in Requests :
                  request'[o].op \in Voiding /\ request'[o].entry = request'[p].entry => o = p
  <2>1. CASE p = q
    BY <1>2, <1>6, <2>1 DEF unlocked
  <2>2. CASE p # q
    BY <1>1, <1>2, <1>6, <2>2 DEF unlocked, HeldInv
  <2> QED
    BY <2>1, <2>2
<1>7. ASSUME NEW p \in Requests, NEW a \in request'[p].held
      PROVE  /\ \A o \in Requests : a \in request'[o].held => o = p
             /\ request'[p].op = "settle" =>
                  /\ advance[a].status = "POSTED" /\ request'[p].amount \in Nat \ {0}
                  /\ request'[p].amount <= AdvanceSum - advance[a].settled
             /\ request'[p].op = "voidAdvance" => advance[a].settled = 0
  <2>1. CASE p = q
    BY <1>2, <1>7, <2>1 DEF free
  <2>2. CASE p # q
    BY <1>1, <1>2, <1>7, <2>2 DEF free, HeldInv
  <2> QED
    BY <2>1, <2>2
<1>8. HeldInv'
  BY <1>2, <1>6, <1>7 DEF HeldInv
<1> QED
  BY <1>1, <1>2, <1>4, <1>5, <1>8 DEF LedgerInv, Safe, RowsOK, AdvancesOK

LEMMA StartManualInv ==
  ASSUME LedgerInv, NEW q \in Requests, NEW op \in {"post", "new"}, NEW x \in Amounts,
         NEW p \in Periods, startManualJournal(q, op, x, p)
  PROVE  LedgerInv'
<1> DEFINE rec == flight(op, 0, {}, x, p)
<1>1. op \in Ops /\ op \notin Reading /\ op \notin Voiding /\ x \in Int /\ 0 \in Nat
  BY LedgerAssumption DEF Ops, Posting, Reading, Voiding
<1>2. rec \in Flight /\ rec.op = op /\ rec.held = {}
  BY <1>1, FlightRow
<1>3. begin(q, rec) /\ raced' = raced
  BY DEF startManualJournal
<1> HIDE DEF rec
<1> QED
  BY <1>1, <1>2, <1>3, BeginInv

LEMMA CreateInv ==
  ASSUME LedgerInv, NEW q \in Requests, createManualJournal(q)
  PROVE  LedgerInv'
<1>1. PICK x, p, st : /\ x = request[q].amount /\ p = request[q].period
                      /\ st = IF request[q].op = "new" THEN "DRAFT" ELSE "POSTED"
  OBVIOUS
<1>2. /\ entries' = Append(entries, entry(x, p, st, 0, 0)) /\ end(q)
      /\ UNCHANGED <<period, moves, advance, raced, touched>>
  BY <1>1 DEF createManualJournal
<1>3. RowsOK /\ PointersOK /\ Safe /\ AdvancesOK /\ HeldInv
  BY DEF LedgerInv, Safe
<1>4. x \in Int /\ p \in Periods /\ st \in EntryStatuses /\ 0 \in Nat
  BY <1>1, <1>3, FlightKinds DEF EntryStatuses
<1>5. /\ entry(x, p, st, 0, 0) \in Entry /\ entry(x, p, st, 0, 0).of = 0
      /\ entry(x, p, st, 0, 0).draft = 0
  BY <1>4, EntryRow
<1>6. request' \in [Requests -> Flight] /\ Ended /\ NoNewRead
  BY <1>2, <1>3, EndRow
<1>7. \A a \in Advances : advance'[a].status \in {"POSTED", "SETTLED"} =>
                             advance'[a].journal \in 1..(Len(entries) + 1)
  BY <1>2, <1>3, EntryTypes DEF PointersOK
<1>8. entries' \in Seq(Entry) /\ PointersOK' /\ Safe'
  BY <1>2, <1>3, <1>5, <1>6, <1>7, AddPlain
<1>9. Grown(1) /\ \A r \in DOMAIN entries : entries'[r] = entries[r]
  BY <1>2, <1>3, <1>5, AppendEntry DEF Grown, RowsOK
<1>10. HeldInv'
  <2>1. \A o \in Requests : request'[o].op \in Voiding => request'[o].entry # 0
    BY <1>3, <1>6, FlightKinds, EntryTypes DEF Ended, Voiding, HeldInv
  <2> QED
    BY <1>2, <1>3, <1>6, <1>9, <2>1, HeldThrough
<1> QED
  BY <1>2, <1>3, <1>6, <1>8, <1>10 DEF LedgerInv, Safe, RowsOK, AdvancesOK

\* The workflow routes and the record route's submit write a status.
LEMMA StatusInv ==
  ASSUME LedgerInv, NEW e \in DOMAIN entries,
         NEW st \in {"SUBMITTED", "APPROVED", "REJECTED"},
         entries' = setStatus(entries, e, st), touched \subseteq touched',
         UNCHANGED <<period, advance, request, raced>>,
         unlocked(e) \/ entries[e].status # "POSTED"
  PROVE  LedgerInv'
<1> DEFINE x == [entries[e] EXCEPT !.status = st]
<1>1. RowsOK /\ PointersOK /\ Safe /\ AdvancesOK /\ HeldInv
  BY DEF LedgerInv, Safe
<1>0. Ended /\ NoNewRead
  BY EndedReadsNothing DEF Ended
<1>2. entries[e] \in Entry /\ entries[e].of <= Len(entries)
  BY <1>1, EntryTypes DEF PointersOK
<1>3. /\ x \in Entry /\ x.status = st /\ x.of = entries[e].of
      /\ x.amount = entries[e].amount /\ x.draft = entries[e].draft
  <2>1. st \in EntryStatuses
    BY DEF EntryStatuses
  <2> QED
    BY <1>2, <2>1, MarkedRow
<1>4. entries' = [entries EXCEPT ![e] = x]
  BY DEF setStatus
<1> HIDE DEF x
<1>5. entries' \in Seq(Entry) /\ PointersOK' /\ Safe'
  BY <1>0, <1>1, <1>2, <1>3, <1>4, MarkRow
<1>6. HeldInv'
  <2>1. Grown(0) /\ \A r \in DOMAIN entries \ {e} : entries'[r] = entries[r]
    BY <1>1, <1>3, <1>4, PutEntry, EntryTypes DEF Grown, RowsOK
  <2>2. \A q \in Requests : request'[q].op \in Voiding => request'[q].entry # e
    BY <1>1 DEF unlocked, HeldInv
  <2> QED
    BY <1>0, <1>1, <2>1, <2>2, HeldThrough
<1> QED
  BY <1>1, <1>5, <1>6 DEF LedgerInv, Safe, RowsOK, AdvancesOK

\* The record routes.
LEMMA RecordInv == ASSUME LedgerInv, recordRoutes PROVE LedgerInv'
<1>1. RowsOK /\ PointersOK /\ Safe /\ AdvancesOK /\ HeldInv
  BY DEF LedgerInv, Safe
<1>0. ASSUME UNCHANGED request PROVE Ended /\ NoNewRead
  BY <1>0, EndedReadsNothing DEF Ended
<1>2. ASSUME NEW p \in Periods, createRecord(p) PROVE LedgerInv'
  <2>1. /\ entries' = Append(entries, entry(0, p, "DRAFT", 0, 0))
        /\ UNCHANGED <<period, advance, request, raced>> /\ touched \subseteq touched'
    BY <1>2 DEF createRecord, touch
  <2>2. /\ entry(0, p, "DRAFT", 0, 0) \in Entry /\ entry(0, p, "DRAFT", 0, 0).of = 0
        /\ entry(0, p, "DRAFT", 0, 0).draft = 0
    BY EntryRow DEF EntryStatuses
  <2>3. \A a \in Advances : advance'[a].status \in {"POSTED", "SETTLED"} =>
                               advance'[a].journal \in 1..(Len(entries) + 1)
    BY <1>1, <2>1, EntryTypes DEF PointersOK
  <2>4. entries' \in Seq(Entry) /\ PointersOK' /\ Safe'
    BY <1>0, <1>1, <2>1, <2>2, <2>3, AddPlain
  <2>5. HeldInv'
    <3>1. Grown(1) /\ \A r \in DOMAIN entries : entries'[r] = entries[r]
      BY <1>1, <2>1, <2>2, AppendEntry DEF Grown, RowsOK
    <3>2. \A o \in Requests : request'[o].op \in Voiding => request'[o].entry # 0
      BY <1>1, <2>1, EntryTypes DEF HeldInv
    <3> QED
      BY <1>0, <1>1, <2>1, <3>1, <3>2, HeldThrough
  <2> QED
    BY <1>1, <2>1, <2>4, <2>5 DEF LedgerInv, Safe, RowsOK, AdvancesOK
<1>3. ASSUME NEW e \in DOMAIN entries, NEW x \in Entry, patch(e, x),
             x.amount = entries[e].amount, x.draft = entries[e].draft,
             x.status = entries[e].status, x.of <= Len(entries)
      PROVE  LedgerInv'
  <2>1. /\ entries' = [entries EXCEPT ![e] = x] /\ e \in touched' /\ touched \subseteq touched'
        /\ UNCHANGED <<period, advance, request, raced>> /\ unlocked(e)
    BY <1>3 DEF patch, touch
  <2>2. entries' \in Seq(Entry) /\ PointersOK' /\ Safe'
    BY <1>0, <1>1, <1>3, <2>1, MarkRow
  <2>3. HeldInv'
    <3>1. Grown(0) /\ \A r \in DOMAIN entries \ {e} : entries'[r] = entries[r]
      BY <1>1, <1>3, <2>1, PutEntry, EntryTypes DEF Grown, RowsOK
    <3> QED
      BY <1>0, <1>1, <2>1, <3>1, HeldThrough DEF unlocked
  <2> QED
    BY <1>1, <2>1, <2>2, <2>3 DEF LedgerInv, Safe, RowsOK, AdvancesOK
<1>4. ASSUME NEW e \in DOMAIN entries, NEW p \in Periods,
             patch(e, [entries[e] EXCEPT !.period = p])
      PROVE  LedgerInv'
  <2> DEFINE x == [entries[e] EXCEPT !.period = p]
  <2>1. entries[e] \in Entry /\ entries[e].of <= Len(entries)
    BY <1>1, EntryTypes DEF PointersOK
  <2>2. /\ x \in Entry /\ x.amount = entries[e].amount /\ x.draft = entries[e].draft
        /\ x.status = entries[e].status /\ x.of = entries[e].of
    BY <2>1 DEF Entry
  <2>3. patch(e, x)
    BY <1>4
  <2> HIDE DEF x
  <2> QED
    BY <1>3, <2>1, <2>2, <2>3
<1>5. ASSUME NEW e \in DOMAIN entries, NEW o \in 0..Len(entries),
             patch(e, [entries[e] EXCEPT !.of = o])
      PROVE  LedgerInv'
  <2> DEFINE x == [entries[e] EXCEPT !.of = o]
  <2>1. entries[e] \in Entry /\ o \in Nat /\ o <= Len(entries)
    BY <1>1, EntryTypes
  <2>2. /\ x \in Entry /\ x.amount = entries[e].amount /\ x.draft = entries[e].draft
        /\ x.status = entries[e].status /\ x.of = o
    BY <2>1 DEF Entry
  <2>3. patch(e, x)
    BY <1>5
  <2> HIDE DEF x
  <2> QED
    BY <1>3, <2>1, <2>2, <2>3
<1>6. ASSUME NEW e \in DOMAIN entries, submitRecord(e) PROVE LedgerInv'
  BY <1>6, StatusInv DEF submitRecord, touch
<1> QED
  BY <1>2, <1>4, <1>5, <1>6 DEF recordRoutes

\* voidJournal checks and locks.
LEMMA StartVoidInv ==
  ASSUME LedgerInv, NEW q \in Requests, NEW op \in Voiding, NEW e \in DOMAIN entries,
         NEW h \in SUBSET Advances, startVoid(q, op, e, h),
         \A a \in h : free(a) /\ advance[a].settled = 0
  PROVE  LedgerInv'
<1> DEFINE rec == flight(op, e, h, entries[e].amount, Today)
<1>1. RowsOK
  BY DEF LedgerInv
<1>2. op \in Ops /\ op \notin Reading /\ op # "settle" /\ Today \in Periods
  BY LedgerAssumption DEF Ops, Posting, Reading, Voiding, Periods
<1>3. entries[e].amount \in Int /\ e \in Nat
  BY <1>1, EntryTypes
<1>4. /\ rec \in Flight /\ rec.op = op /\ rec.entry = e /\ rec.held = h
      /\ rec.amount = entries[e].amount
  BY <1>2, <1>3, FlightRow
<1>5. begin(q, rec) /\ raced' = raced /\ unlocked(e) /\ entries[e].status = "POSTED"
  BY DEF startVoid, voidable
<1> HIDE DEF rec
<1> QED
  BY <1>2, <1>4, <1>5, BeginInv

\* voidJournal posts, also on behalf of voidCashAdvance.
LEMMA VoidKeeps ==
  ASSUME LedgerInv, NEW q \in Requests, request[q].op \in Voiding,
         entries' = reversed(q), end(q), UNCHANGED <<period, raced, touched>>,
         \A a \in Advances : advance'[a].status \in {"POSTED", "SETTLED"} =>
                                advance'[a].journal \in DOMAIN entries
  PROVE  /\ entries' \in Seq(Entry) /\ PointersOK' /\ Safe'
         /\ \A o \in Requests : request'[o].op \in Voiding =>
              /\ request'[o].entry \in DOMAIN entries'
              /\ entries'[request'[o].entry] = entries[request'[o].entry]
<1>1. RowsOK /\ PointersOK /\ Safe /\ HeldInv
  BY DEF LedgerInv, Safe
<1>2. PICK e, m, p : e = request[q].entry /\ m = request[q].amount /\ p = request[q].period
  OBVIOUS
<1> DEFINE y == [entries[e] EXCEPT !.status = "VOID", !.of = 0]
           x == entry(-m, p, "POSTED", e, 0)
<1>3. /\ entries \in Seq(Entry) /\ e \in DOMAIN entries /\ e \in Nat
      /\ entries[e] \in Entry /\ entries[e].status = "POSTED" /\ entries[e].amount = m
      /\ m \in Int /\ p \in Periods
  BY <1>1, <1>2, EntryTypes, FlightKinds DEF RowsOK, HeldInv
<1>4. /\ y \in Entry /\ y.status = "VOID" /\ y.of = 0 /\ y.amount = entries[e].amount
      /\ y.draft = entries[e].draft
  BY <1>3 DEF Entry, EntryStatuses
<1>5. x \in Entry /\ x.of = e /\ x.draft = 0 /\ x.amount = -m /\ x.status = "POSTED"
  <2>1. -m \in Int /\ "POSTED" \in EntryStatuses /\ 0 \in Nat
    BY <1>3 DEF EntryStatuses
  <2> QED
    BY <1>3, <2>1, EntryRow
<1>6. entries' = Append([entries EXCEPT ![e] = y], x)
  BY <1>2, <1>3, TwoColumns DEF reversed
<1> HIDE DEF x, y
<1>7. /\ Ended /\ NoNewRead /\ request'[q].op = "idle"
      /\ \A o \in Requests \ {q} : request'[o] = request[o]
  BY <1>1, EndRow
<1>8. entries' \in Seq(Entry) /\ PointersOK' /\ Safe'
  BY <1>1, <1>3, <1>4, <1>5, <1>6, <1>7, AddReversal
<1>9. \A r \in DOMAIN entries \ {e} : r \in DOMAIN entries' /\ entries'[r] = entries[r]
  BY <1>3, <1>4, <1>5, <1>6, PutAppend
<1>10. ASSUME NEW o \in Requests, request'[o].op \in Voiding
       PROVE  request'[o].entry \in DOMAIN entries \ {e}
  <2>1. o # q /\ request'[o] = request[o]
    BY <1>7, <1>10 DEF Voiding
  <2> QED
    BY <1>1, <1>2, <1>10, <2>1 DEF HeldInv
<1> QED
  BY <1>8, <1>9, <1>10

LEMMA VoidInv == ASSUME LedgerInv, NEW q \in Requests, voidJournal(q) PROVE LedgerInv'
<1>1. RowsOK /\ PointersOK /\ HeldInv /\ AdvancesOK
  BY DEF LedgerInv
<1>2. /\ request[q].op \in Voiding /\ entries' = reversed(q) /\ end(q)
      /\ UNCHANGED <<period, advance, raced, touched>>
  BY DEF voidJournal, Voiding
<1>3. \A a \in Advances : advance'[a].status \in {"POSTED", "SETTLED"} =>
                             advance'[a].journal \in DOMAIN entries
  BY <1>1, <1>2 DEF PointersOK
<1>4. /\ entries' \in Seq(Entry) /\ PointersOK' /\ Safe'
      /\ \A o \in Requests : request'[o].op \in Voiding =>
           /\ request'[o].entry \in DOMAIN entries'
           /\ entries'[request'[o].entry] = entries[request'[o].entry]
  BY <1>2, <1>3, VoidKeeps
<1>5. request' \in [Requests -> Flight] /\ Ended
  BY <1>1, <1>2, EndRow
<1>6. HeldInv'
  BY <1>1, <1>2, <1>4, <1>5, HeldStays
<1> QED
  BY <1>1, <1>2, <1>4, <1>5, <1>6 DEF LedgerInv, Safe, RowsOK, AdvancesOK

LEMMA ReverseInv ==
  ASSUME LedgerInv, NEW e \in DOMAIN entries, reverseJournal(e) PROVE LedgerInv'
<1> DEFINE y == [entries[e] EXCEPT !.status = "REVERSED"]
           x == entry(-entries[e].amount, entries[e].period, "POSTED", e, 0)
<1>1. RowsOK /\ PointersOK /\ Safe /\ AdvancesOK /\ HeldInv
  BY DEF LedgerInv, Safe
<1>2. /\ entries[e] \in Entry /\ entries[e].amount \in Int /\ entries[e].period \in Periods
      /\ e \in Nat
  BY <1>1, EntryTypes
<1>3. /\ y \in Entry /\ y.status = "REVERSED" /\ y.of = entries[e].of
      /\ y.amount = entries[e].amount /\ y.draft = entries[e].draft
  <2>1. "REVERSED" \in EntryStatuses
    BY DEF EntryStatuses
  <2> QED
    BY <1>2, <2>1, MarkedRow
<1>4. /\ x \in Entry /\ x.of = e /\ x.draft = 0 /\ x.amount = -entries[e].amount
      /\ x.status = "POSTED"
  <2>1. -entries[e].amount \in Int /\ "POSTED" \in EntryStatuses /\ 0 \in Nat
    BY <1>2 DEF EntryStatuses
  <2> QED
    BY <1>2, <2>1, EntryRow
<1>5. entries' = Append([entries EXCEPT ![e] = y], x)
  BY DEF reverseJournal, setStatus
<1>6. /\ entries[e].status = "POSTED" /\ unlocked(e)
      /\ UNCHANGED <<period, advance, request, raced, touched>>
  BY DEF reverseJournal, voidable
<1>0. Ended /\ NoNewRead
  BY <1>6, EndedReadsNothing DEF Ended
<1> HIDE DEF x, y
<1>7. \A a \in Advances : advance'[a].status \in {"POSTED", "SETTLED"} =>
                             advance'[a].journal \in DOMAIN entries
  BY <1>1, <1>6 DEF PointersOK
<1>8. entries' \in Seq(Entry) /\ PointersOK' /\ Safe'
  BY <1>0, <1>1, <1>3, <1>4, <1>5, <1>6, <1>7, AddReversal
<1>9. HeldInv'
  <2>1. entries \in Seq(Entry)
    BY <1>1 DEF RowsOK
  <2>2. Grown(1) /\ \A r \in DOMAIN entries \ {e} : entries'[r] = entries[r]
    BY <1>3, <1>4, <1>5, <2>1, PutAppend DEF Grown
  <2> QED
    BY <1>0, <1>1, <1>6, <2>2, HeldThrough DEF unlocked
<1> QED
  BY <1>1, <1>6, <1>8, <1>9 DEF LedgerInv, Safe, RowsOK, AdvancesOK

\* The columns of an advance.
LEMMA AdvanceTypes ==
  ASSUME RowsOK, NEW a \in Advances
  PROVE  /\ advance[a] \in Advance /\ advance[a].settled \in Nat /\ advance[a].journal \in Nat
         /\ advance[a].status \in {"NONE", "POSTED", "SETTLED", "VOID"}
<1>1. advance[a] \in Advance
  BY DEF RowsOK
<1> QED
  BY <1>1 DEF Advance

\* Writing one advance.
LEMMA PutAdvance ==
  ASSUME RowsOK, AdvancesOK, NEW a \in Advances, NEW x \in Advance,
         advance' = [advance EXCEPT ![a] = x],
         x.settled <= AdvanceSum, x.status = "SETTLED" <=> x.settled = AdvanceSum,
         x.status = "VOID" => x.settled = 0
  PROVE  /\ advance' \in [Advances -> Advance] /\ AdvancesOK' /\ advance'[a] = x
         /\ \A b \in Advances \ {a} : advance'[b] = advance[b]
<1>1. /\ advance' \in [Advances -> Advance] /\ advance'[a] = x
      /\ \A b \in Advances \ {a} : advance'[b] = advance[b]
  BY DEF RowsOK
<1>2. x.settled \in 0..AdvanceSum
  BY LedgerAssumption DEF Advance
<1> QED
  BY <1>1, <1>2 DEF AdvancesOK

\* The check of createCashAdvance and of settleCashAdvance.
LEMMA StartAdvanceInv ==
  ASSUME LedgerInv, NEW q \in Requests, NEW a \in Advances, NEW p \in Periods,
         startCashAdvance(q, a, p)
  PROVE  LedgerInv'
<1> DEFINE rec == flight("advance", 0, {a}, AdvanceSum, p)
<1>1. "advance" \in Ops /\ AdvanceSum \in Int /\ 0 \in Nat /\ {a} \in SUBSET Advances
  BY LedgerAssumption DEF Ops, Posting
<1>2. rec \in Flight /\ rec.op = "advance" /\ rec.held = {a}
  BY <1>1, FlightRow
<1>3. begin(q, rec) /\ raced' = raced /\ free(a)
  BY DEF startCashAdvance
<1>4. rec.op \notin Reading /\ rec.op \notin Voiding
  BY <1>2 DEF Reading, Voiding
<1> HIDE DEF rec
<1> QED
  BY <1>2, <1>3, <1>4, BeginInv

LEMMA StartSettlementInv ==
  ASSUME LedgerInv, NEW q \in Requests, NEW a \in Advances, NEW m \in Settlements,
         NEW p \in Periods, startSettlement(q, a, m, p)
  PROVE  LedgerInv'
<1> DEFINE rec == flight("settle", 0, {a}, m, p)
<1>1. /\ "settle" \in Ops /\ m \in Nat \ {0} /\ m \in Int /\ 0 \in Nat
      /\ {a} \in SUBSET Advances
  BY LedgerAssumption DEF Ops, Posting
<1>2. rec \in Flight /\ rec.op = "settle" /\ rec.held = {a} /\ rec.amount = m
  BY <1>1, FlightRow
<1>3. /\ begin(q, rec) /\ raced' = raced /\ free(a) /\ advance[a].status = "POSTED"
      /\ m <= AdvanceSum - advance[a].settled
  BY DEF startSettlement
<1>4. rec.op \notin Reading /\ rec.op \notin Voiding
  BY <1>2 DEF Reading, Voiding
<1> HIDE DEF rec
<1> QED
  BY <1>1, <1>2, <1>3, <1>4, BeginInv

LEMMA StartVoidAdvanceInv ==
  ASSUME LedgerInv, NEW q \in Requests, NEW a \in Advances, startVoidAdvance(q, a)
  PROVE  LedgerInv'
<1>1. /\ startVoid(q, "voidAdvance", advance[a].journal, {a}) /\ free(a)
      /\ advance[a].settled = 0 /\ advance[a].journal \in DOMAIN entries
  BY DEF startVoidAdvance, LedgerInv, PointersOK
<1>2. "voidAdvance" \in Voiding /\ {a} \in SUBSET Advances
  BY DEF Voiding
<1> QED
  BY <1>1, <1>2, StartVoidInv

\* The write of an advance that request q holds ends q and leaves the advances
\* of the other requests alone.
LEMMA AdvanceHeld ==
  ASSUME RowsOK, HeldInv, NEW q \in Requests, NEW a \in request[q].held, end(q),
         \A b \in Advances \ {a} : advance'[b] = advance[b],
         \A o \in Requests : request'[o].op \in Voiding =>
           /\ request'[o].entry \in DOMAIN entries'
           /\ entries'[request'[o].entry] = entries[request'[o].entry]
  PROVE  HeldInv'
<1>1. /\ Ended /\ request'[q].held = {} /\ \A o \in Requests \ {q} : request'[o] = request[o]
  BY EndRow
<1>2. ASSUME NEW o \in Requests, NEW b \in request'[o].held PROVE advance'[b] = advance[b]
  <2>1. o # q /\ request'[o] = request[o]
    BY <1>1, <1>2
  <2>2. b # a /\ b \in Advances
    BY <1>2, <2>1, FlightKinds DEF HeldInv
  <2> QED
    BY <2>2
<1> QED
  BY <1>1, <1>2, HeldStays

\* createCashAdvance and settleCashAdvance post a new entry for the advance
\* they hold.
LEMMA AdvancePosted ==
  ASSUME LedgerInv, NEW q \in Requests, NEW a \in request[q].held, end(q),
         NEW x \in Advance, advance' = [advance EXCEPT ![a] = x],
         x.settled <= AdvanceSum, x.status = "SETTLED" <=> x.settled = AdvanceSum,
         x.status \in {"POSTED", "SETTLED"}, x.journal \in 1..(Len(entries) + 1),
         NEW y \in Entry, y.of = 0, y.draft = 0, entries' = Append(entries, y),
         UNCHANGED <<period, raced, touched>>
  PROVE  LedgerInv'
<1>1. RowsOK /\ PointersOK /\ Safe /\ AdvancesOK /\ HeldInv
  BY DEF LedgerInv, Safe
<1>2. /\ a \in Advances /\ entries \in Seq(Entry)
      /\ Len(entries) \in Nat /\ DOMAIN entries = 1..Len(entries)
  BY <1>1, FlightKinds, EntryTypes DEF RowsOK
<1>3. /\ advance' \in [Advances -> Advance] /\ AdvancesOK' /\ advance'[a] = x
      /\ \A b \in Advances \ {a} : advance'[b] = advance[b]
  BY <1>1, <1>2, PutAdvance
<1>4. \A b \in Advances : advance'[b].status \in {"POSTED", "SETTLED"} =>
                             advance'[b].journal \in 1..(Len(entries) + 1)
  BY <1>1, <1>2, <1>3 DEF PointersOK
<1>5. request' \in [Requests -> Flight] /\ Ended /\ NoNewRead
  BY <1>1, EndRow
<1>6. entries' \in Seq(Entry) /\ PointersOK' /\ Safe'
  BY <1>1, <1>4, <1>5, AddPlain
<1>7. \A r \in DOMAIN entries : r \in DOMAIN entries' /\ entries'[r] = entries[r]
  BY <1>2, AppendEntry
<1>8. ASSUME NEW o \in Requests, request'[o].op \in Voiding
      PROVE  request'[o].entry \in DOMAIN entries
  BY <1>1, <1>5, <1>8, FlightKinds DEF Ended, Voiding, HeldInv
<1>9. HeldInv'
  BY <1>1, <1>3, <1>7, <1>8, AdvanceHeld
<1> QED
  BY <1>3, <1>5, <1>6, <1>9, <1>1 DEF LedgerInv, Safe, RowsOK

LEMMA CreateAdvanceInv ==
  ASSUME LedgerInv, NEW q \in Requests, NEW a \in Advances, createCashAdvance(q, a)
  PROVE  LedgerInv'
<1>1. RowsOK
  BY DEF LedgerInv
<1>2. PICK m, p : m = request[q].amount /\ p = request[q].period
  OBVIOUS
<1> DEFINE x == [status |-> "POSTED", settled |-> 0, journal |-> Len(entries) + 1]
           y == entry(m, p, "POSTED", 0, 0)
<1>3. /\ Len(entries) \in Nat /\ AdvanceSum \in Nat \ {0} /\ m \in Int /\ p \in Periods
      /\ "POSTED" \in EntryStatuses /\ 0 \in Nat
  BY <1>1, <1>2, EntryTypes, FlightKinds, LedgerAssumption DEF EntryStatuses
<1>4. /\ x \in Advance /\ x.settled = 0 /\ x.status = "POSTED"
      /\ x.journal = Len(entries) + 1
  BY <1>3 DEF Advance
<1>5. y \in Entry /\ y.of = 0 /\ y.draft = 0
  BY <1>3, EntryRow
<1>6. /\ entries' = Append(entries, y) /\ end(q) /\ a \in request[q].held
      /\ UNCHANGED <<period, raced, touched>>
  BY <1>2 DEF createCashAdvance
<1>7. advance' = [advance EXCEPT ![a] = x]
  BY DEF createCashAdvance
<1> HIDE DEF x, y
<1>8. /\ x.settled <= AdvanceSum /\ x.status # "SETTLED" /\ x.settled # AdvanceSum
      /\ x.journal \in 1..(Len(entries) + 1)
  BY <1>3, <1>4
<1> QED
  BY <1>4, <1>5, <1>6, <1>7, <1>8, AdvancePosted

LEMMA SettleInv ==
  ASSUME LedgerInv, NEW q \in Requests, NEW a \in Advances, settleCashAdvance(q, a)
  PROVE  LedgerInv'
<1>1. RowsOK /\ PointersOK /\ HeldInv
  BY DEF LedgerInv
<1>2. PICK m, p, n : /\ m = request[q].amount /\ p = request[q].period
                     /\ n = advance[a].settled + request[q].amount
  OBVIOUS
<1> DEFINE st == IF n >= AdvanceSum THEN "SETTLED" ELSE "POSTED"
           x == [advance[a] EXCEPT !.settled = n, !.status = st]
           y == entry(-m, p, "POSTED", 0, 0)
<1>3. /\ entries' = Append(entries, y) /\ end(q) /\ a \in request[q].held
      /\ UNCHANGED <<period, raced, touched>> /\ request[q].op = "settle"
  BY <1>2 DEF settleCashAdvance
<1>4. /\ m \in Nat \ {0} /\ advance[a] \in Advance /\ advance[a].settled \in Nat
      /\ advance[a].status = "POSTED" /\ m <= AdvanceSum - advance[a].settled
      /\ AdvanceSum \in Nat \ {0} /\ p \in Periods
  BY <1>1, <1>2, <1>3, AdvanceTypes, FlightKinds, LedgerAssumption DEF HeldInv
<1>5. n \in Nat /\ n <= AdvanceSum /\ st \in {"POSTED", "SETTLED"}
  BY <1>2, <1>4
<1>6. st = "SETTLED" <=> n = AdvanceSum
  BY <1>4, <1>5
<1>7. advance' = [advance EXCEPT ![a] = x]
  <2>1. advance' = [advance EXCEPT ![a].settled = n,
                      ![a].status = IF n >= AdvanceSum THEN "SETTLED" ELSE @]
    BY <1>2 DEF settleCashAdvance
  <2>2. advance \in [Advances -> Advance]
    BY <1>1 DEF RowsOK
  <2> QED
    BY <1>4, <2>1, <2>2 DEF Advance
<1> HIDE DEF st
<1>8. /\ x \in Advance /\ x.settled = n /\ x.status = st /\ x.journal = advance[a].journal
  BY <1>4, <1>5 DEF Advance
<1>9. y \in Entry /\ y.of = 0 /\ y.draft = 0
  <2>1. -m \in Int /\ "POSTED" \in EntryStatuses /\ 0 \in Nat
    BY <1>4 DEF EntryStatuses
  <2> QED
    BY <1>4, <2>1, EntryRow
<1>10. advance[a].journal \in 1..(Len(entries) + 1)
  BY <1>1, <1>4, EntryTypes DEF PointersOK
<1> HIDE DEF x, y
<1> QED
  BY <1>3, <1>5, <1>6, <1>7, <1>8, <1>9, <1>10, AdvancePosted

LEMMA VoidAdvanceInv ==
  ASSUME LedgerInv, NEW q \in Requests, NEW a \in Advances, voidCashAdvance(q, a)
  PROVE  LedgerInv'
<1> DEFINE x == [advance[a] EXCEPT !.status = "VOID"]
<1>1. RowsOK /\ PointersOK /\ AdvancesOK /\ HeldInv
  BY DEF LedgerInv
<1>2. /\ request[q].op \in Voiding /\ entries' = reversed(q) /\ end(q)
      /\ a \in request[q].held /\ advance' = [advance EXCEPT ![a] = x]
      /\ UNCHANGED <<period, raced, touched>> /\ request[q].op = "voidAdvance"
  BY DEF voidCashAdvance, Voiding
<1>3. advance[a] \in Advance /\ advance[a].settled = 0 /\ AdvanceSum \in Nat \ {0}
  BY <1>1, <1>2, AdvanceTypes, LedgerAssumption DEF HeldInv
<1>4. x \in Advance /\ x.settled = 0 /\ x.status = "VOID"
  BY <1>3 DEF Advance
<1> HIDE DEF x
<1>5. /\ advance' \in [Advances -> Advance] /\ AdvancesOK' /\ advance'[a] = x
      /\ \A b \in Advances \ {a} : advance'[b] = advance[b]
  <2>1. x.settled <= AdvanceSum /\ x.status # "SETTLED" /\ x.settled # AdvanceSum
    BY <1>3, <1>4
  <2> QED
    BY <1>1, <1>2, <1>4, <2>1, PutAdvance
<1>6. \A b \in Advances : advance'[b].status \in {"POSTED", "SETTLED"} =>
                             advance'[b].journal \in DOMAIN entries
  BY <1>1, <1>4, <1>5 DEF PointersOK
<1>7. /\ entries' \in Seq(Entry) /\ PointersOK' /\ Safe'
      /\ \A o \in Requests : request'[o].op \in Voiding =>
           /\ request'[o].entry \in DOMAIN entries'
           /\ entries'[request'[o].entry] = entries[request'[o].entry]
  BY <1>2, <1>6, VoidKeeps
<1>8. HeldInv'
  BY <1>1, <1>2, <1>5, <1>7, AdvanceHeld
<1>9. request' \in [Requests -> Flight]
  BY <1>1, <1>2, EndRow
<1> QED
  BY <1>1, <1>2, <1>5, <1>7, <1>8, <1>9 DEF LedgerInv, Safe, RowsOK

LEMMA AdvanceInv == ASSUME LedgerInv, advances PROVE LedgerInv'
  BY StartAdvanceInv, StartSettlementInv, StartVoidAdvanceInv, CreateAdvanceInv, SettleInv,
     VoidAdvanceInv DEF advances

\* The request a read of a draft leaves: nothing held, no entry voided.
LEMMA ReadHeld ==
  ASSUME RowsOK, HeldInv, NEW q \in Requests,
         request'[q].op \in Reading, request'[q].held = {},
         \A o \in Requests \ {q} : request'[o] = request[o], UNCHANGED <<entries, advance>>
  PROVE  HeldInv'
<1>1. request'[q].op \notin Voiding
  BY DEF Reading, Voiding
<1>2. ASSUME NEW p \in Requests, request'[p].op \in Voiding
      PROVE  /\ request'[p].entry \in DOMAIN entries
             /\ entries[request'[p].entry].status = "POSTED"
             /\ entries[request'[p].entry].amount = request'[p].amount
             /\ \A o \in Requests :
                  request'[o].op \in Voiding /\ request'[o].entry = request'[p].entry => o = p
  BY <1>1, <1>2 DEF HeldInv
<1>3. ASSUME NEW p \in Requests, NEW a \in request'[p].held
      PROVE  /\ \A o \in Requests : a \in request'[o].held => o = p
             /\ request'[p].op = "settle" =>
                  /\ advance[a].status = "POSTED" /\ request'[p].amount \in Nat \ {0}
                  /\ request'[p].amount <= AdvanceSum - advance[a].settled
             /\ request'[p].op = "voidAdvance" => advance[a].settled = 0
  BY <1>3 DEF HeldInv
<1> QED
  BY <1>2, <1>3 DEF HeldInv

LEMMA ReadUpdateInv ==
  ASSUME LedgerInv, NEW q \in Requests, NEW e \in DOMAIN entries, NEW m \in Corrections,
         NEW p \in Periods, readForUpdate(q, e, m, p)
  PROVE  LedgerInv'
<1> DEFINE rec == flight("update", e, {}, m, p)
<1>1. RowsOK /\ PointersOK /\ Safe /\ AdvancesOK /\ HeldInv
  BY DEF LedgerInv, Safe
<1>2. rec \in Flight /\ rec.op = "update" /\ rec.entry = e /\ rec.held = {}
  <2>1. "update" \in Ops /\ e \in Nat /\ m \in Int
    BY <1>1, EntryTypes, LedgerAssumption DEF Ops, Reading
  <2> QED
    BY <2>1, FlightRow
<1>3. /\ begin(q, rec) /\ entries[e].status = "DRAFT"
      /\ UNCHANGED <<period, entries, advance, raced, touched>>
  BY DEF readForUpdate, begin
<1> HIDE DEF rec
<1>4. /\ request[q] = idle /\ request' \in [Requests -> Flight] /\ request'[q] = rec
      /\ \A o \in Requests \ {q} : request'[o] = request[o]
  BY <1>1, <1>2, <1>3, BeginRow
<1>5. PointersOK'
  BY <1>1, <1>2, <1>3, <1>4 DEF PointersOK
<1>6. rec.op \in Reading
  BY <1>2 DEF Reading
<1>7. Safe'
  BY <1>1, <1>2, <1>3, <1>4, <1>6, ReadSafe
<1>8. HeldInv'
  BY <1>1, <1>2, <1>3, <1>4, <1>6, ReadHeld
<1> QED
  BY <1>1, <1>3, <1>4, <1>5, <1>7, <1>8 DEF LedgerInv, Safe, RowsOK, AdvancesOK

LEMMA ReadDraftInv ==
  ASSUME LedgerInv, NEW q \in Requests, NEW e \in DOMAIN entries, readDraft(q, e)
  PROVE  LedgerInv'
<1> DEFINE rec == flight("draft", e, {}, entries[e].amount, entries[e].period)
<1>1. RowsOK /\ PointersOK /\ Safe /\ AdvancesOK /\ HeldInv
  BY DEF LedgerInv, Safe
<1>2. rec \in Flight /\ rec.op = "draft" /\ rec.entry = e /\ rec.held = {}
  <2>1. "draft" \in Ops /\ e \in Nat /\ entries[e].amount \in Int
        /\ entries[e].period \in Periods
    BY <1>1, EntryTypes DEF Ops, Reading
  <2> QED
    BY <2>1, FlightRow
<1>3. /\ begin(q, rec) /\ entries[e].status = "DRAFT"
      /\ UNCHANGED <<period, entries, advance, touched>>
      /\ raced \subseteq raced'
      /\ e \notin raced' => ~\E o \in Requests : request[o].op = "draft" /\ request[o].entry = e
  BY DEF readDraft, begin
<1> HIDE DEF rec
<1>4. /\ request[q] = idle /\ request' \in [Requests -> Flight] /\ request'[q] = rec
      /\ \A o \in Requests \ {q} : request'[o] = request[o]
  BY <1>1, <1>2, <1>3, BeginRow
<1>5. PointersOK'
  BY <1>1, <1>2, <1>3, <1>4 DEF PointersOK
<1>6. rec.op \in Reading
  BY <1>2 DEF Reading
<1>7. Safe'
  BY <1>1, <1>2, <1>3, <1>4, <1>6, ReadSafe
<1>8. HeldInv'
  BY <1>1, <1>2, <1>3, <1>4, <1>6, ReadHeld
<1> QED
  BY <1>1, <1>3, <1>4, <1>5, <1>7, <1>8 DEF LedgerInv, Safe, RowsOK, AdvancesOK

LEMMA UpdateInv == ASSUME LedgerInv, NEW q \in Requests, updateJournal(q) PROVE LedgerInv'
<1>1. RowsOK /\ PointersOK /\ Safe /\ AdvancesOK /\ HeldInv
  BY DEF LedgerInv, Safe
<1>2. PICK e, m, p : e = request[q].entry /\ m = request[q].amount /\ p = request[q].period
  OBVIOUS
<1> DEFINE x == [entries[e] EXCEPT !.amount = m, !.period = p]
<1>3. request[q].op \in Reading /\ m \in Int /\ p \in Periods
  BY <1>1, <1>2, FlightKinds DEF updateJournal, Reading
<1>4. /\ e \in DOMAIN entries /\ Apart(e) /\ entries[e] \in Entry /\ entries \in Seq(Entry)
  BY <1>1, <1>2, <1>3, EntryTypes DEF PointersOK, Safe, FlightInv, RowsOK
<1>5. /\ x \in Entry /\ x.status = entries[e].status /\ x.of = entries[e].of
      /\ x.draft = entries[e].draft
  BY <1>3, <1>4 DEF Entry
<1>6. /\ entries' = [entries EXCEPT ![e] = x] /\ end(q)
      /\ UNCHANGED <<period, advance, raced, touched>>
  BY <1>2, <1>4, TwoColumns DEF updateJournal
<1> HIDE DEF x
<1>7. /\ entries' \in Seq(Entry) /\ Len(entries') = Len(entries)
      /\ DOMAIN entries' = DOMAIN entries
      /\ entries'[e] = x /\ \A r \in DOMAIN entries \ {e} : entries'[r] = entries[r]
  BY <1>4, <1>5, <1>6, PutEntry
<1>8. Grown(0)
  BY <1>1, <1>7, EntryTypes DEF Grown
<1>9. request' \in [Requests -> Flight] /\ Ended /\ NoNewRead
  BY <1>1, <1>6, EndRow
<1>10. PointersOK'
  <2>1. \A r \in DOMAIN entries :
          /\ entries'[r].of <= Len(entries) /\ entries'[r].draft = entries[r].draft
          /\ entries'[r].of \in Nat
    BY <1>1, <1>5, <1>7, EntryTypes DEF PointersOK
  <2> QED
    BY <1>1, <1>6, <1>7, <1>8, <1>9, <2>1, PointersStay DEF PointersOK
<1>11. Safe'
  BY <1>1, <1>4, <1>5, <1>6, <1>7, <1>8, <1>9, UpdateSafe
<1>12. HeldInv'
  <2>1. entries[e].status # "POSTED"
    BY <1>1, <1>2, <1>3 DEF Safe, FlightInv
  <2>2. \A o \in Requests : request'[o].op \in Voiding => request'[o] = request[o]
    BY <1>1, <1>9, FlightKinds DEF Ended, Voiding
  <2>3. \A o \in Requests : request'[o].op \in Voiding => request'[o].entry # e
    BY <1>1, <2>1, <2>2 DEF HeldInv
  <2> QED
    BY <1>1, <1>6, <1>7, <1>8, <1>9, <2>3, HeldThrough
<1> QED
  BY <1>1, <1>6, <1>7, <1>9, <1>10, <1>11, <1>12 DEF LedgerInv, Safe, RowsOK, AdvancesOK

LEMMA PostInv == ASSUME LedgerInv, NEW q \in Requests, postDraftJournal(q) PROVE LedgerInv'
<1>1. RowsOK /\ PointersOK /\ Safe /\ AdvancesOK /\ HeldInv
  BY DEF LedgerInv, Safe
<1>2. PICK e, m, p : e = request[q].entry /\ m = request[q].amount /\ p = request[q].period
  OBVIOUS
<1> DEFINE t == setStatus(entries, e, "VOID")
           x == entry(m, p, "POSTED", 0, e)
<1>3. /\ request[q].op \in Reading /\ m \in Int /\ p \in Periods
      /\ request[q].op = "draft"
  BY <1>1, <1>2, FlightKinds DEF postDraftJournal, Reading
<1>4. e \in DOMAIN entries /\ e \in Nat /\ entries \in Seq(Entry)
  BY <1>1, <1>2, <1>3, EntryTypes DEF PointersOK, RowsOK
<1>5. x \in Entry /\ x.status = "POSTED" /\ x.of = 0 /\ x.draft = e
  <2>1. "POSTED" \in EntryStatuses /\ 0 \in Nat
    BY DEF EntryStatuses
  <2> QED
    BY <1>3, <1>4, <2>1, EntryRow
<1>6. /\ entries' = Append(t, x) /\ end(q) /\ UNCHANGED <<period, advance, raced, touched>>
  BY <1>2 DEF postDraftJournal
<1>7. /\ t \in Seq(Entry) /\ Len(t) = Len(entries) /\ DOMAIN t = DOMAIN entries
      /\ t[e].status = "VOID" /\ t[e].of = entries[e].of /\ t[e].amount = entries[e].amount
      /\ t[e].draft = entries[e].draft
      /\ \A r \in DOMAIN entries \ {e} : t[r] = entries[r]
  <2>1. "VOID" \in EntryStatuses
    BY DEF EntryStatuses
  <2> QED
    BY <1>4, <2>1, SetStatusRow
<1> HIDE DEF t, x
<1>8. /\ entries' \in Seq(Entry) /\ Len(entries') = Len(entries) + 1
      /\ DOMAIN entries' = 1..(Len(entries) + 1)
      /\ entries'[Len(entries) + 1] = x /\ \A r \in DOMAIN entries : entries'[r] = t[r]
  <2>1. /\ entries' \in Seq(Entry) /\ Len(entries') = Len(t) + 1
        /\ DOMAIN entries' = 1..(Len(t) + 1)
        /\ entries'[Len(t) + 1] = x /\ \A r \in DOMAIN t : entries'[r] = t[r]
    <3>1. t \in Seq(Entry) /\ x \in Entry /\ entries' = Append(t, x)
      BY <1>5, <1>6, <1>7
    <3> QED
      BY ONLY <3>1, AppendEntry
  <2> QED
    BY <1>7, <2>1
<1>9. Grown(1) /\ Len(entries) \in Nat
  BY <1>1, <1>8, EntryTypes DEF Grown
<1>10. \A r \in DOMAIN entries : Kept(r)
  BY <1>7, <1>8 DEF Kept
<1>11. /\ request' \in [Requests -> Flight] /\ request'[q] = idle /\ Ended /\ NoNewRead
       /\ \A o \in Requests \ {q} : request'[o] = request[o]
  BY <1>1, <1>6, EndRow
<1>12. PointersOK'
  <2>1. \A r \in DOMAIN entries :
          /\ entries'[r].of <= Len(entries) /\ entries'[r].draft = entries[r].draft
          /\ entries'[r].of \in Nat
    BY <1>1, <1>7, <1>8, EntryTypes DEF PointersOK
  <2>3. \A r \in DOMAIN entries' \ DOMAIN entries : r = Len(entries) + 1
    BY <1>8, <1>9 DEF Grown
  <2>4. DOMAIN entries \subseteq DOMAIN entries' /\ e <= Len(entries)
    BY <1>4, <1>8, <1>9 DEF Grown
  <2> QED
    BY <1>1, <1>4, <1>5, <1>6, <1>8, <1>9, <1>11, <2>1, <2>3, <2>4,
       PointersStay DEF PointersOK
<1>13. Safe'
  BY <1>1, <1>2, <1>3, <1>4, <1>5, <1>6, <1>7, <1>8, <1>9, <1>10, <1>11, PostSafe
<1>14. HeldInv'
  <2>1. entries[e].status # "POSTED"
    BY <1>1, <1>2, <1>3 DEF Safe, FlightInv
  <2>2. \A o \in Requests : request'[o].op \in Voiding => request'[o] = request[o]
    BY <1>1, <1>11, FlightKinds DEF Ended, Voiding
  <2>3. \A o \in Requests : request'[o].op \in Voiding => request'[o].entry # e
    BY <1>1, <2>1, <2>2 DEF HeldInv
  <2>4. \A r \in DOMAIN entries \ {e} : entries'[r] = entries[r]
    BY <1>7, <1>8
  <2> QED
    BY <1>1, <1>6, <1>9, <1>11, <2>3, <2>4, HeldThrough
<1> QED
  BY <1>1, <1>6, <1>8, <1>11, <1>12, <1>13, <1>14 DEF LedgerInv, Safe, RowsOK, AdvancesOK

LEMMA RollbackInv == ASSUME LedgerInv, NEW q \in Requests, rollback(q) PROVE LedgerInv'
<1>1. RowsOK /\ PointersOK /\ Safe /\ AdvancesOK /\ HeldInv
  BY DEF LedgerInv, Safe
<1>2. end(q) /\ UNCHANGED <<period, entries, advance, raced, touched>>
  BY DEF rollback
<1>3. request' \in [Requests -> Flight] /\ Ended /\ NoNewRead
  BY <1>1, <1>2, EndRow
<1>4. Grown(0) /\ \A r \in DOMAIN entries : Kept(r)
  BY <1>1, <1>2, EntryTypes DEF Grown, Kept
<1>5. Safe'
  BY <1>1, <1>2, <1>3, <1>4, PlainSafe
<1>6. PointersOK'
  BY <1>1, <1>2, <1>3 DEF PointersOK, NoNewRead
<1>7. HeldInv'
  <2>1. \A o \in Requests : request'[o].op \in Voiding => request'[o].entry # 0
    BY <1>1, <1>3, FlightKinds, EntryTypes DEF Ended, Voiding, HeldInv
  <2> QED
    BY <1>1, <1>2, <1>3, <1>4, <2>1, HeldThrough
<1> QED
  BY <1>1, <1>2, <1>3, <1>5, <1>6, <1>7 DEF LedgerInv, Safe, RowsOK, AdvancesOK

-----------------------------------------------------------------------------
(* The theorems *)

LEMMA LedgerInitInv == LedgerInit => LedgerInv
<1> SUFFICES ASSUME LedgerInit PROVE LedgerInv
  OBVIOUS
<1>1. NoAdvance \in Advance /\ NoAdvance.status = "NONE" /\ NoAdvance.settled = 0
  BY DEF NoAdvance, Advance
<1>2. idle \in Flight /\ idle.op = "idle" /\ idle.held = {}
  <2>1. 1 \in Periods /\ "idle" \in Ops
    BY LedgerAssumption DEF Periods, Ops
  <2> QED
    BY <2>1 DEF Flight, idle, flight
<1>3. entries \in Seq(Entry) /\ DOMAIN entries = {}
  BY DEF LedgerInit
<1>4. RowsOK
  BY <1>1, <1>2, <1>3 DEF LedgerInit, RowsOK, PeriodStatuses
<1>5. AdvancesOK
  BY <1>1, LedgerAssumption DEF LedgerInit, AdvancesOK
<1>6. PointersOK /\ FlightInv /\ HeldInv
  BY <1>1, <1>2, <1>3 DEF LedgerInit, PointersOK, FlightInv, HeldInv, Reading, Voiding
<1>7. DraftsInv /\ ReversedOnce /\ PostedOnceUnlessRaced
  BY <1>3 DEF DraftsInv, ReversedOnce, PostedOnceUnlessRaced
<1> QED
  BY <1>4, <1>5, <1>6, <1>7 DEF LedgerInv

LEMMA LedgerNextInv == LedgerInv /\ [LedgerNext]_ledgerVars => LedgerInv'
<1> SUFFICES ASSUME LedgerInv, [LedgerNext]_ledgerVars PROVE LedgerInv'
  OBVIOUS
<1>1. CASE periods
  BY <1>1, PeriodsInv
<1>2. CASE journals
  <2>1. ASSUME NEW e \in DOMAIN entries,
               NEW from \in {"DRAFT", "SUBMITTED", "APPROVED", "REJECTED"},
               NEW to \in {"DRAFT", "SUBMITTED", "APPROVED", "REJECTED"},
               journalWorkflow(e, from, to)
        PROVE  LedgerInv'
    BY <2>1, StatusInv DEF journalWorkflow
  <2>2. ASSUME NEW e \in DOMAIN entries, NEW q \in Requests, startVoid(q, "void", e, {})
        PROVE  LedgerInv'
    <3>1. "void" \in Voiding /\ {} \in SUBSET Advances
      BY DEF Voiding
    <3> QED
      BY <2>2, <3>1, StartVoidInv
  <2> QED
    BY <1>2, <2>1, <2>2, StartManualInv, ReadDraftInv, ReadUpdateInv, ReverseInv DEF journals
<1>3. CASE advances
  BY <1>3, AdvanceInv
<1>4. CASE recordRoutes
  BY <1>4, RecordInv
<1>5. CASE \E q \in Requests : writes(q) \/ rollback(q)
  BY <1>5, UpdateInv, PostInv, CreateInv, VoidInv, RollbackInv DEF writes
<1>6. CASE UNCHANGED ledgerVars
  BY <1>6 DEF ledgerVars, LedgerInv, RowsOK, PointersOK, AdvancesOK, DraftsInv, FlightInv,
       HeldInv, Apart, ReversedOnce, PostedOnceUnlessRaced
<1> QED
  BY <1>1, <1>2, <1>3, <1>4, <1>5, <1>6 DEF LedgerNext

\* The ledger's inductive invariant holds through every interleaving of the
\* journal, advance and record routes.
THEOREM LedgerInvariant == JournalSpec => []LedgerInv
  BY LedgerInitInv, LedgerNextInv, PTL DEF JournalSpec

\* The rows keep their shape, and an advance is never settled beyond its
\* amount, SETTLED exactly when all of it is and VOID only when nothing was.
THEOREM LedgerTypes == JournalSpec => []LedgerTypeOK
<1>1. ASSUME LedgerInv PROVE LedgerTypeOK
  <2>1. RowsOK /\ PointersOK /\ AdvancesOK
    BY <1>1 DEF LedgerInv
  <2>2. ASSUME NEW e \in DOMAIN entries
        PROVE  /\ entries[e].period \in Periods /\ entries[e].status \in EntryStatuses
               /\ entries[e].of \in 0..Len(entries) /\ entries[e].draft \in 0..(e - 1)
    BY <2>1, EntryTypes DEF PointersOK
  <2> QED
    BY <2>1, <2>2 DEF LedgerTypeOK, RowsOK, AdvancesOK
<1> QED
  BY <1>1, LedgerInvariant, PTL

\* voidJournal, voidCashAdvance and reverse_journal together reverse an entry
\* at most once and for exactly its amount, though drafts are edited and posted
\* by transactions that read them long before.
THEOREM EntriesReversedOnce == JournalSpec => []ReversedOnce
<1>1. LedgerInv => ReversedOnce
  BY DEF LedgerInv
<1> QED
  BY <1>1, LedgerInvariant, PTL

\* postDraftJournal posts a draft at most once unless two transactions had it
\* in hand at the same time.
THEOREM DraftsPostedOnce == JournalSpec => []PostedOnceUnlessRaced
<1>1. LedgerInv => PostedOnceUnlessRaced
  BY DEF LedgerInv
<1> QED
  BY <1>1, LedgerInvariant, PTL

-----------------------------------------------------------------------------
(* Shut periods *)

\* A posting begins in an open period only.
LEMMA BeginsOpen ==
  ASSUME RowsOK, [LedgerNext]_ledgerVars, NEW q \in Requests, request'[q].op \in Posting
  PROVE  request'[q] = request[q] \/ period[request'[q].period] = "OPEN"
<1>1. ASSUME NEW o \in Requests, NEW rec, begin(o, rec), period[rec.period] = "OPEN"
      PROVE  request'[q] = request[q] \/ period[request'[q].period] = "OPEN"
  BY <1>1 DEF begin, RowsOK
<1>2. ASSUME NEW o \in Requests, end(o) PROVE request'[q] = request[q]
  <2>1. request'[o].op = "idle"
    BY <1>2, EndRow
  <2>2. o # q
    BY <2>1 DEF Posting
  <2> QED
    BY <1>2, <2>2, EndRow
<1>3. CASE periods \/ recordRoutes \/ UNCHANGED ledgerVars
  BY <1>3 DEF periods, createPeriod, setPeriodStatus, runPeriodClose, movePeriod, recordRoutes,
       createRecord, patch, submitRecord, touch, ledgerVars
<1>4. CASE journals
  <2>1. CASE \E o \in Requests, t \in Periods, x \in Amounts, op \in {"post", "new"} :
               startManualJournal(o, op, x, t)
    BY <1>1, <2>1 DEF startManualJournal, assertPeriodOpen, flight
  <2>2. ASSUME NEW e \in DOMAIN entries, NEW o \in Requests, readDraft(o, e)
        PROVE  request'[q] = request[q] \/ period[request'[q].period] = "OPEN"
    BY <1>1, <2>2 DEF readDraft, assertPeriodOpen, flight
  <2>3. ASSUME NEW e \in DOMAIN entries, NEW o \in Requests, NEW x \in Corrections,
               NEW t \in Periods, readForUpdate(o, e, x, t)
        PROVE  request'[q] = request[q] \/ period[request'[q].period] = "OPEN"
    BY <1>1, <2>3 DEF readForUpdate, assertPeriodOpen, flight
  <2>4. ASSUME NEW e \in DOMAIN entries, NEW o \in Requests, startVoid(o, "void", e, {})
        PROVE  request'[q] = request[q] \/ period[request'[q].period] = "OPEN"
    BY <1>1, <2>4 DEF startVoid, assertPeriodOpen, flight
  <2>5. ASSUME NEW e \in DOMAIN entries,
               \/ reverseJournal(e)
               \/ \E from, to \in {"DRAFT", "SUBMITTED", "APPROVED", "REJECTED"} :
                    journalWorkflow(e, from, to)
        PROVE  request'[q] = request[q]
    BY <2>5 DEF reverseJournal, journalWorkflow
  <2> QED
    BY <1>4, <2>1, <2>2, <2>3, <2>4, <2>5 DEF journals
<1>5. CASE advances
  <2>1. PICK o \in Requests, a \in Advances :
          \/ \E t \in Periods : startCashAdvance(o, a, t)
          \/ \E t \in Periods, x \in Settlements : startSettlement(o, a, x, t)
          \/ startVoidAdvance(o, a)
          \/ createCashAdvance(o, a) \/ settleCashAdvance(o, a) \/ voidCashAdvance(o, a)
    BY <1>5 DEF advances
  <2>2. CASE \E t \in Periods : startCashAdvance(o, a, t)
    BY <1>1, <2>2 DEF startCashAdvance, assertPeriodOpen, flight
  <2>3. CASE \E t \in Periods, x \in Settlements : startSettlement(o, a, x, t)
    BY <1>1, <2>3 DEF startSettlement, assertPeriodOpen, flight
  <2>4. CASE startVoidAdvance(o, a)
    BY <1>1, <2>4 DEF startVoidAdvance, startVoid, assertPeriodOpen, flight
  <2>5. CASE createCashAdvance(o, a) \/ settleCashAdvance(o, a) \/ voidCashAdvance(o, a)
    BY <1>2, <2>5 DEF createCashAdvance, settleCashAdvance, voidCashAdvance
  <2> QED
    BY <2>1, <2>2, <2>3, <2>4, <2>5
<1>6. CASE \E o \in Requests : writes(o) \/ rollback(o)
  BY <1>2, <1>6 DEF writes, rollback, updateJournal, postDraftJournal, createManualJournal,
       voidJournal
<1> QED
  BY <1>3, <1>4, <1>5, <1>6 DEF LedgerNext

\* The rows of the table after one was added, or one marked and one added.
LEMMA AppendedRow ==
  ASSUME RowsOK, NEW x \in Entry, entries' = Append(entries, x), NEW r \in DOMAIN entries'
  PROVE  \/ r \in DOMAIN entries /\ entries'[r] = entries[r]
         \/ entries'[r] = x
<1>1. entries \in Seq(Entry)
  BY DEF RowsOK
<1>2. /\ Len(entries) \in Nat /\ DOMAIN entries = 1..Len(entries)
      /\ DOMAIN entries' = 1..(Len(entries) + 1)
      /\ entries'[Len(entries) + 1] = x /\ \A e \in DOMAIN entries : entries'[e] = entries[e]
  BY <1>1, AppendEntry
<1> QED
  BY <1>2

LEMMA PutAppendedRow ==
  ASSUME RowsOK, NEW e \in DOMAIN entries, NEW y \in Entry, NEW x \in Entry,
         entries' = Append([entries EXCEPT ![e] = y], x), NEW r \in DOMAIN entries'
  PROVE  /\ entries'[e] = y
         /\ \/ r \in DOMAIN entries /\ entries'[r] = entries[r]
            \/ entries'[r] = y
            \/ entries'[r] = x
<1>1. entries \in Seq(Entry)
  BY DEF RowsOK
<1>2. /\ Len(entries) \in Nat /\ DOMAIN entries = 1..Len(entries)
      /\ DOMAIN entries' = 1..(Len(entries) + 1)
      /\ entries'[e] = y /\ entries'[Len(entries) + 1] = x
      /\ \A d \in DOMAIN entries \ {e} : entries'[d] = entries[d]
  BY <1>1, PutAppend
<1> QED
  BY <1>2

\* An entry the record routes left alone that is POSTED after a step was so
\* before, in the same period; or a posting in flight found its period open; or
\* it reverses an entry of its own period.
LEMMA NextRows ==
  ASSUME LedgerInv, [LedgerNext]_ledgerVars, NEW r \in DOMAIN entries', r \notin touched',
         entries'[r].status = "POSTED"
  PROVE  \/ /\ r \in DOMAIN entries /\ r \notin touched
            /\ entries[r].status = "POSTED" /\ entries'[r].period = entries[r].period
         \/ \E q \in Requests :
              request[q].op \in Posting /\ request[q].period = entries'[r].period
         \/ entries'[r].of # 0 /\ entries'[entries'[r].of].period = entries'[r].period
<1> DEFINE Known == /\ r \in DOMAIN entries /\ r \notin touched
                    /\ entries[r].status = "POSTED" /\ entries'[r].period = entries[r].period
           Begun == \E q \in Requests :
                      request[q].op \in Posting /\ request[q].period = entries'[r].period
<1>1. /\ RowsOK /\ PointersOK /\ FlightInv /\ HeldInv /\ entries \in Seq(Entry) /\ 0 \in Nat
      /\ "POSTED" \in EntryStatuses /\ "DRAFT" \in EntryStatuses /\ "VOID" \in EntryStatuses
      /\ "REVERSED" \in EntryStatuses
  BY DEF LedgerInv, RowsOK, EntryStatuses
<1>2. ASSUME entries' = entries, touched' = touched PROVE Known
  BY <1>2
<1>3. ASSUME NEW e \in DOMAIN entries, NEW y \in Entry, entries' = [entries EXCEPT ![e] = y],
             touched \subseteq touched', y.status # "POSTED" \/ e \in touched'
      PROVE  Known
  <2>1. DOMAIN entries' = DOMAIN entries /\ entries'[e] = y
        /\ \A d \in DOMAIN entries \ {e} : entries'[d] = entries[d]
    BY <1>1, <1>3, PutEntry
  <2> QED
    BY <1>3, <2>1
<1>4. ASSUME NEW q \in Requests, NEW m \in Int, NEW st \in EntryStatuses,
             entries' = Append(entries, entry(m, request[q].period, st, 0, 0)),
             touched' = touched, st = "POSTED" => request[q].op \in Posting
      PROVE  Known \/ Begun
  <2> DEFINE x == entry(m, request[q].period, st, 0, 0)
  <2>1. x \in Entry /\ x.period = request[q].period /\ x.status = st
    BY <1>1, FlightKinds, EntryRow
  <2>2. entries' = Append(entries, x)
    BY <1>4
  <2> HIDE DEF x
  <2>3. (r \in DOMAIN entries /\ entries'[r] = entries[r]) \/ entries'[r] = x
    BY <1>1, <2>1, <2>2, AppendedRow
  <2> QED
    BY <1>4, <2>1, <2>3
<1>5. ASSUME NEW q \in Requests, NEW e \in DOMAIN entries, NEW y \in Entry, NEW m \in Int,
             NEW o \in Nat, NEW d \in Nat, y.status # "POSTED",
             entries' = Append([entries EXCEPT ![e] = y],
                               entry(m, request[q].period, "POSTED", o, d)),
             touched' = touched, request[q].op \in Posting
      PROVE  Known \/ Begun
  <2> DEFINE x == entry(m, request[q].period, "POSTED", o, d)
  <2>1. x \in Entry /\ x.period = request[q].period
    <3>1. PICK t : t = request[q].period
      OBVIOUS
    <3>2. /\ t \in Periods /\ m \in Int /\ o \in Nat /\ d \in Nat
          /\ "POSTED" \in EntryStatuses
      BY <1>1, <3>1, FlightKinds
    <3>3. entry(m, t, "POSTED", o, d) \in Entry /\ entry(m, t, "POSTED", o, d).period = t
      BY ONLY <3>2, EntryRow
    <3> QED
      BY <3>1, <3>3
  <2>2. entries' = Append([entries EXCEPT ![e] = y], x)
    BY <1>5
  <2> HIDE DEF x
  <2>3. \/ r \in DOMAIN entries /\ entries'[r] = entries[r]
        \/ entries'[r] = y
        \/ entries'[r] = x
    BY <1>1, <2>1, <2>2, PutAppendedRow
  <2> QED
    BY <1>5, <2>1, <2>3
<1>6. ASSUME NEW e \in DOMAIN entries, NEW st \in EntryStatuses \ {"POSTED"},
             entries' = setStatus(entries, e, st), touched \subseteq touched'
      PROVE  Known
  <2> DEFINE y == [entries[e] EXCEPT !.status = st]
  <2>1. y \in Entry /\ y.status = st /\ entries' = [entries EXCEPT ![e] = y]
    BY <1>1, <1>6, EntryTypes, MarkedRow DEF setStatus
  <2> HIDE DEF y
  <2> QED
    BY <1>3, <1>6, <2>1
<1>7. ASSUME NEW q \in Requests, request[q].op \in Voiding, entries' = reversed(q),
             touched' = touched
      PROVE  Known \/ Begun
  <2>1. PICK e, m : e = request[q].entry /\ m = -request[q].amount
    OBVIOUS
  <2> DEFINE y == [entries[e] EXCEPT !.status = "VOID", !.of = 0]
  <2>2. /\ e \in DOMAIN entries /\ e \in Nat /\ entries[e] \in Entry /\ m \in Int
        /\ request[q].op \in Posting
    BY <1>1, <1>7, <2>1, EntryTypes, FlightKinds DEF HeldInv, Voiding, Posting
  <2>3. y \in Entry /\ y.status = "VOID"
    BY <1>1, <2>2 DEF Entry
  <2>4. entries' = Append([entries EXCEPT ![e] = y],
                          entry(m, request[q].period, "POSTED", e, 0))
    BY <1>1, <1>7, <2>1, <2>2, TwoColumns DEF reversed
  <2> HIDE DEF y
  <2> QED
    BY <1>1, <1>5, <1>7, <2>2, <2>3, <2>4
<1> HIDE DEF Known, Begun
<1>8. CASE periods \/ UNCHANGED ledgerVars
  BY <1>2, <1>8 DEF periods, createPeriod, setPeriodStatus, runPeriodClose, movePeriod, ledgerVars,
       Known
<1>9. CASE journals
  <2>1. ASSUME NEW e \in DOMAIN entries, reverseJournal(e)
        PROVE  Known \/ (entries'[r].of # 0 /\ entries'[entries'[r].of].period = entries'[r].period)
    <3> DEFINE y == [entries[e] EXCEPT !.status = "REVERSED"]
               x == entry(-entries[e].amount, entries[e].period, "POSTED", e, 0)
    <3>1. /\ entries[e] \in Entry /\ -entries[e].amount \in Int /\ e \in Nat /\ e # 0
          /\ entries[e].period \in Periods
      BY <1>1, EntryTypes
    <3>2. y \in Entry /\ y.status = "REVERSED" /\ y.period = entries[e].period
      BY <1>1, <3>1 DEF Entry
    <3>3. x \in Entry /\ x.of = e /\ x.period = entries[e].period
      BY <1>1, <3>1 DEF entry, Entry
    <3>4. entries' = Append([entries EXCEPT ![e] = y], x) /\ touched' = touched
      BY <2>1 DEF reverseJournal, setStatus
    <3> HIDE DEF x, y
    <3>5. /\ entries'[e] = y
          /\ \/ r \in DOMAIN entries /\ entries'[r] = entries[r]
             \/ entries'[r] = y
             \/ entries'[r] = x
      BY <1>1, <3>2, <3>3, <3>4, PutAppendedRow
    <3> QED
      BY <3>1, <3>2, <3>3, <3>4, <3>5 DEF Known
  <2>2. ASSUME NEW e \in DOMAIN entries,
               NEW from \in {"DRAFT", "SUBMITTED", "APPROVED", "REJECTED"},
               NEW to \in {"DRAFT", "SUBMITTED", "APPROVED", "REJECTED"},
               journalWorkflow(e, from, to)
        PROVE  Known
    <3>1. to \in EntryStatuses \ {"POSTED"}
      BY DEF EntryStatuses
    <3> QED
      BY <1>6, <2>2, <3>1 DEF journalWorkflow
  <2>3. CASE \/ \E q \in Requests, t \in Periods, x \in Amounts, op \in {"post", "new"} :
                  startManualJournal(q, op, x, t)
             \/ \E e \in DOMAIN entries, q \in Requests :
                  \/ readDraft(q, e) \/ startVoid(q, "void", e, {})
                  \/ \E x \in Corrections, t \in Periods : readForUpdate(q, e, x, t)
    BY <1>2, <2>3 DEF startManualJournal, readDraft, startVoid, readForUpdate, begin
  <2> QED
    BY <1>9, <2>1, <2>2, <2>3 DEF journals, Known
<1>10. CASE advances
  <2>1. PICK q \in Requests, a \in Advances :
          \/ \E t \in Periods : startCashAdvance(q, a, t)
          \/ \E t \in Periods, x \in Settlements : startSettlement(q, a, x, t)
          \/ startVoidAdvance(q, a)
          \/ createCashAdvance(q, a) \/ settleCashAdvance(q, a) \/ voidCashAdvance(q, a)
    BY <1>10 DEF advances
  <2>2. CASE \/ \E t \in Periods : startCashAdvance(q, a, t)
             \/ \E t \in Periods, x \in Settlements : startSettlement(q, a, x, t)
             \/ startVoidAdvance(q, a)
    BY <1>2, <2>2 DEF startCashAdvance, startSettlement, startVoidAdvance, startVoid, begin
  <2>3. CASE createCashAdvance(q, a)
    <3>1. request[q].amount \in Int /\ request[q].op \in Posting
      BY <1>1, <2>3, FlightKinds DEF createCashAdvance, Posting
    <3> QED
      BY <1>1, <1>4, <2>3, <3>1 DEF createCashAdvance, Known, Begun
  <2>4. CASE settleCashAdvance(q, a)
    <3>1. -request[q].amount \in Int /\ request[q].op \in Posting
      BY <1>1, <2>4, FlightKinds DEF settleCashAdvance, Posting
    <3> QED
      BY <1>1, <1>4, <2>4, <3>1 DEF settleCashAdvance, Known, Begun
  <2>5. CASE voidCashAdvance(q, a)
    BY <1>7, <2>5 DEF voidCashAdvance, Voiding, Known, Begun
  <2> QED
    BY <2>1, <2>2, <2>3, <2>4, <2>5 DEF Known, Begun
<1>11. CASE recordRoutes
  <2>1. ASSUME NEW t \in Periods, createRecord(t) PROVE Known
    <3>1. /\ entry(0, t, "DRAFT", 0, 0) \in Entry
          /\ entry(0, t, "DRAFT", 0, 0).status = "DRAFT"
      BY <1>1 DEF entry, Entry
    <3>2. entries' = Append(entries, entry(0, t, "DRAFT", 0, 0)) /\ touched \subseteq touched'
      BY <2>1 DEF createRecord, touch
    <3>3. r \in DOMAIN entries /\ entries'[r] = entries[r]
      BY <1>1, <3>1, <3>2, AppendedRow
    <3> QED
      BY <3>2, <3>3 DEF Known
  <2>2. ASSUME NEW e \in DOMAIN entries, NEW y \in Entry, patch(e, y) PROVE Known
    BY <1>3, <2>2 DEF patch, touch
  <2>3. ASSUME NEW e \in DOMAIN entries, NEW t \in Periods,
               patch(e, [entries[e] EXCEPT !.period = t])
        PROVE  Known
    <3>1. [entries[e] EXCEPT !.period = t] \in Entry
      BY <1>1, EntryTypes DEF Entry
    <3> QED
      BY <2>2, <2>3, <3>1
  <2>4. ASSUME NEW e \in DOMAIN entries, NEW o \in 0..Len(entries),
               patch(e, [entries[e] EXCEPT !.of = o])
        PROVE  Known
    <3>1. entries[e] \in Entry /\ o \in Nat
      BY <1>1, EntryTypes
    <3>2. [entries[e] EXCEPT !.of = o] \in Entry
      BY <3>1 DEF Entry
    <3> QED
      BY <2>2, <2>4, <3>2
  <2>5. ASSUME NEW e \in DOMAIN entries, submitRecord(e) PROVE Known
    <3>1. "SUBMITTED" \in EntryStatuses \ {"POSTED"}
      BY DEF EntryStatuses
    <3> QED
      BY <1>6, <2>5, <3>1 DEF submitRecord, touch
  <2> QED
    BY <1>11, <2>1, <2>3, <2>4, <2>5 DEF recordRoutes, Known
<1>12. CASE \E q \in Requests : writes(q) \/ rollback(q)
  <2>1. PICK q \in Requests : writes(q) \/ rollback(q)
    BY <1>12
  <2>2. CASE postDraftJournal(q)
    <3>1. PICK e : e = request[q].entry
      OBVIOUS
    <3> DEFINE y == [entries[e] EXCEPT !.status = "VOID"]
    <3>2. /\ e \in DOMAIN entries /\ e \in Nat /\ entries[e] \in Entry
          /\ request[q].amount \in Int /\ request[q].op \in Posting
      BY <1>1, <2>2, <3>1, FlightKinds, EntryTypes
         DEF postDraftJournal, PointersOK, Reading, Posting
    <3>3. y \in Entry /\ y.status = "VOID"
      BY <1>1, <3>2, MarkedRow
    <3>4. /\ entries' = Append([entries EXCEPT ![e] = y],
                               entry(request[q].amount, request[q].period, "POSTED", 0, e))
          /\ touched' = touched
      BY <2>2, <3>1 DEF postDraftJournal, setStatus
    <3> HIDE DEF y
    <3> QED
      BY <1>1, <1>5, <3>2, <3>3, <3>4 DEF Known, Begun
  <2>3. CASE updateJournal(q)
    <3>1. PICK e, m, t : e = request[q].entry /\ m = request[q].amount /\ t = request[q].period
      OBVIOUS
    <3> DEFINE y == [entries[e] EXCEPT !.amount = m, !.period = t]
    <3>2. /\ e \in DOMAIN entries /\ entries[e] \in Entry /\ m \in Int /\ t \in Periods
          /\ entries[e].status # "POSTED"
      BY <1>1, <2>3, <3>1, FlightKinds, EntryTypes
         DEF updateJournal, PointersOK, Reading, FlightInv
    <3>3. y \in Entry /\ y.status # "POSTED"
      BY <3>2 DEF Entry
    <3>4. entries' = [entries EXCEPT ![e] = y] /\ touched' = touched
      BY <1>1, <2>3, <3>1, <3>2, TwoColumns DEF updateJournal
    <3> HIDE DEF y
    <3> QED
      BY <1>3, <3>2, <3>3, <3>4
  <2>4. CASE createManualJournal(q)
    <3>1. PICK st : st = IF request[q].op = "new" THEN "DRAFT" ELSE "POSTED"
      OBVIOUS
    <3>2. /\ request[q].amount \in Int /\ st \in EntryStatuses
          /\ st = "POSTED" => request[q].op \in Posting
      BY <1>1, <2>4, <3>1, FlightKinds DEF createManualJournal, Posting
    <3>3. entries' = Append(entries, entry(request[q].amount, request[q].period, st, 0, 0))
          /\ touched' = touched
      BY <2>4, <3>1 DEF createManualJournal
    <3> QED
      BY <1>4, <3>2, <3>3 DEF Known, Begun
  <2>5. CASE voidJournal(q)
    BY <1>7, <2>5 DEF voidJournal, Voiding, Known, Begun
  <2>6. CASE rollback(q)
    BY <1>2, <2>6 DEF rollback
  <2> QED
    BY <2>1, <2>2, <2>3, <2>4, <2>5, <2>6 DEF writes, Known, Begun
<1> QED
  BY <1>8, <1>9, <1>10, <1>11, <1>12 DEF LedgerNext, Known, Begun

\* assertPeriodOpen: once a period is not open and the postings that found it
\* open have ended, no posting begins in it and nothing comes to stand in it
\* but reversals of its own entries, until it is opened again.
THEOREM ShutPeriodsStayShut == JournalSpec => ShutTakesReversalsOnly
<1>1. ASSUME LedgerInv, [LedgerNext]_ledgerVars, NEW p \in Periods, Shut(p),
             period'[p] # "OPEN"
      PROVE  /\ Shut(p)'
             /\ \A r \in postedIn(p)' \ postedIn(p) :
                  entries'[r].of # 0 /\ entries'[entries'[r].of].period = p
  <2>1. RowsOK
    BY <1>1 DEF LedgerInv
  <2>2. ASSUME NEW q \in Requests, request'[q].op \in Posting PROVE request'[q].period # p
    BY <1>1, <2>1, <2>2, BeginsOpen DEF Shut
  <2>3. Shut(p)'
    BY <1>1, <2>2 DEF Shut
  <2>4. ASSUME NEW r \in postedIn(p)' \ postedIn(p)
        PROVE  entries'[r].of # 0 /\ entries'[entries'[r].of].period = p
    <3>1. /\ r \in DOMAIN entries' /\ r \notin touched' /\ entries'[r].status = "POSTED"
          /\ entries'[r].period = p
      BY <2>4 DEF postedIn
    <3>2. ~\E q \in Requests : request[q].op \in Posting /\ request[q].period = p
      BY <1>1 DEF Shut
    <3>3. ~(/\ r \in DOMAIN entries /\ r \notin touched /\ entries[r].status = "POSTED"
            /\ entries'[r].period = entries[r].period)
      BY <2>4, <3>1 DEF postedIn
    <3> QED
      BY <1>1, <3>1, <3>2, <3>3, NextRows
  <2> QED
    BY <2>3, <2>4
<1>2. LedgerInv /\ [LedgerNext]_ledgerVars =>
        [\A p \in Periods : Shut(p) /\ period'[p] # "OPEN" =>
           /\ Shut(p)'
           /\ \A r \in postedIn(p)' \ postedIn(p) :
                entries'[r].of # 0 /\ entries'[entries'[r].of].period = p]_ledgerVars
  BY <1>1
<1> QED
  BY <1>2, LedgerInvariant, PTL DEF JournalSpec, ShutTakesReversalsOnly

=============================================================================
