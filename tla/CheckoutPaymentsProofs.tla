------------------------ MODULE CheckoutPaymentsProofs ------------------------
(***************************************************************************)
(* SalesArePaid, LinkedSaleIsPosted and PostedOnce of CheckoutPayments for  *)
(* any number of sessions, carts and requests.                              *)
(*                                                                          *)
(* The three stand on what a request may conclude from the copy of the row  *)
(* it has loaded (RequestKnows): that its session was paid, since reports   *)
(* are of things that have happened; that a sale it saw linked still is;    *)
(* and, unless it is behind, that no sale was linked since.  The invoice    *)
(* number of a request that has inserted its sale is the next one, because  *)
(* the unique constraint lets one in at a time (Numbers).                   *)
(***************************************************************************)
EXTENDS CheckoutPayments, FiniteSetTheorems, TLAPS

Booking == {"locked", "counted", "lockedCounted", "inserted", "lockedIn"}

\* What a request that is under way may conclude from its copy of the row.
RequestKnows(r) ==
    LET s == job[r].session IN
    pc[r] # "idle" =>
        /\ job[r] \in Jobs /\ rec[s] # NoRecord
        /\ pc[r] \in Booking \cup {"attempt"} \/ job[r].report = "CONFIRMED" => Paid(s)
        /\ job[r].sale # 0 => rec[s].sale # 0
        /\ r \notin behind /\ job[r].sale = 0 => rec[s].sale = 0
        /\ pc[r] \in Booking => job[r].sale = 0
        /\ pc[r] = "reported" => job[r].report \in Failures \cup {"CONFIRMED", Pending}
        /\ pc[r] = "writing" => job[r].report = "CANCELED"

\* One request at a time holds a number, which is the next one.
Numbers ==
    /\ \A r \in Requests : HasNumber(r) => job[r].number = Len(sales) + 1
    /\ \A r, o \in Requests : HasNumber(r) /\ HasNumber(o) => r = o
    /\ \A r \in Requests : Counted(r) => job[r].number \in 1 .. Len(sales) + 1

\* What the row of a session and the sales made for it say of each other.
SessionRight(s) ==
    /\ rec[s] # NoRecord =>
         /\ rec[s].life \in {"CONFIRMED", "FINALIZED"} => Paid(s)
         /\ rec[s].life = "FINALIZED" => rec[s].sale # 0
         /\ rec[s].sale # 0 =>
              rec[s].sale \in DOMAIN sales /\ sales[rec[s].sale].session = s /\ sales[rec[s].sale].posted
    /\ \A n \in DOMAIN sales : sales[n].session = s => Paid(s)
    /\ s \notin raced =>
         \A n \in DOMAIN sales : sales[n].session = s /\ sales[n].posted => rec[s] # NoRecord /\ n = rec[s].sale

PayInv ==
    /\ TypeOK /\ DOMAIN left = Carts
    /\ \A r \in Requests : RequestKnows(r)
    /\ Numbers
    /\ \A s \in Sessions : SessionRight(s)

-----------------------------------------------------------------------------
(* Rows. *)

\* A session's row, with its status or its sale written.
LEMMA RowWritten ==
    ASSUME NEW row \in Records, NEW life \in Lifecycle
    PROVE  /\ row # NoRecord
           /\ [row EXCEPT !.life = life] \in Records
           /\ [row EXCEPT !.life = life].life = life
           /\ [row EXCEPT !.life = life].sale = row.sale
<1>1. row.life \in Lifecycle /\ NoRecord.life = "none" /\ "none" \notin Lifecycle
  BY DEF Records, NoRecord, Lifecycle, Pending
<1>2. row # NoRecord
  BY <1>1
<1> QED
  BY <1>2 DEF Records

\* The row of a new session.
LEMMA NewRowTypes ==
    ASSUME NEW c \in Carts, NEW till \in Sessions
    PROVE  /\ NewRecord(c, till) \in Records
           /\ NewRecord(c, till).life = "ACTION_READY" /\ NewRecord(c, till).sale = 0
BY DEF NewRecord, Records, Lifecycle

\* What the types say of a known session and of a request under way.
LEMMA Typed ==
    ASSUME PayInv
    PROVE  /\ rec \in [Sessions -> Records \cup {NoRecord}]
           /\ \A s \in Sessions : rec[s] # NoRecord => rec[s] \in Records
           /\ happened \in [Sessions -> SUBSET (Failures \cup {"CONFIRMED"})]
           /\ sales \in Seq([session : Sessions, posted : BOOLEAN])
           /\ pc \in [Requests -> Places] /\ job \in [Requests -> Jobs \cup {NoJob}]
           /\ \A r \in Requests : pc[r] # "idle" =>
                 job[r] \in Jobs /\ job[r].session \in Sessions /\ job[r].sale \in Nat /\ rec[job[r].session] \in Records
<1>1. /\ rec \in [Sessions -> Records \cup {NoRecord}]
      /\ happened \in [Sessions -> SUBSET (Failures \cup {"CONFIRMED"})]
      /\ sales \in Seq([session : Sessions, posted : BOOLEAN])
      /\ pc \in [Requests -> Places] /\ job \in [Requests -> Jobs \cup {NoJob}]
  BY DEF PayInv, TypeOK
<1>2. \A s \in Sessions : rec[s] # NoRecord => rec[s] \in Records
  BY <1>1
<1>3. ASSUME NEW r \in Requests, pc[r] # "idle"
      PROVE  job[r] \in Jobs /\ job[r].session \in Sessions /\ job[r].sale \in Nat /\ rec[job[r].session] # NoRecord
  <2>1. job[r] \in Jobs /\ rec[job[r].session] # NoRecord
    BY <1>3 DEF PayInv, RequestKnows
  <2> QED
    BY <2>1 DEF Jobs
<1> QED
  BY <1>1, <1>2, <1>3

-----------------------------------------------------------------------------
(* Steps that leave the requests alone or end one. *)

\* Every request is where it was, or at rest.
Resting ==
    /\ pc' \in [Requests -> Places] /\ job' \in [Requests -> Jobs \cup {NoJob}] /\ behind' \subseteq Requests
    /\ \A q \in Requests :
         \/ pc'[q] = "idle"
         \/ pc'[q] = pc[q] /\ job'[q] = job[q] /\ (q \in behind => q \in behind')

\* Rows stay, with the sale they are linked to, and what has happened stays so.
Kept ==
    /\ \A s \in Sessions : rec[s] # NoRecord => rec'[s] # NoRecord /\ rec'[s].sale = rec[s].sale
    /\ \A s \in Sessions : happened[s] \subseteq happened'[s]

\* A request that ends is at rest.
LEMMA EndRests ==
    ASSUME PayInv, NEW r \in Requests, End(r), behind' = behind \ {r}
    PROVE  Resting
<1>1. pc \in [Requests -> Places] /\ job \in [Requests -> Jobs \cup {NoJob}] /\ behind \subseteq Requests
  BY DEF PayInv, TypeOK
<1>2. pc' = [pc EXCEPT ![r] = "idle"] /\ job' = [job EXCEPT ![r] = NoJob]
  BY DEF End
<1>3. pc' \in [Requests -> Places] /\ job' \in [Requests -> Jobs \cup {NoJob}]
  BY <1>1, <1>2 DEF Places
<1> QED
  BY <1>1, <1>2, <1>3 DEF Resting

\* So is one that nothing touches.
LEMMA StillRests ==
    ASSUME PayInv, UNCHANGED <<pc, job, behind>>
    PROVE  Resting
BY DEF PayInv, TypeOK, Resting

\* A request at rest knows what it knew.
LEMMA RestingKnows ==
    ASSUME PayInv, Resting, Kept
    PROVE  \A q \in Requests : RequestKnows(q)'
<1> SUFFICES ASSUME NEW q \in Requests, pc'[q] # "idle" PROVE RequestKnows(q)'
  BY DEF RequestKnows
<1>1. pc'[q] = pc[q] /\ job'[q] = job[q] /\ (q \in behind => q \in behind')
  BY DEF Resting
<1>2. job[q].session \in Sessions /\ RequestKnows(q)
  BY <1>1, Typed DEF PayInv
<1> DEFINE s == job[q].session
<1>3. /\ job[q] \in Jobs /\ rec[s] # NoRecord
      /\ pc[q] \in Booking \cup {"attempt"} \/ job[q].report = "CONFIRMED" => Paid(s)
      /\ job[q].sale # 0 => rec[s].sale # 0
      /\ q \notin behind /\ job[q].sale = 0 => rec[s].sale = 0
      /\ pc[q] \in Booking => job[q].sale = 0
      /\ pc[q] = "reported" => job[q].report \in Failures \cup {"CONFIRMED", Pending}
      /\ pc[q] = "writing" => job[q].report = "CANCELED"
  BY <1>1, <1>2 DEF RequestKnows
<1>4. rec'[s] # NoRecord /\ rec'[s].sale = rec[s].sale
  BY <1>2, <1>3 DEF Kept
<1>5. Paid(s) => "CONFIRMED" \in happened'[s]
  BY <1>2 DEF Kept, Paid
<1>6. job'[q].session = s
  BY <1>1
<1> HIDE DEF s
<1> QED
  BY <1>1, <1>3, <1>4, <1>5, <1>6 DEF RequestKnows, Paid

\* Nobody gets a number by resting.
LEMMA RestingNumbers ==
    ASSUME PayInv, Resting, sales' = sales
    PROVE  Numbers'
<1>1. \A q \in Requests : \/ ~HasNumber(q)' /\ ~Counted(q)'
                          \/ /\ HasNumber(q)' => HasNumber(q)
                             /\ Counted(q)' => Counted(q)
                             /\ job'[q] = job[q]
  BY DEF Resting, HasNumber, Counted
<1>2. Numbers
  BY DEF PayInv
<1> QED
  BY <1>1, <1>2 DEF Numbers

\* A session whose row and sales are as they were is right.
LEMMA RightStays ==
    ASSUME NEW s \in Sessions, SessionRight(s), rec'[s] = rec[s], sales' = sales, raced' = raced, Kept
    PROVE  SessionRight(s)'
<1>1. Paid(s) => Paid(s)'
  BY DEF Kept, Paid
<1> QED
  BY <1>1 DEF SessionRight

\* A request ends and writes nothing.
LEMMA RequestEnds ==
    ASSUME PayInv, NEW r \in Requests, End(r), behind' = behind \ {r},
           UNCHANGED <<rec, happened, sales, left, closed, raced>>, deaths' \in 0 .. MaxDeaths
    PROVE  PayInv'
<1>1. Resting
  BY EndRests
<1>2. Kept
  BY DEF Kept
<1>3. \A q \in Requests : RequestKnows(q)'
  BY <1>1, <1>2, RestingKnows
<1>4. Numbers'
  BY <1>1, RestingNumbers
<1>5. \A s \in Sessions : SessionRight(s)'
  BY <1>2, RightStays DEF PayInv
<1>6. TypeOK' /\ DOMAIN left' = Carts
  BY <1>1 DEF PayInv, TypeOK, Resting
<1> QED
  BY <1>3, <1>4, <1>5, <1>6 DEF PayInv

-----------------------------------------------------------------------------
(* Steps of one request that write no row. *)

Numbered == {"counted", "lockedCounted", "inserted", "lockedIn"}

\* A request that has no number after its step changes nothing about numbers.
LEMMA MovedNumbers ==
    ASSUME PayInv, NEW r \in Requests, NEW j, NEW p, p \notin Numbered, sales' = sales,
           job' = [job EXCEPT ![r] = j], pc' = [pc EXCEPT ![r] = p]
    PROVE  Numbers'
<1>1. pc \in [Requests -> Places] /\ job \in [Requests -> Jobs \cup {NoJob}]
  BY Typed
<1>2. pc'[r] \notin Numbered /\ \A q \in Requests \ {r} : pc'[q] = pc[q] /\ job'[q] = job[q]
  BY <1>1
<1>3. \A q \in Requests : \/ ~HasNumber(q)' /\ ~Counted(q)'
                          \/ /\ HasNumber(q)' => HasNumber(q)
                             /\ Counted(q)' => Counted(q)
                             /\ job'[q] = job[q]
  BY <1>2 DEF Numbered, HasNumber, Counted
<1>4. Numbers
  BY DEF PayInv
<1> QED
  BY <1>3, <1>4 DEF Numbers

\* A step of one request that writes no row: what it then knows is all there is to show.
LEMMA RequestMoves ==
    ASSUME PayInv, NEW r \in Requests, NEW j \in Jobs, NEW p \in Places,
           job' = [job EXCEPT ![r] = j], pc' = [pc EXCEPT ![r] = p],
           UNCHANGED <<rec, happened, sales, left, closed, behind, raced, deaths>>,
           RequestKnows(r)', Numbers'
    PROVE  PayInv'
<1>1. pc \in [Requests -> Places] /\ job \in [Requests -> Jobs \cup {NoJob}]
  BY Typed
<1>2. pc' \in [Requests -> Places] /\ job' \in [Requests -> Jobs \cup {NoJob}]
  BY <1>1
<1>3. TypeOK' /\ DOMAIN left' = Carts
  BY <1>2 DEF PayInv, TypeOK
<1>4. \A q \in Requests : RequestKnows(q)'
  <2> SUFFICES ASSUME NEW q \in Requests \ {r} PROVE RequestKnows(q)'
    OBVIOUS
  <2>1. pc'[q] = pc[q] /\ job'[q] = job[q] /\ RequestKnows(q)
    BY <1>1 DEF PayInv
  <2> QED
    BY <2>1 DEF RequestKnows, Paid
<1>5. \A s \in Sessions : SessionRight(s)'
  BY DEF PayInv, SessionRight, Paid
<1> QED
  BY <1>3, <1>4, <1>5 DEF PayInv

\* A request that has just loaded its row knows what the row says.
LEMMA Begins ==
    ASSUME PayInv, NEW r \in Requests, NEW s \in Sessions, NEW report \in Lifecycle \cup {"none"},
           NEW where \in {"reported", "polling", "attempt", "writing", "retrying"},
           Begin(r, s, report, where),
           where = "attempt" \/ report = "CONFIRMED" => Paid(s),
           where = "reported" => report \in Failures \cup {"CONFIRMED", Pending},
           where = "writing" => report = "CANCELED"
    PROVE  PayInv'
<1> DEFINE j == Loaded(s, report)
<1>1. /\ rec[s] # NoRecord /\ job' = [job EXCEPT ![r] = j] /\ pc' = [pc EXCEPT ![r] = where]
      /\ UNCHANGED <<rec, happened, sales, left, closed, behind, raced, deaths>>
  BY DEF Begin, Known
<1>2. rec[s] \in Records
  BY <1>1, Typed
<1>3. /\ j \in Jobs /\ j.session = s /\ j.report = report /\ j.sale = rec[s].sale
  BY <1>2 DEF Loaded, Jobs, Records
<1>4. pc'[r] = where /\ job'[r] = j
  BY <1>1, Typed
<1> HIDE DEF j
<1>5. RequestKnows(r)'
  BY <1>1, <1>3, <1>4 DEF RequestKnows, Booking, Paid
<1>6. where \in Places /\ where \notin Numbered
  BY DEF Places, Numbered
<1>7. Numbers'
  BY <1>1, <1>6, MovedNumbers
<1> QED
  BY <1>1, <1>3, <1>5, <1>6, <1>7, RequestMoves

\* The five ways a request begins.
LEMMA ArriveInv ==
    ASSUME PayInv, NEW r \in Requests, Arrive(r)
    PROVE  PayInv'
<1>1. PICK s \in Sessions :
        \/ \E e \in Failures \cup {"CONFIRMED", Pending} : Webhook(r, s, e)
        \/ Refresh(r, s) \/ Finalize(r, s) \/ Cancel(r, s) \/ Retry(r, s)
  BY DEF Arrive
<1>2. Failures \cup {"CONFIRMED", Pending, "CANCELED"} \subseteq Lifecycle
  BY PaymentsAssumption DEF Lifecycle, Pending
<1>3. ASSUME NEW e \in Failures \cup {"CONFIRMED", Pending}, Webhook(r, s, e)
      PROVE  PayInv'
  <2>1. Begin(r, s, e, "reported") /\ (e = "CONFIRMED" => Paid(s))
    BY <1>3 DEF Webhook, Paid, Pending
  <2> QED
    BY <1>2, <2>1, Begins
<1>4. CASE Refresh(r, s) \/ Retry(r, s)
  <2>1. Begin(r, s, "none", "polling") \/ Begin(r, s, "none", "retrying")
    BY <1>4 DEF Refresh, Retry
  <2> QED
    BY <2>1, Begins
<1>5. CASE Finalize(r, s)
  <2>1. Begin(r, s, "none", "attempt") /\ rec[s] # NoRecord /\ rec[s].life \in {"CONFIRMED", "FINALIZED"}
    BY <1>5 DEF Finalize, Known
  <2>2. Paid(s)
    BY <2>1 DEF PayInv, SessionRight
  <2> QED
    BY <2>1, <2>2, Begins
<1>6. CASE Cancel(r, s)
  <2>1. Begin(r, s, "CANCELED", "writing")
    BY <1>6 DEF Cancel
  <2> QED
    BY <1>2, <2>1, Begins
<1> QED
  BY <1>1, <1>3, <1>4, <1>5, <1>6

\* A request that asked the provider has the answer.
LEMMA AnsweredInv ==
    ASSUME PayInv, NEW r \in Requests, Answered(r)
    PROVE  PayInv'
<1> DEFINE s == job[r].session
<1>1. PICK e \in Latest(s) : job' = [job EXCEPT ![r].report = e]
  BY DEF Answered
<1> DEFINE j == [job[r] EXCEPT !.report = e]
<1>2. /\ pc[r] = "polling" /\ pc' = [pc EXCEPT ![r] = "reported"] /\ job' = [job EXCEPT ![r] = j]
      /\ UNCHANGED <<rec, happened, sales, left, closed, behind, raced, deaths>>
  BY <1>1, Typed DEF Answered
<1>3. job[r] \in Jobs /\ s \in Sessions
  BY <1>2, Typed
<1>4. e \in Failures \cup {"CONFIRMED", Pending} /\ (e = "CONFIRMED" => Paid(s))
  <2>1. happened[s] \subseteq Failures \cup {"CONFIRMED"}
    BY <1>3, Typed
  <2> QED
    BY <1>1, <2>1 DEF Latest, Paid, Pending
<1>5. e \in Lifecycle
  BY <1>4, PaymentsAssumption DEF Lifecycle, Pending
<1>6. j \in Jobs /\ j.session = s /\ j.report = e /\ j.sale = job[r].sale
  BY <1>3, <1>5 DEF Jobs
<1>7. pc'[r] = "reported" /\ job'[r] = j
  BY <1>2, Typed
<1> HIDE DEF j
<1>8. RequestKnows(r)'
  <2>1. RequestKnows(r)
    BY DEF PayInv
  <2> QED
    BY <1>2, <1>4, <1>6, <1>7, <2>1 DEF RequestKnows, Booking, Paid
<1>9. "reported" \in Places /\ "reported" \notin Numbered
  BY DEF Places, Numbered
<1>10. Numbers'
  BY <1>2, <1>9, MovedNumbers
<1> QED
  BY <1>2, <1>6, <1>8, <1>9, <1>10, RequestMoves

\* A confirmed report has locked the row.
LEMMA ConfirmInv ==
    ASSUME PayInv, NEW r \in Requests, Confirm(r)
    PROVE  PayInv'
<1>1. /\ pc[r] = "reported" /\ job[r].report = "CONFIRMED" /\ job[r].sale = 0
      /\ pc' = [pc EXCEPT ![r] = "locked"] /\ job' = job
      /\ UNCHANGED <<rec, happened, sales, left, closed, behind, raced, deaths>>
  BY DEF Confirm, Unfinished
<1>2. job' = [job EXCEPT ![r] = job[r]] /\ job[r] \in Jobs
  BY <1>1, Typed
<1>3. pc'[r] = "locked" /\ job'[r] = job[r]
  BY <1>1, Typed
<1>4. RequestKnows(r)'
  <2>1. RequestKnows(r)
    BY DEF PayInv
  <2> QED
    BY <1>1, <1>3, <2>1 DEF RequestKnows, Paid
<1>5. "locked" \in Places /\ "locked" \notin Numbered
  BY DEF Places, Numbered
<1>6. Numbers'
  BY <1>1, <1>2, <1>5, MovedNumbers
<1> QED
  BY <1>1, <1>2, <1>4, <1>5, <1>6, RequestMoves

\* A request has counted the sales.
LEMMA CountInv ==
    ASSUME PayInv, NEW r \in Requests, CountSales(r)
    PROVE  PayInv'
<1> DEFINE j == [job[r] EXCEPT !.number = Len(sales) + 1]
           p == IF pc[r] = "locked" THEN "lockedCounted" ELSE "counted"
<1>1. /\ pc[r] \in {"locked", "attempt"} /\ job[r].sale = 0
      /\ pc' = [pc EXCEPT ![r] = p] /\ job' = [job EXCEPT ![r] = j]
      /\ UNCHANGED <<rec, happened, sales, left, closed, behind, raced, deaths>>
  BY Typed DEF CountSales, Unfinished
<1>2. job[r] \in Jobs /\ Len(sales) \in Nat
  BY <1>1, Typed
<1>3. /\ j \in Jobs /\ j.session = job[r].session /\ j.report = job[r].report /\ j.sale = job[r].sale
      /\ j.number = Len(sales) + 1
  BY <1>2 DEF Jobs
<1>4. p \in {"lockedCounted", "counted"}
  OBVIOUS
<1>5. pc'[r] = p /\ job'[r] = j /\ \A q \in Requests \ {r} : pc'[q] = pc[q] /\ job'[q] = job[q]
  BY <1>1, Typed
<1> HIDE DEF j, p
<1>6. RequestKnows(r)'
  <2>1. RequestKnows(r)
    BY DEF PayInv
  <2> QED
    BY <1>1, <1>3, <1>4, <1>5, <2>1 DEF RequestKnows, Booking, Paid
<1>7. p \in Places
  BY <1>4 DEF Places
<1>8. Numbers'
  <2>1. Numbers
    BY DEF PayInv
  <2>2. ~HasNumber(r)' /\ job'[r].number \in 1 .. Len(sales) + 1
    BY <1>2, <1>3, <1>4, <1>5 DEF HasNumber
  <2>3. \A q \in Requests \ {r} : /\ HasNumber(q)' = HasNumber(q) /\ Counted(q)' = Counted(q)
                                  /\ job'[q] = job[q]
    BY <1>5 DEF HasNumber, Counted
  <2> QED
    BY <1>1, <2>1, <2>2, <2>3 DEF Numbers
<1> QED
  BY <1>1, <1>3, <1>6, <1>7, <1>8, RequestMoves

\* A request has inserted its sale: the unique constraint holds the next number for it alone.
LEMMA InsertInv ==
    ASSUME PayInv, NEW r \in Requests, InsertSale(r)
    PROVE  PayInv'
<1> DEFINE p == IF pc[r] = "lockedCounted" THEN "lockedIn" ELSE "inserted"
<1>1. /\ Counted(r) /\ ~NumberTaken(job[r].number) /\ ~NumberHeld(job[r].number)
      /\ pc' = [pc EXCEPT ![r] = p] /\ job' = job
      /\ UNCHANGED <<rec, happened, sales, left, closed, behind, raced, deaths>>
  BY DEF InsertSale
<1>2. p \in {"lockedIn", "inserted"} /\ pc[r] \in Booking /\ pc[r] # "idle"
  BY <1>1 DEF Counted, Booking
<1>3. pc'[r] = p /\ \A q \in Requests \ {r} : pc'[q] = pc[q]
  BY <1>1, Typed
<1> HIDE DEF p
<1>4. job' = [job EXCEPT ![r] = job[r]] /\ job[r] \in Jobs
  BY <1>1, <1>2, Typed
<1>5. RequestKnows(r)'
  <2>1. RequestKnows(r)
    BY DEF PayInv
  <2> QED
    BY <1>1, <1>2, <1>3, <2>1 DEF RequestKnows, Booking, Paid
<1>6. p \in Places
  BY <1>2 DEF Places
<1>7. Numbers'
  <2>1. Numbers
    BY DEF PayInv
  <2>2. job[r].number = Len(sales) + 1
    <3>1. job[r].number \in 1 .. Len(sales) + 1 /\ ~(job[r].number <= Len(sales)) /\ Len(sales) \in Nat
      BY <1>1, <2>1, Typed DEF Numbers, NumberTaken
    <3> QED
      BY <3>1
  <2>3. \A q \in Requests : ~HasNumber(q)
    BY <1>1, <2>1, <2>2 DEF Numbers, NumberHeld
  <2>4. \A q \in Requests \ {r} : HasNumber(q)' = HasNumber(q) /\ Counted(q)' = Counted(q)
    BY <1>3 DEF HasNumber, Counted
  <2>5. ~Counted(r)'
    BY <1>2, <1>3 DEF Counted
  <2> QED
    BY <1>1, <2>1, <2>2, <2>3, <2>4, <2>5 DEF Numbers
<1> QED
  BY <1>1, <1>4, <1>5, <1>6, <1>7, RequestMoves

-----------------------------------------------------------------------------
(* Steps that write the session's row and no sale. *)

\* A row changes, or is made, and the requests rest.
LEMMA RowChanges ==
    ASSUME PayInv, Resting, NEW s \in Sessions, NEW row \in Records,
           rec' \in {rec, [rec EXCEPT ![s] = row]},
           rec[s] # NoRecord => row.sale = rec[s].sale,
           rec[s] = NoRecord => row.sale = 0,
           row.life \in {"CONFIRMED", "FINALIZED"} => Paid(s),
           row.life = "FINALIZED" => row.sale # 0,
           UNCHANGED <<happened, sales, left, closed, raced, deaths>>
    PROVE  PayInv'
<1>1. row # NoRecord /\ rec \in [Sessions -> Records \cup {NoRecord}]
  BY RowWritten, Typed DEF Lifecycle
<1>2. \A t \in Sessions \ {s} : rec'[t] = rec[t]
  BY <1>1
<1>3. rec'[s] = rec[s] \/ rec'[s] = row
  BY <1>1
<1>4. Kept
  BY <1>1, <1>2, <1>3 DEF Kept
<1>5. \A q \in Requests : RequestKnows(q)'
  BY <1>4, RestingKnows
<1>6. Numbers'
  BY RestingNumbers
<1>7. \A t \in Sessions \ {s} : SessionRight(t)'
  BY <1>2, <1>4, RightStays DEF PayInv
<1>8. SessionRight(s)'
  <2>1. SessionRight(s)
    BY DEF PayInv
  <2>2. CASE rec'[s] = rec[s]
    BY <1>4, <2>1, <2>2, RightStays
  <2>3. CASE rec'[s] = row
    <3>1. Paid(s)' = Paid(s)
      BY DEF Paid
    <3>2. CASE rec[s] = NoRecord
      <4>1. \A n \in DOMAIN sales : sales[n].session = s /\ sales[n].posted => s \in raced
        BY <2>1, <3>2 DEF SessionRight
      <4> QED
        BY <1>1, <2>1, <2>3, <3>1, <3>2, <4>1 DEF SessionRight
    <3>3. CASE rec[s] # NoRecord
      BY <1>1, <2>1, <2>3, <3>1, <3>3 DEF SessionRight
    <3> QED
      BY <3>2, <3>3
  <2> QED
    BY <1>3, <2>2, <2>3
<1>9. rec' \in [Sessions -> Records \cup {NoRecord}]
  BY <1>1
<1>10. TypeOK' /\ DOMAIN left' = Carts
  BY <1>9 DEF PayInv, TypeOK, Resting
<1> QED
  BY <1>5, <1>6, <1>7, <1>8, <1>10 DEF PayInv

\* A request writes the status of its session, as what it loaded and what it knows allow.
LEMMA LifeWritten ==
    ASSUME PayInv, NEW r \in Requests, pc[r] # "idle", NEW life \in Lifecycle,
           rec' = WithLife(r, life), Finish(r), UNCHANGED <<sales, left>>,
           life \in {"CONFIRMED", "FINALIZED"} => Paid(job[r].session),
           life = "FINALIZED" => job[r].sale # 0
    PROVE  PayInv'
<1> DEFINE s == job[r].session
           row == [rec[s] EXCEPT !.life = life]
<1>1. s \in Sessions /\ rec[s] \in Records
  BY Typed
<1>2. row \in Records /\ row.life = life /\ row.sale = rec[s].sale /\ rec[s] # NoRecord
  <2>1. rec[s].sale \in Nat
    BY <1>1 DEF Records
  <2> QED
    BY <1>1, <2>1, RowWritten
<1>3. rec' \in {rec, [rec EXCEPT ![s] = row]}
  BY DEF WithLife
<1>4. life = "FINALIZED" => row.sale # 0
  BY <1>2 DEF PayInv, RequestKnows
<1>5. End(r) /\ behind' = behind \ {r} /\ UNCHANGED <<happened, sales, left, closed, raced, deaths>>
  BY DEF Finish
<1>6. Resting
  BY <1>5, EndRests
<1> HIDE DEF s, row
<1>7. life \in {"CONFIRMED", "FINALIZED"} => Paid(s)
  BY DEF s
<1> QED
  BY <1>1, <1>2, <1>3, <1>4, <1>5, <1>6, <1>7, RowChanges

\* A report, a cancellation, a session found final and a refusal.
LEMMA ReportInv ==
    ASSUME PayInv, NEW r \in Requests, WriteReport(r) \/ AlreadyFinal(r) \/ RefusedEarly(r)
    PROVE  PayInv'
<1>1. RequestKnows(r)
  BY DEF PayInv
<1>2. CASE WriteReport(r)
  <2>1. /\ pc[r] # "idle" /\ rec' = WithLife(r, job[r].report) /\ Finish(r) /\ UNCHANGED <<sales, left>>
    BY <1>2 DEF WriteReport
  <2>2. job[r].report \in Failures \cup {Pending, "CANCELED"}
    BY <1>1, <1>2 DEF WriteReport, RequestKnows
  <2>3. job[r].report \in Lifecycle /\ job[r].report \notin {"CONFIRMED", "FINALIZED"}
    BY <2>2, PaymentsAssumption DEF Lifecycle, Pending
  <2> QED
    BY <2>1, <2>3, LifeWritten
<1>3. CASE AlreadyFinal(r)
  <2>1. /\ pc[r] # "idle" /\ job[r].sale # 0
        /\ rec' = WithLife(r, "FINALIZED") /\ Finish(r) /\ UNCHANGED <<sales, left>>
    BY <1>3 DEF AlreadyFinal
  <2>2. Paid(job[r].session)
    BY <1>1, <1>3, <2>1 DEF AlreadyFinal, RequestKnows
  <2>3. "FINALIZED" \in Lifecycle
    BY DEF Lifecycle
  <2> QED
    BY <2>1, <2>2, <2>3, LifeWritten
<1>4. CASE RefusedEarly(r)
  <2>1. /\ pc[r] # "idle" /\ rec' = WithLife(r, "CONFIRMED") /\ Finish(r) /\ UNCHANGED <<sales, left>>
    BY <1>4 DEF RefusedEarly
  <2>2. Paid(job[r].session)
    BY <1>1, <1>4, <2>1 DEF RefusedEarly, RequestKnows, Booking
  <2>3. "CONFIRMED" \in Lifecycle
    BY DEF Lifecycle
  <2> QED
    BY <2>1, <2>2, <2>3, LifeWritten
<1> QED
  BY <1>2, <1>3, <1>4

\* A new session, of the checkout or of a retry.
LEMMA RecordAdded ==
    ASSUME PayInv, Resting, NEW s \in Sessions, NEW c \in Carts, NEW till \in Sessions,
           rec[s] = NoRecord, rec' = [rec EXCEPT ![s] = NewRecord(c, till)],
           UNCHANGED <<happened, sales, left, closed, raced, deaths>>
    PROVE  PayInv'
<1>1. /\ NewRecord(c, till) \in Records
      /\ NewRecord(c, till).life = "ACTION_READY" /\ NewRecord(c, till).sale = 0
  BY NewRowTypes
<1> QED
  BY <1>1, RowChanges

\* A session the checkout makes.
LEMMA CreateInv ==
    ASSUME PayInv, NEW s \in Sessions, NEW c \in Carts, CreateSession(s, c)
    PROVE  PayInv'
<1>1. PICK till \in {s} \cup {Till(k) : k \in Known} : rec' = [rec EXCEPT ![s] = NewRecord(c, till)]
  BY DEF CreateSession
<1>2. till \in Sessions
  <2>1. \A k \in Known : rec[k] \in Records /\ rec[k].till \in Sessions
    BY Typed DEF Known, Records
  <2> QED
    BY <2>1 DEF Till
<1>3. rec[s] = NoRecord /\ UNCHANGED <<happened, sales, left, closed, pc, job, behind, raced, deaths>>
  BY DEF CreateSession
<1>4. Resting
  BY <1>3, StillRests
<1> QED
  BY <1>1, <1>2, <1>3, <1>4, RecordAdded

\* The session a retry makes, under the cashier session of the one it retries.
LEMMA RetryInv ==
    ASSUME PayInv, NEW r \in Requests, NEW t \in Sessions, RetryCreates(r, t)
    PROVE  PayInv'
<1>1. /\ pc[r] # "idle" /\ rec[t] = NoRecord
      /\ rec' = [rec EXCEPT ![t] = NewRecord(CartOf(r), Till(job[r].session))]
      /\ End(r) /\ behind' = behind \ {r}
      /\ UNCHANGED <<happened, sales, left, closed, raced, deaths>>
  BY DEF RetryCreates, Finish
<1>2. CartOf(r) \in Carts /\ Till(job[r].session) \in Sessions
  BY <1>1, Typed DEF CartOf, Till, Records
<1>3. Resting
  BY <1>1, EndRests
<1> QED
  BY <1>1, <1>2, <1>3, RecordAdded

\* What customers, other tills and the cashier do.
LEMMA OutsideInv ==
    ASSUME PayInv, Outside
    PROVE  PayInv'
<1>1. UNCHANGED <<rec, sales, pc, job, behind, raced, deaths>>
  BY DEF Outside, CustomerPays, SpentElsewhere, CashierCloses
<1>2. Resting
  BY <1>1, StillRests
<1>3. /\ happened' \in [Sessions -> SUBSET (Failures \cup {"CONFIRMED"})]
      /\ \A s \in Sessions : happened[s] \subseteq happened'[s]
  <2>1. happened \in [Sessions -> SUBSET (Failures \cup {"CONFIRMED"})]
    BY Typed
  <2>2. ASSUME NEW s \in Sessions, NEW e \in Failures \cup {"CONFIRMED"}, CustomerPays(s, e)
        PROVE  /\ happened' \in [Sessions -> SUBSET (Failures \cup {"CONFIRMED"})]
               /\ \A t \in Sessions : happened[t] \subseteq happened'[t]
    BY <2>1, <2>2 DEF CustomerPays
  <2>3. CASE happened' = happened
    BY <2>1, <2>3
  <2> QED
    BY <2>2, <2>3 DEF Outside, SpentElsewhere, CashierCloses
<1>4. DOMAIN left' = Carts /\ \A c \in Carts : left'[c] \subseteq ToSet(Tenders[c])
  <2>1. DOMAIN left = Carts /\ \A c \in Carts : left[c] \subseteq ToSet(Tenders[c])
    BY DEF PayInv, TypeOK
  <2>2. ASSUME NEW c \in Carts, NEW t \in left[c], SpentElsewhere(c, t)
        PROVE  DOMAIN left' = Carts /\ \A d \in Carts : left'[d] \subseteq left[d]
    <3>1. left' = [left EXCEPT ![c] = @ \ {t}]
      BY <2>2 DEF SpentElsewhere
    <3>2. DOMAIN left' = DOMAIN left
      BY <3>1
    <3>3. \A d \in Carts : left'[d] \subseteq left[d]
      BY <2>1, <3>1
    <3> QED
      BY <2>1, <3>2, <3>3
  <2>3. CASE left' = left
    BY <2>1, <2>3
  <2> QED
    BY <2>1, <2>2, <2>3 DEF Outside, CustomerPays, CashierCloses
<1>5. closed' \subseteq Sessions
  <2>1. closed \subseteq Sessions
    BY DEF PayInv, TypeOK
  <2>2. ASSUME NEW s \in Sessions, CashierCloses(s) PROVE closed' \subseteq Sessions
    <3>1. rec[s] \in Records /\ closed' = closed \cup {rec[s].till}
      BY <2>2, Typed DEF CashierCloses, Known, Till
    <3> QED
      BY <2>1, <3>1 DEF Records
  <2>3. CASE closed' = closed
    BY <2>1, <2>3
  <2> QED
    BY <2>2, <2>3 DEF Outside, CustomerPays, SpentElsewhere
<1>6. Kept
  BY <1>1, <1>3 DEF Kept
<1>7. TypeOK'
  BY <1>1, <1>2, <1>3, <1>4, <1>5 DEF PayInv, TypeOK, Resting
<1>8. \A q \in Requests : RequestKnows(q)'
  BY <1>2, <1>6, RestingKnows
<1>9. Numbers'
  BY <1>1, <1>2, RestingNumbers
<1>10. \A s \in Sessions : SessionRight(s)'
  BY <1>1, <1>6, RightStays DEF PayInv
<1> QED
  BY <1>4, <1>7, <1>8, <1>9, <1>10 DEF PayInv

-----------------------------------------------------------------------------
(* Steps that commit a sale. *)

\* What a request that has inserted its sale knows; the sale it commits is the next one.
LEMMA Seller ==
    ASSUME PayInv, NEW r \in Requests, HasNumber(r), NEW posted \in BOOLEAN,
           sales' = Append(sales, SaleRow(r, posted))
    PROVE  LET s == job[r].session
               n == job[r].number
           IN  /\ s \in Sessions /\ rec[s] \in Records /\ rec[s] # NoRecord /\ Paid(s)
               /\ job[r].sale = 0 /\ (r \notin behind => rec[s].sale = 0)
               /\ n = Len(sales) + 1 /\ n \in Nat \ {0} /\ Len(sales') = n
               /\ sales' \in Seq([session : Sessions, posted : BOOLEAN])
               /\ DOMAIN sales' = DOMAIN sales \cup {n}
               /\ sales'[n].session = s /\ sales'[n].posted = posted
               /\ \A m \in DOMAIN sales : sales'[m] = sales[m] /\ m # n /\ m # 0
<1> DEFINE s == job[r].session
           n == job[r].number
           row == SaleRow(r, posted)
<1>1. pc[r] # "idle" /\ pc[r] \in Booking
  BY DEF HasNumber, Booking
<1>2. s \in Sessions /\ rec[s] \in Records
  BY <1>1, Typed
<1>3. rec[s] # NoRecord /\ Paid(s) /\ job[r].sale = 0 /\ (r \notin behind => rec[s].sale = 0)
  BY <1>1 DEF PayInv, RequestKnows
<1>4. n = Len(sales) + 1
  BY DEF PayInv, Numbers
<1>5. sales \in Seq([session : Sessions, posted : BOOLEAN]) /\ Len(sales) \in Nat
  BY Typed
<1>6. row \in [session : Sessions, posted : BOOLEAN] /\ row.session = s /\ row.posted = posted
  BY <1>2 DEF SaleRow
<1>7. sales' = Append(sales, row)
  OBVIOUS
<1> HIDE DEF s, n, row
<1>8. /\ n \in Nat \ {0} /\ Len(sales') = n
      /\ sales' \in Seq([session : Sessions, posted : BOOLEAN])
      /\ DOMAIN sales' = DOMAIN sales \cup {n}
      /\ sales'[n] = row
      /\ \A m \in DOMAIN sales : sales'[m] = sales[m] /\ m # n /\ m # 0
  BY <1>4, <1>5, <1>6, <1>7
<1> QED
  BY <1>2, <1>3, <1>4, <1>6, <1>8 DEF s, n

\* With the sale its number is taken: nobody else held one.
LEMMA SoldNumbers ==
    ASSUME PayInv, NEW r \in Requests, HasNumber(r), End(r), Len(sales') = Len(sales) + 1
    PROVE  Numbers'
<1>1. Numbers /\ Len(sales) \in Nat
  BY Typed DEF PayInv
<1>2. pc'[r] = "idle" /\ \A q \in Requests \ {r} : pc'[q] = pc[q] /\ job'[q] = job[q]
  BY Typed DEF End
<1>3. \A q \in Requests : ~HasNumber(q)'
  BY <1>1, <1>2 DEF Numbers, HasNumber
<1>4. ~Counted(r)' /\ \A q \in Requests \ {r} : Counted(q)' = Counted(q)
  BY <1>2 DEF Counted
<1>5. \A q \in Requests : Counted(q)' => job'[q].number \in 1 .. Len(sales') + 1
  <2> SUFFICES ASSUME NEW q \in Requests \ {r}, Counted(q)' PROVE job'[q].number \in 1 .. Len(sales') + 1
    BY <1>4
  <2>1. job[q].number \in 1 .. Len(sales) + 1
    BY <1>1, <1>4 DEF Numbers
  <2> QED
    BY <1>1, <1>2, <2>1
<1> QED
  BY <1>3, <1>5 DEF Numbers

\* A request with a number has a session.
LEMMA SellersRow ==
    ASSUME PayInv, NEW r \in Requests, HasNumber(r)
    PROVE  job[r].session \in Sessions /\ job[r].number \in Nat
<1>1. pc[r] # "idle"
  BY DEF HasNumber
<1> QED
  BY <1>1, Typed DEF Jobs

\* A complete sale: whoever has loaded the session is behind now, and a session that a request
\* behind it finalizes is raced.
LEMMA PostInv ==
    ASSUME PayInv, NEW r \in Requests, Post(r)
    PROVE  PayInv'
<1>0. PICK s \in Sessions, n \in Nat : s = job[r].session /\ n = job[r].number
  BY SellersRow DEF Post
<1> DEFINE row == [rec[s] EXCEPT !.life = "FINALIZED", !.sale = n]
<1>1. /\ HasNumber(r) /\ End(r)
      /\ sales' = Append(sales, SaleRow(r, TRUE))
      /\ left' = [left EXCEPT ![CartOf(r)] = @ \ ToSet(Tenders[CartOf(r)])]
      /\ rec' = [rec EXCEPT ![s].life = "FINALIZED", ![s].sale = n]
      /\ raced' = IF r \in behind THEN raced \cup {s} ELSE raced
      /\ behind' = (behind \cup {o \in Requests : pc[o] # "idle" /\ job[o].session = s}) \ {r}
      /\ UNCHANGED <<happened, closed, deaths>>
  BY <1>0 DEF Post
<1>2. /\ s \in Sessions /\ rec[s] \in Records /\ rec[s] # NoRecord /\ Paid(s)
      /\ job[r].sale = 0 /\ (r \notin behind => rec[s].sale = 0)
      /\ n = Len(sales) + 1 /\ n \in Nat \ {0} /\ Len(sales') = n
      /\ sales' \in Seq([session : Sessions, posted : BOOLEAN])
      /\ DOMAIN sales' = DOMAIN sales \cup {n}
      /\ sales'[n].session = s /\ sales'[n].posted = TRUE
      /\ \A m \in DOMAIN sales : sales'[m] = sales[m] /\ m # n /\ m # 0
  BY <1>0, <1>1, Seller
<1>3. row \in Records /\ row # NoRecord /\ row.life = "FINALIZED" /\ row.sale = n
  <2>1. "FINALIZED" \in Lifecycle
    BY DEF Lifecycle
  <2>2. rec[s] \in Records /\ n \in Nat
    BY <1>2
  <2>3. row \in Records /\ row.life = "FINALIZED" /\ row.sale = n
    BY <2>1, <2>2 DEF Records
  <2> HIDE DEF row
  <2> QED
    BY <2>1, <2>3, RowWritten
<1>4. rec' = [rec EXCEPT ![s] = row] /\ rec \in [Sessions -> Records \cup {NoRecord}]
  BY <1>1, <1>2, Typed
<1> HIDE DEF row
<1>5. /\ pc' = [pc EXCEPT ![r] = "idle"] /\ job' = [job EXCEPT ![r] = NoJob]
      /\ pc \in [Requests -> Places] /\ job \in [Requests -> Jobs \cup {NoJob}]
  BY <1>1, Typed DEF End
<1>6. rec'[s] = row /\ \A t \in Sessions \ {s} : rec'[t] = rec[t]
  BY <1>2, <1>4
<1>7. /\ rec' \in [Sessions -> Records \cup {NoRecord}]
      /\ pc' \in [Requests -> Places] /\ job' \in [Requests -> Jobs \cup {NoJob}]
  BY <1>2, <1>3, <1>4, <1>5 DEF Places
<1>8. DOMAIN left' = Carts /\ \A c \in Carts : left'[c] \subseteq ToSet(Tenders[c])
  BY <1>1 DEF PayInv, TypeOK
<1>9. behind' \subseteq Requests /\ raced' \subseteq Sessions
  BY <1>1, <1>2 DEF PayInv, TypeOK
<1>10. TypeOK'
  BY <1>1, <1>2, <1>7, <1>8, <1>9 DEF PayInv, TypeOK
<1>11. \A q \in Requests : RequestKnows(q)'
  <2> SUFFICES ASSUME NEW q \in Requests, pc'[q] # "idle" PROVE RequestKnows(q)'
    BY DEF RequestKnows
  <2> DEFINE t == job[q].session
  <2>1. q # r /\ pc'[q] = pc[q] /\ job'[q] = job[q] /\ pc[q] # "idle"
    BY <1>5
  <2>2. /\ job[q] \in Jobs /\ rec[t] # NoRecord
        /\ pc[q] \in Booking \cup {"attempt"} \/ job[q].report = "CONFIRMED" => Paid(t)
        /\ job[q].sale # 0 => rec[t].sale # 0
        /\ q \notin behind /\ job[q].sale = 0 => rec[t].sale = 0
        /\ pc[q] \in Booking => job[q].sale = 0
        /\ pc[q] = "reported" => job[q].report \in Failures \cup {"CONFIRMED", Pending}
        /\ pc[q] = "writing" => job[q].report = "CANCELED"
    BY <2>1 DEF PayInv, RequestKnows
  <2>3. t \in Sessions
    BY <2>1, Typed
  <2>4. rec'[t] # NoRecord /\ (rec[t].sale # 0 => rec'[t].sale # 0)
    BY <1>2, <1>3, <1>6, <2>2, <2>3
  <2>5. q \notin behind' => q \notin behind /\ rec'[t] = rec[t]
    BY <1>1, <1>6, <2>1, <2>3
  <2>6. Paid(t) => "CONFIRMED" \in happened'[t]
    BY <1>1 DEF Paid
  <2>7. job'[q].session = t
    BY <2>1
  <2> HIDE DEF t
  <2> QED
    BY <2>1, <2>2, <2>4, <2>5, <2>6, <2>7 DEF RequestKnows, Paid
<1>12. Numbers'
  BY <1>1, <1>2, SoldNumbers
<1>13. SessionRight(s)'
  <2>1. SessionRight(s)
    BY <1>2 DEF PayInv
  <2>2. "CONFIRMED" \in happened'[s]
    BY <1>1, <1>2 DEF Paid
  <2>3. s \notin raced' => \A m \in DOMAIN sales : ~(sales[m].session = s /\ sales[m].posted)
    BY <1>1, <1>2, <2>1 DEF SessionRight
  <2> QED
    BY <1>2, <1>3, <1>6, <2>2, <2>3 DEF SessionRight, Paid
<1>14. \A t \in Sessions \ {s} : SessionRight(t)'
  <2> SUFFICES ASSUME NEW t \in Sessions \ {s} PROVE SessionRight(t)'
    OBVIOUS
  <2>1. SessionRight(t) /\ rec'[t] = rec[t] /\ (t \notin raced' => t \notin raced)
    BY <1>1, <1>6 DEF PayInv
  <2>2. Paid(t)' = Paid(t)
    BY <1>1 DEF Paid
  <2> QED
    BY <1>2, <2>1, <2>2 DEF SessionRight
<1> QED
  BY <1>8, <1>10, <1>11, <1>12, <1>13, <1>14 DEF PayInv

\* A sale without its tenders: the session is not linked to it.
LEMMA OrphanInv ==
    ASSUME PayInv, NEW r \in Requests, PostOrphan(r)
    PROVE  PayInv'
<1>0. PICK s \in Sessions, n \in Nat : s = job[r].session /\ n = job[r].number
  BY SellersRow DEF PostOrphan
<1> DEFINE row == [rec[s] EXCEPT !.life = "CONFIRMED"]
<1>1. /\ HasNumber(r) /\ End(r) /\ behind' = behind \ {r}
      /\ sales' = Append(sales, SaleRow(r, FALSE))
      /\ left' = [left EXCEPT ![CartOf(r)] = @ \ DebitedBefore(CartOf(r))]
      /\ rec' = WithLife(r, "CONFIRMED")
      /\ UNCHANGED <<happened, closed, raced, deaths>>
  BY DEF PostOrphan, Finish
<1>2. /\ s \in Sessions /\ rec[s] \in Records /\ rec[s] # NoRecord /\ Paid(s)
      /\ n = Len(sales) + 1 /\ n \in Nat \ {0} /\ Len(sales') = n
      /\ sales' \in Seq([session : Sessions, posted : BOOLEAN])
      /\ DOMAIN sales' = DOMAIN sales \cup {n}
      /\ sales'[n].session = s /\ sales'[n].posted = FALSE
      /\ \A m \in DOMAIN sales : sales'[m] = sales[m] /\ m # n /\ m # 0
  BY <1>0, <1>1, Seller
<1>3. row \in Records /\ row # NoRecord /\ row.life = "CONFIRMED" /\ row.sale = rec[s].sale
  <2>1. "CONFIRMED" \in Lifecycle /\ 0 \in Nat
    BY DEF Lifecycle
  <2>2. rec[s] \in Records
    BY <1>2
  <2> QED
    BY <2>1, <2>2, RowWritten
<1>4. rec' \in {rec, [rec EXCEPT ![s] = row]} /\ rec \in [Sessions -> Records \cup {NoRecord}]
  BY <1>0, <1>1, Typed DEF WithLife
<1> HIDE DEF row
<1>5. Resting
  BY <1>1, EndRests
<1>6. (rec'[s] = row \/ rec'[s] = rec[s]) /\ \A t \in Sessions \ {s} : rec'[t] = rec[t]
  BY <1>2, <1>4
<1>7. rec' \in [Sessions -> Records \cup {NoRecord}]
  BY <1>2, <1>3, <1>4
<1>8. Kept
  BY <1>1, <1>2, <1>3, <1>6 DEF Kept
<1>9. DOMAIN left' = Carts /\ \A c \in Carts : left'[c] \subseteq ToSet(Tenders[c])
  BY <1>1 DEF PayInv, TypeOK
<1>10. TypeOK'
  BY <1>1, <1>2, <1>5, <1>7, <1>9 DEF PayInv, TypeOK, Resting
<1>11. \A q \in Requests : RequestKnows(q)'
  BY <1>5, <1>8, RestingKnows
<1>12. Numbers'
  BY <1>1, <1>2, SoldNumbers
<1>13. SessionRight(s)'
  <2>1. SessionRight(s)
    BY <1>2 DEF PayInv
  <2>2. Paid(s)'
    BY <1>1, <1>2 DEF Paid
  <2>3. /\ rec'[s] # NoRecord /\ rec'[s].sale = rec[s].sale
        /\ rec'[s].life = "FINALIZED" => rec[s].life = "FINALIZED"
    BY <1>2, <1>3, <1>6
  <2>4. /\ rec[s].life = "FINALIZED" => rec[s].sale # 0
        /\ rec[s].sale # 0 =>
             rec[s].sale \in DOMAIN sales /\ sales[rec[s].sale].session = s /\ sales[rec[s].sale].posted
    BY <1>2, <2>1 DEF SessionRight
  <2>5. rec'[s].sale # 0 =>
            /\ rec'[s].sale \in DOMAIN sales' /\ sales'[rec'[s].sale].session = s
            /\ sales'[rec'[s].sale].posted
    BY <1>2, <2>3, <2>4
  <2>6. s \notin raced' => \A m \in DOMAIN sales' : sales'[m].session = s /\ sales'[m].posted => m = rec[s].sale
    BY <1>1, <1>2, <2>1 DEF SessionRight
  <2> QED
    BY <2>2, <2>3, <2>4, <2>5, <2>6 DEF SessionRight
<1>14. \A t \in Sessions \ {s} : SessionRight(t)'
  <2> SUFFICES ASSUME NEW t \in Sessions \ {s} PROVE SessionRight(t)'
    OBVIOUS
  <2>1. SessionRight(t) /\ rec'[t] = rec[t] /\ raced' = raced
    BY <1>1, <1>6 DEF PayInv
  <2>2. Paid(t)' = Paid(t)
    BY <1>1 DEF Paid
  <2> QED
    BY <1>2, <2>1, <2>2 DEF SessionRight
<1> QED
  BY <1>9, <1>10, <1>11, <1>12, <1>13, <1>14 DEF PayInv

-----------------------------------------------------------------------------
(* The whole. *)

\* No session, no sale, no request.
LEMMA PaymentsInit == Init => PayInv
<1> SUFFICES ASSUME Init PROVE PayInv
  OBVIOUS
<1>1. /\ rec = [s \in Sessions |-> NoRecord] /\ happened = [s \in Sessions |-> {}]
      /\ sales = <<>> /\ left = [c \in Carts |-> ToSet(Tenders[c])] /\ closed = {}
      /\ pc = [r \in Requests |-> "idle"] /\ job = [r \in Requests |-> NoJob]
      /\ behind = {} /\ raced = {} /\ deaths = 0
  BY DEF Init
<1>2. TypeOK /\ DOMAIN left = Carts
  <2>1. pc \in [Requests -> Places] /\ deaths \in 0 .. MaxDeaths
    BY <1>1, PaymentsAssumption DEF Places
  <2>2. sales \in Seq([session : Sessions, posted : BOOLEAN])
    BY <1>1
  <2> QED
    BY <1>1, <2>1, <2>2 DEF TypeOK
<1>3. \A r \in Requests : RequestKnows(r)
  BY <1>1 DEF RequestKnows
<1>4. Numbers
  BY <1>1 DEF Numbers, HasNumber, Counted
<1>5. \A s \in Sessions : SessionRight(s)
  <2>1. DOMAIN sales = {} /\ \A s \in Sessions : rec[s] = NoRecord
    BY <1>1
  <2> QED
    BY <2>1 DEF SessionRight
<1> QED
  BY <1>2, <1>3, <1>4, <1>5 DEF PayInv

\* Every step keeps the invariant.
LEMMA PaymentsStep == PayInv /\ [Next]_vars => PayInv'
<1> SUFFICES ASSUME PayInv, [Next]_vars PROVE PayInv'
  OBVIOUS
<1>1. CASE Outside
  BY <1>1, OutsideInv
<1>2. ASSUME NEW s \in Sessions, NEW c \in Carts, CreateSession(s, c) PROVE PayInv'
  BY <1>2, CreateInv
<1>3. ASSUME NEW r \in Requests, Arrive(r) PROVE PayInv'
  BY <1>3, ArriveInv
<1>4. ASSUME NEW r \in Requests, Serve(r) PROVE PayInv'
  <2>1. CASE ProviderFails(r) \/ RollBack(r)
    <3>1. /\ End(r) /\ behind' = behind \ {r}
          /\ UNCHANGED <<rec, happened, sales, left, closed, raced, deaths>>
      BY <2>1 DEF ProviderFails, RollBack, Finish
    <3>2. deaths' \in 0 .. MaxDeaths
      BY <3>1 DEF PayInv, TypeOK
    <3> QED
      BY <3>1, <3>2, RequestEnds
  <2> QED
    BY <1>4, <2>1, AnsweredInv, RetryInv, ReportInv, ConfirmInv, CountInv, InsertInv, PostInv, OrphanInv DEF Serve
<1>5. ASSUME NEW r \in Requests, Dies(r) PROVE PayInv'
  <2>1. /\ End(r) /\ behind' = behind \ {r} /\ UNCHANGED <<rec, happened, sales, left, closed, raced>>
        /\ deaths < MaxDeaths /\ deaths' = deaths + 1 /\ deaths \in 0 .. MaxDeaths
    BY <1>5 DEF Dies, PayInv, TypeOK
  <2>2. deaths' \in 0 .. MaxDeaths
    BY <2>1, PaymentsAssumption
  <2> QED
    BY <2>1, <2>2, RequestEnds
<1>6. CASE UNCHANGED vars
  <2>1. UNCHANGED <<rec, happened, sales, left, closed, pc, job, behind, raced, deaths>>
    BY <1>6 DEF vars
  <2>2. Resting
    BY <2>1, StillRests
  <2>3. Kept
    BY <2>1 DEF Kept
  <2>4. TypeOK' /\ DOMAIN left' = Carts
    BY <2>1 DEF PayInv, TypeOK
  <2>5. (\A q \in Requests : RequestKnows(q)') /\ Numbers'
    BY <2>1, <2>2, <2>3, RestingKnows, RestingNumbers
  <2>6. \A s \in Sessions : SessionRight(s)'
    BY <2>1, <2>3, RightStays DEF PayInv
  <2> QED
    BY <2>4, <2>5, <2>6 DEF PayInv
<1> QED
  BY <1>1, <1>2, <1>3, <1>4, <1>5, <1>6 DEF Next

\* Types, what requests may conclude, numbers, and rows and sales that agree.
THEOREM PaymentsInvariant == Spec => []PayInv
  BY PaymentsInit, PaymentsStep, PTL DEF Spec

\* The tables and the requests in flight keep their types.
THEOREM PaymentsTypes == Spec => []TypeOK
<1>1. PayInv => TypeOK
  BY DEF PayInv
<1> QED
  BY PaymentsInvariant, <1>1, PTL

\* A sale is written only for a session the provider has confirmed, whatever stale copies of the
\* row requests carry past each other.
THEOREM PaymentsSalesArePaid == Spec => []SalesArePaid
<1>1. PayInv => SalesArePaid
  BY DEF PayInv, SessionRight, SalesArePaid, SalesOf
<1> QED
  BY PaymentsInvariant, <1>1, PTL

\* A session is linked to a complete sale of its own or to none, and FINALIZED only when linked.
THEOREM PaymentsLinkedSaleIsPosted == Spec => []LinkedSaleIsPosted
<1>1. PayInv => LinkedSaleIsPosted
  BY DEF PayInv, SessionRight, LinkedSaleIsPosted, PostedOf, SalesOf, Known
<1> QED
  BY PaymentsInvariant, <1>1, PTL

\* A session posts one sale, unless a request that had loaded it before went on.
THEOREM PaymentsPostedOnce == Spec => []PostedOnce
<1>1. ASSUME PayInv PROVE PostedOnce
  <2> SUFFICES ASSUME NEW s \in Sessions \ raced PROVE Cardinality(PostedOf(s)) <= 1
    BY DEF PostedOnce
  <2>1. PostedOf(s) \subseteq {rec[s].sale}
    BY <1>1 DEF PayInv, SessionRight, PostedOf, SalesOf
  <2>2. PostedOf(s) = {} \/ PostedOf(s) = {rec[s].sale}
    BY <2>1
  <2>3. Cardinality(PostedOf(s)) \in {0, 1}
    BY <2>2, FS_EmptySet, FS_Singleton, Zenon
  <2> QED
    BY <2>3
<1> QED
  BY PaymentsInvariant, <1>1, PTL
=============================================================================
