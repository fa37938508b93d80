-------------------------- MODULE CheckoutPayments --------------------------
(***************************************************************************)
(* Payment sessions of the checkout: creation, provider webhooks and polls, *)
(* finalization, retry and cancellation (services/checkout_payments.py,     *)
(* checkout_payment_providers.py), and the part of create_sale that a       *)
(* finalization runs with auto_commit = False.                              *)
(*                                                                          *)
(* A request loads the session's row without a lock and goes on with that   *)
(* copy.  It writes only the columns whose value it changed; its first      *)
(* UPDATE locks the row until it commits.  A sale's invoice number is a     *)
(* count, held from the INSERT on by the unique constraint, as in Billing.  *)
(* The provider is external: it reports what happened to an order, in any   *)
(* order and any number of times.                                           *)
(***************************************************************************)
EXTENDS Integers, Sequences, FiniteSets, SequencesExt

CONSTANTS
    Sessions,   \* identifiers of checkout_payment_sessions
    Carts,      \* what is being paid for
    Requests,   \* HTTP requests the service works on at one time
    Tenders,    \* cart -> sequence: gift card, store credit... in the order create_sale debits them
    Failures,   \* what the provider may report of an unpaid order
    MaxSales,   \* bound: sale rows
    MaxDeaths   \* bound: requests that die before they commit

ASSUME PaymentsAssumption ==
    /\ Failures \subseteq {"FAILED", "EXPIRED"}
    /\ \A c \in Carts : Tenders[c] \in Seq(STRING)
    /\ MaxSales \in Nat \ {0}
    /\ MaxDeaths \in Nat

VARIABLES
    rec,        \* session -> its committed row, or NoRecord
    happened,   \* session -> what the provider has seen happen to its order
    sales,      \* the committed sale rows, by invoice number
    left,       \* cart -> its tenders that still have their balance
    closed,     \* cashier sessions that are closed, named after the first payment session in them
    pc,         \* request -> where it stands
    job,        \* request -> session, its copy of the row, provider report, invoice number
    behind,     \* history: requests whose session was finalized after they loaded it
    raced,      \* history: sessions finalized by such a request
    deaths      \* history: requests that died so far

vars == <<rec, happened, sales, left, closed, pc, job, behind, raced, deaths>>

Pending   == "PENDING_CUSTOMER_PAYMENT"
Lifecycle == {"ACTION_READY", Pending, "CONFIRMED", "FINALIZED", "FAILED", "EXPIRED", "CANCELED"}

NoRecord == [life |-> "none"]
NoJob    == [session |-> "none"]
Known    == {s \in Sessions : rec[s] # NoRecord}
Paid(s)  == "CONFIRMED" \in happened[s]
Till(s)  == rec[s].till
Open(s)  == Till(s) \notin closed
Covered(c) == ToSet(Tenders[c]) \subseteq left[c]

Init ==
    /\ rec = [s \in Sessions |-> NoRecord]
    /\ happened = [s \in Sessions |-> {}]
    /\ sales = <<>>
    /\ left = [c \in Carts |-> ToSet(Tenders[c])]
    /\ closed = {}
    /\ pc = [r \in Requests |-> "idle"]
    /\ job = [r \in Requests |-> NoJob]
    /\ behind = {}
    /\ raced = {}
    /\ deaths = 0

-----------------------------------------------------------------------------
(* The world outside. *)

\* The customer's attempts at paying; the first that succeeds is the last.
CustomerPays(s, e) ==
    /\ s \in Known /\ ~Paid(s)
    /\ happened' = [happened EXCEPT ![s] = @ \cup {e}]
    /\ UNCHANGED <<rec, sales, left, closed, pc, job, behind, raced, deaths>>

\* A gift card or store credit is spent at another till.
SpentElsewhere(c, t) ==
    /\ t \in left[c] /\ \E s \in Known : rec[s].cart = c
    /\ left' = [left EXCEPT ![c] = @ \ {t}]
    /\ UNCHANGED <<rec, happened, sales, closed, pc, job, behind, raced, deaths>>

\* The cashier session that a payment session refers to is closed.
CashierCloses(s) ==
    /\ s \in Known /\ Open(s)
    /\ closed' = closed \cup {Till(s)}
    /\ UNCHANGED <<rec, happened, sales, left, pc, job, behind, raced, deaths>>

\* What the newest payment of the order says.
Latest(s) == IF Paid(s) THEN {"CONFIRMED"} ELSE IF happened[s] = {} THEN {Pending} ELSE happened[s]

-----------------------------------------------------------------------------
(* Requests: what they read first. *)

Loaded(s, report) ==
    [session |-> s, life |-> rec[s].life, sale |-> rec[s].sale, report |-> report, number |-> 0]

Begin(r, s, report, where) ==
    /\ pc[r] = "idle"
    /\ s \in Known
    /\ job' = [job EXCEPT ![r] = Loaded(s, report)]
    /\ pc' = [pc EXCEPT ![r] = where]
    /\ UNCHANGED <<rec, happened, sales, left, closed, behind, raced, deaths>>

NewRecord(c, till) == [cart |-> c, till |-> till, life |-> "ACTION_READY", sale |-> 0]

\* create_checkout_payment_session, under a new cashier session or an open one;
\* its preview refuses tenders that have no balance.
CreateSession(s, c) ==
    /\ rec[s] = NoRecord
    /\ Covered(c)
    /\ \E till \in {s} \cup {Till(k) : k \in Known} :
         /\ till \notin closed
         /\ rec' = [rec EXCEPT ![s] = NewRecord(c, till)]
    /\ UNCHANGED <<happened, sales, left, closed, pc, job, behind, raced, deaths>>

MoreSales == Len(sales) < MaxSales

\* handle_cashfree_webhook: of anything that has happened, late and repeated or not.
Webhook(r, s, e) ==
    /\ e \in happened[s] \cup {Pending}
    /\ e = "CONFIRMED" => MoreSales
    /\ Begin(r, s, e, "reported")

\* refresh_checkout_payment_session loads the row and then asks the provider.
Refresh(r, s) == Begin(r, s, "none", "polling")

Answered(r) ==
    /\ pc[r] = "polling"
    /\ Paid(job[r].session) => MoreSales
    /\ \E e \in Latest(job[r].session) : job' = [job EXCEPT ![r].report = e]
    /\ pc' = [pc EXCEPT ![r] = "reported"]
    /\ UNCHANGED <<rec, happened, sales, left, closed, behind, raced, deaths>>

\* Mutant of Finalize: takes a session in any state.
FinalizeAny(r, s) == MoreSales /\ Begin(r, s, "none", "attempt")

\* finalize_checkout_payment_session.
Finalize(r, s) ==
    /\ MoreSales
    /\ s \in Known /\ rec[s].life \in {"CONFIRMED", "FINALIZED"}
    /\ Begin(r, s, "none", "attempt")

\* cancel_checkout_payment_session.
Cancel(r, s) ==
    /\ s \in Known /\ rec[s].sale = 0
    /\ Begin(r, s, "CANCELED", "writing")

RecoveryState(s) ==
    CASE rec[s].sale # 0 \/ rec[s].life = "FINALIZED"        -> "CLOSED"
      [] rec[s].life = "CONFIRMED"                           -> "FINALIZE_REQUIRED"
      [] rec[s].life \in {"FAILED", "EXPIRED", "CANCELED"}   -> "RETRYABLE"
      [] OTHER                                               -> "ACTIVE"

\* retry_checkout_payment_session: checks, then asks the provider for a new order.
Retry(r, s) ==
    /\ s \in Known /\ RecoveryState(s) = "RETRYABLE"
    /\ Open(s) /\ Covered(rec[s].cart)
    /\ Begin(r, s, "none", "retrying")

-----------------------------------------------------------------------------
(* Requests: what they write. *)

HasRow(r)    == pc[r] \in {"locked", "lockedCounted", "lockedIn"}
HasNumber(r) == pc[r] \in {"inserted", "lockedIn"}
Counted(r)   == pc[r] \in {"counted", "lockedCounted"}

RowFree(r) ==
    \A o \in Requests \ {r} : HasRow(o) => job[o].session # job[r].session

NumberHeld(n)  == \E r \in Requests : HasNumber(r) /\ job[r].number = n
NumberTaken(n) == n <= Len(sales)

End(r) ==
    /\ pc' = [pc EXCEPT ![r] = "idle"]
    /\ job' = [job EXCEPT ![r] = NoJob]

\* UPDATE of lifecycle_status: only when it is not what the request loaded.
WithLife(r, life) ==
    IF job[r].life = life THEN rec ELSE [rec EXCEPT ![job[r].session].life = life]

Finish(r) ==
    /\ End(r)
    /\ behind' = behind \ {r}
    /\ UNCHANGED <<happened, closed, raced, deaths>>

CartOf(r) == rec[job[r].session].cart

RetryCreates(r, t) ==
    /\ pc[r] = "retrying"
    /\ rec[t] = NoRecord
    /\ rec' = [rec EXCEPT ![t] = NewRecord(CartOf(r), Till(job[r].session))]
    /\ Finish(r)
    /\ UNCHANGED <<sales, left>>

\* The provider does not answer a poll, or the order of a retry.
ProviderFails(r) ==
    /\ pc[r] \in {"polling", "retrying"}
    /\ Finish(r)
    /\ UNCHANGED <<rec, sales, left>>

\* A report other than success, whatever the row has become; or a cancellation.
WriteReport(r) ==
    /\ \/ pc[r] = "writing"
       \/ pc[r] = "reported" /\ job[r].report # "CONFIRMED"
    /\ RowFree(r)
    /\ rec' = WithLife(r, job[r].report)
    /\ Finish(r)
    /\ UNCHANGED <<sales, left>>

\* The session was finalized when it was loaded: nothing is sold again.
AlreadyFinal(r) ==
    /\ pc[r] = "attempt" \/ (pc[r] = "reported" /\ job[r].report = "CONFIRMED")
    /\ job[r].sale # 0
    /\ RowFree(r)
    /\ rec' = WithLife(r, "FINALIZED")
    /\ Finish(r)
    /\ UNCHANGED <<sales, left>>

\* Mutant of Unfinished: does not look at finalized_sale_id.
UnfinishedAlways(r) == TRUE

Unfinished(r) == job[r].sale = 0

\* Mutant of Confirm: drops the success of a session that was canceled.
ConfirmUnlessCanceled(r) ==
    /\ pc[r] = "reported" /\ job[r].report = "CONFIRMED"
    /\ Unfinished(r)
    /\ RowFree(r)
    /\ IF job[r].life = "CANCELED" THEN End(r)
       ELSE pc' = [pc EXCEPT ![r] = "locked"] /\ UNCHANGED job
    /\ UNCHANGED <<rec, happened, sales, left, closed, behind, raced, deaths>>

\* A confirmed report is flushed by create_sale's first query and locks the row.
Confirm(r) ==
    /\ pc[r] = "reported" /\ job[r].report = "CONFIRMED"
    /\ Unfinished(r)
    /\ RowFree(r)
    /\ pc' = [pc EXCEPT ![r] = "locked"]
    /\ UNCHANGED <<rec, happened, sales, left, closed, job, behind, raced, deaths>>

\* create_sale refuses before it writes: the session stays CONFIRMED.
RefusedEarly(r) ==
    /\ pc[r] \in {"locked", "attempt"}
    /\ Unfinished(r)
    /\ ~Open(job[r].session)
    /\ RowFree(r)
    /\ rec' = WithLife(r, "CONFIRMED")
    /\ Finish(r)
    /\ UNCHANGED <<sales, left>>

CountSales(r) ==
    /\ pc[r] \in {"locked", "attempt"}
    /\ Unfinished(r)
    /\ Open(job[r].session)
    /\ job' = [job EXCEPT ![r].number = Len(sales) + 1]
    /\ pc' = [pc EXCEPT ![r] = IF pc[r] = "locked" THEN "lockedCounted" ELSE "counted"]
    /\ UNCHANGED <<rec, happened, sales, left, closed, behind, raced, deaths>>

InsertSale(r) ==
    /\ Counted(r)
    /\ ~NumberTaken(job[r].number) /\ ~NumberHeld(job[r].number)
    /\ pc' = [pc EXCEPT ![r] = IF pc[r] = "lockedCounted" THEN "lockedIn" ELSE "inserted"]
    /\ UNCHANGED <<rec, happened, sales, left, closed, job, behind, raced, deaths>>

\* Waits for the row of one that waits for its number.
Deadlocked(r) ==
    \E o \in Requests \ {r} :
        /\ HasNumber(o) /\ ~RowFree(o) /\ HasRow(r) /\ job[r].session = job[o].session
        /\ Counted(r) /\ job[r].number = job[o].number

\* The unique constraint, or the choice of a deadlock's victim: all is rolled back.
RollBack(r) ==
    /\ \/ Counted(r) /\ NumberTaken(job[r].number)
       \/ Deadlocked(r)
       \/ \E o \in Requests : Deadlocked(o) /\ HasNumber(r) /\ job[o].session = job[r].session
    /\ Finish(r)
    /\ UNCHANGED <<rec, sales, left>>

SaleRow(r, posted) == [session |-> job[r].session, posted |-> posted]

\* create_sale succeeds: tenders and ledger are booked, the session is linked.
Post(r) ==
    /\ HasNumber(r) /\ RowFree(r)
    /\ Covered(CartOf(r))
    /\ LET s == job[r].session IN
         /\ sales' = Append(sales, SaleRow(r, TRUE))
         /\ left' = [left EXCEPT ![CartOf(r)] = @ \ ToSet(Tenders[CartOf(r)])]
         /\ rec' = [rec EXCEPT ![s].life = "FINALIZED", ![s].sale = job[r].number]
         /\ raced' = IF r \in behind THEN raced \cup {s} ELSE raced
         /\ behind' = (behind \cup {o \in Requests : pc[o] # "idle" /\ job[o].session = s}) \ {r}
    /\ End(r)
    /\ UNCHANGED <<happened, closed, deaths>>

\* The tenders before the first that has no balance left.
DebitedBefore(c) ==
    {Tenders[c][i] : i \in {i \in 1 .. Len(Tenders[c]) : \A k \in 1 .. i : Tenders[c][k] \in left[c]}}

\* Mutant of PostOrphan: links the session to the sale.
PostOrphanLinked(r) ==
    /\ HasNumber(r) /\ RowFree(r)
    /\ ~Covered(CartOf(r))
    /\ sales' = Append(sales, SaleRow(r, FALSE))
    /\ left' = [left EXCEPT ![CartOf(r)] = @ \ DebitedBefore(CartOf(r))]
    /\ rec' = [rec EXCEPT ![job[r].session].life = "CONFIRMED", ![job[r].session].sale = job[r].number]
    /\ Finish(r)

\* A tender refuses after the sale is in: the exception is caught, nothing is
\* rolled back, and the caller commits the sale, its invoice and what was debited.
PostOrphan(r) ==
    /\ HasNumber(r) /\ RowFree(r)
    /\ ~Covered(CartOf(r))
    /\ sales' = Append(sales, SaleRow(r, FALSE))
    /\ left' = [left EXCEPT ![CartOf(r)] = @ \ DebitedBefore(CartOf(r))]
    /\ rec' = WithLife(r, "CONFIRMED")
    /\ Finish(r)

\* The process stops or the connection drops before the commit.
Dies(r) ==
    /\ pc[r] # "idle"
    /\ deaths < MaxDeaths
    /\ deaths' = deaths + 1
    /\ End(r)
    /\ behind' = behind \ {r}
    /\ UNCHANGED <<rec, happened, sales, left, closed, raced>>

-----------------------------------------------------------------------------
Outside ==
    \/ \E s \in Sessions, e \in Failures \cup {"CONFIRMED"} : CustomerPays(s, e)
    \/ \E c \in Carts : \E t \in left[c] : SpentElsewhere(c, t)
    \/ \E s \in Sessions : CashierCloses(s)

Arrive(r) ==
    \E s \in Sessions :
        \/ \E e \in Failures \cup {"CONFIRMED", Pending} : Webhook(r, s, e)
        \/ Refresh(r, s) \/ Finalize(r, s) \/ Cancel(r, s) \/ Retry(r, s)

Serve(r) ==
    \/ Answered(r) \/ ProviderFails(r)
    \/ \E t \in Sessions : RetryCreates(r, t)
    \/ WriteReport(r) \/ AlreadyFinal(r) \/ Confirm(r) \/ RefusedEarly(r)
    \/ CountSales(r) \/ InsertSale(r) \/ RollBack(r) \/ Post(r) \/ PostOrphan(r)

Next ==
    \/ Outside
    \/ \E s \in Sessions, c \in Carts : CreateSession(s, c)
    \/ \E r \in Requests : Arrive(r) \/ Serve(r) \/ Dies(r)

Spec == Init /\ [][Next]_vars

\* A request that waits for a lock is served in turn; the provider sends the
\* webhook of a success again until a request has committed it.
Fairness ==
    /\ \A r \in Requests : SF_vars(Serve(r))
    /\ \A s \in Sessions : SF_vars(\E r \in Requests : Webhook(r, s, "CONFIRMED"))

FairSpec == Spec /\ Fairness

-----------------------------------------------------------------------------
Records == [cart : Carts, till : Sessions, life : Lifecycle, sale : Nat]
Jobs    == [session : Sessions, life : Lifecycle, sale : Nat, number : Nat,
            report : Lifecycle \cup {"none"}]
Places  == {"idle", "reported", "polling", "attempt", "writing", "retrying", "locked",
            "counted", "lockedCounted", "inserted", "lockedIn"}

\* Type correctness of the tables and of the requests in flight.
TypeOK ==
    /\ rec \in [Sessions -> Records \cup {NoRecord}]
    /\ happened \in [Sessions -> SUBSET (Failures \cup {"CONFIRMED"})]
    /\ sales \in Seq([session : Sessions, posted : BOOLEAN])
    /\ \A c \in Carts : left[c] \subseteq ToSet(Tenders[c])
    /\ closed \subseteq Sessions
    /\ pc \in [Requests -> Places]
    /\ job \in [Requests -> Jobs \cup {NoJob}]
    /\ behind \subseteq Requests /\ raced \subseteq Sessions
    /\ deaths \in 0 .. MaxDeaths

SalesOf(s)  == {n \in DOMAIN sales : sales[n].session = s}
PostedOf(s) == {n \in SalesOf(s) : sales[n].posted}

\* No sale, complete or not, is written for a session the provider has not
\* confirmed: failed, expired, canceled and pending ones never create sales,
\* whatever requests carry stale copies of the row past each other.
SalesArePaid == \A s \in Sessions : SalesOf(s) # {} => Paid(s)

\* A session is linked to a complete sale of its own or to none, and it is
\* FINALIZED only when it is linked: the columns are written by requests that
\* each loaded the row at another time, and none leaves the two apart.
LinkedSaleIsPosted ==
    \A s \in Known :
        /\ rec[s].sale # 0 => rec[s].sale \in PostedOf(s)
        /\ rec[s].life = "FINALIZED" => rec[s].sale # 0

\* However often its success is reported, polled or finalized by hand, a
\* session posts one sale, unless a request that had loaded it before went on.
PostedOnce == \A s \in Sessions \ raced : Cardinality(PostedOf(s)) <= 1

\* What the customer paid becomes a sale, canceled or not, with requests that
\* deadlock, lose their invoice number or die; unless the cashier session is
\* closed or a tender is gone.
PaidIsFinalized ==
    \A s \in Sessions :
        Paid(s) ~> s \in Known /\ \/ rec[s].sale # 0
                                  \/ ~Open(s) \/ ~Covered(rec[s].cart) \/ ~MoreSales

\* What the design says: a confirmed payment finalizes exactly one sale.
OneSalePerPayment == \A s \in Sessions : Cardinality(SalesOf(s)) <= 1
=============================================================================
