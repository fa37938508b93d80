--------------------------- MODULE OperationsQueue ---------------------------
(***************************************************************************)
(* The control plane's durable job queue: the table operations_jobs, the   *)
(* request handlers that enqueue into it, the operator's retry route and   *)
(* the polling workers that lease, run and settle its rows                 *)
(* (repositories/operations.py, services/operations_queue.py,              *)
(* services/operations_worker.py, scripts/run_operations_worker.py).       *)
(*                                                                         *)
(* Every database transaction is cut where another session can come in     *)
(* between: after an unlocked read, and at the commit.  The ORM session    *)
(* writes only the columns whose value it changed, and a worker keeps the  *)
(* objects it leased in its identity map, so get_job hands a worker its    *)
(* own copy of a row and never the row as another session left it.         *)
(*                                                                         *)
(* Time is abstract: a lease is live until LeaseLapses, a retry delay runs *)
(* until RetryDelayElapses.                                                *)
(***************************************************************************)
EXTENDS Integers, FiniteSets

CONSTANTS
    Jobs,          \* row identifiers of operations_jobs
    Keys,          \* values of queue_key
    Producers,     \* API requests that call enqueue_branch_job
    Workers,       \* worker processes
    None,          \* SQL NULL
    MaxAttempts,   \* max_attempts of every job
    BatchLimit,    \* operations_worker_batch_size
    Outcomes,      \* how the handler of a key's job may end
    MaxCrashes,    \* bound: worker processes killed from outside
    MaxRetries     \* bound: retries an operator starts

HandlerEnd == {"returns", "raises", "raises after a query"}

ASSUME QueueAssumption ==
    /\ MaxAttempts \in Nat \ {0}
    /\ BatchLimit \in Nat \ {0}
    /\ MaxCrashes \in Nat
    /\ MaxRetries \in Nat
    /\ Outcomes \in [Keys -> SUBSET HandlerEnd]
    /\ None \notin Keys \cup Jobs \cup Workers

VARIABLES
    row,        \* job -> its row, or NoRow
    pending,    \* producer -> the key it found no active job for, or None
    retrying,   \* the job an operator's retry has read and may retry, or None
    pc,         \* worker -> where its poll stands
    expired,    \* worker -> rows its scan saw RUNNING with a lapsed lease
    batch,      \* worker -> leased jobs it has still to settle
    current,    \* worker -> the job whose handler is running, or None
    copy,       \* worker, job -> attempt_count of the worker's copy of the row
    crashes,    \* history: processes killed so far
    retries,    \* history: operator retries started so far
    overrun     \* history: jobs whose lease has ever lapsed

vars == <<row, pending, retrying, pc, expired, batch, current, copy,
          crashes, retries, overrun>>

Status == {"QUEUED", "RUNNING", "RETRYABLE", "SUCCEEDED", "DEAD_LETTER"}
Active == {"QUEUED", "RUNNING", "RETRYABLE"}
Lease  == {"none", "live", "lapsed"}

NoRow  == [status |-> "absent"]
Row    == [status : Status, key : Keys, attempts : 0 .. MaxAttempts + 1,
           lease : Lease, token : Workers \cup {None}, due : BOOLEAN]

Exists(j)   == row[j] # NoRow
Is(j, s)    == Exists(j) /\ row[j].status = s
ActiveFor(k) == {j \in Jobs : Exists(j) /\ row[j].key = k /\ row[j].status \in Active}
Holds(w, j) == j \in batch[w]

\* Identifiers are fresh uuids: none is given to a new row while a session
\* still remembers an old row under it.
Fresh(j) ==
    /\ ~Exists(j)
    /\ retrying # j
    /\ \A w \in Workers : ~Holds(w, j) /\ j \notin expired[w]

\* attempt_count, counted no further than the comparison with max_attempts needs.
OneMore(n) == IF n > MaxAttempts THEN n ELSE n + 1

Init ==
    /\ row = [j \in Jobs |-> NoRow]
    /\ pending = [p \in Producers |-> None]
    /\ retrying = None
    /\ pc = [w \in Workers |-> "idle"]
    /\ expired = [w \in Workers |-> {}]
    /\ batch = [w \in Workers |-> {}]
    /\ current = [w \in Workers |-> None]
    /\ copy = [w \in Workers |-> [j \in Jobs |-> 0]]
    /\ crashes = 0
    /\ retries = 0
    /\ overrun = {}

workerVars == <<pc, expired, batch, current, copy>>

-----------------------------------------------------------------------------
(* Producers: look for an active job of the key, and create one if there   *)
(* is none.  No constraint on queue_key makes the two steps one.           *)

EnqueueCheck(p, k) ==
    /\ pending[p] = None
    /\ ActiveFor(k) = {}
    /\ pending' = [pending EXCEPT ![p] = k]
    /\ UNCHANGED <<row, retrying, workerVars, crashes, retries, overrun>>

EnqueueCommit(p, j) ==
    /\ pending[p] # None
    /\ Fresh(j)
    /\ row' = [row EXCEPT ![j] = [status |-> "QUEUED", key |-> pending[p], attempts |-> 0,
                                  lease |-> "none", token |-> None, due |-> TRUE]]
    /\ pending' = [pending EXCEPT ![p] = None]
    /\ overrun' = overrun \ {j}
    /\ UNCHANGED <<retrying, workerVars, crashes, retries>>

-----------------------------------------------------------------------------
(* The operator's retry: reads the row, checks its status, and writes the  *)
(* columns that differ from what it read.  A row it may retry has no lease *)
(* and no token, so neither column is in its UPDATE; its attempt_count is  *)
(* at least one, so that column is.                                        *)

RetryRead(j) ==
    /\ retrying = None
    /\ retries < MaxRetries
    /\ Is(j, "DEAD_LETTER") \/ Is(j, "RETRYABLE")
    /\ retrying' = j
    /\ retries' = retries + 1
    /\ UNCHANGED <<row, pending, workerVars, crashes, overrun>>

\* Mutant of RetryCommit: writes the row although it is gone.
RetryCommitBlind ==
    /\ retrying # None
    /\ row' = [row EXCEPT ![retrying].status = "QUEUED", ![retrying].due = TRUE, ![retrying].attempts = 0]
    /\ retrying' = None
    /\ UNCHANGED <<pending, workerVars, crashes, retries, overrun>>

RetryCommit ==
    /\ retrying # None
    /\ row' = IF Exists(retrying)
              THEN [row EXCEPT ![retrying] = [@ EXCEPT !.status = "QUEUED", !.due = TRUE, !.attempts = 0]]
              ELSE row
    /\ retrying' = None
    /\ UNCHANGED <<pending, workerVars, crashes, retries, overrun>>

-----------------------------------------------------------------------------
(* A worker's poll, process_due_jobs.                                      *)

Lapsed == {j \in Jobs : Is(j, "RUNNING") /\ row[j].lease = "lapsed"}

\* requeue_expired_leases reads without a lock; the lease's SELECT finds these
\* rows in the identity map and does not refresh them.
ScanExpired(w) ==
    /\ pc[w] = "idle"
    /\ expired' = [expired EXCEPT ![w] = Lapsed]
    /\ copy' = [copy EXCEPT ![w] = [j \in Jobs |-> IF j \in Lapsed THEN row[j].attempts ELSE 0]]
    /\ pc' = [pc EXCEPT ![w] = "scanned"]
    /\ UNCHANGED <<row, pending, retrying, batch, current, crashes, retries, overrun>>

\* Mutant of Requeued: ends the lease and leaves the status as it was.
RequeuedLeaseOnly(w) ==
    [j \in Jobs |-> IF j \in expired[w] THEN [row[j] EXCEPT !.lease = "none", !.token = None] ELSE row[j]]

Requeued(w) ==
    [j \in Jobs |-> IF j \in expired[w]
                    THEN [row[j] EXCEPT !.status = "QUEUED", !.lease = "none", !.token = None]
                    ELSE row[j]]

\* Mutant of Leasable: trusts the status and does not look at the lease.
LeasableByStatus(table) ==
    {j \in Jobs : table[j] # NoRow /\ table[j].status \in {"QUEUED", "RETRYABLE"} /\ table[j].due}

\* Mutant of Leasable: takes every row that is not RUNNING.
LeasableUnlessRunning(table) ==
    {j \in Jobs : table[j] # NoRow /\ table[j].status # "RUNNING" /\ table[j].due /\ table[j].lease # "live"}

Leasable(table) ==
    {j \in Jobs : /\ table[j] # NoRow
                  /\ table[j].status \in {"QUEUED", "RETRYABLE"}
                  /\ table[j].due
                  /\ table[j].lease # "live"}

\* The requeue's UPDATE, the locking SELECT of the due rows and the lease's
\* UPDATE, up to the commit.  From the first UPDATE on the rows are locked.
LeaseBatch(w) ==
    /\ pc[w] = "scanned"
    /\ \A j \in expired[w] : Exists(j)
    /\ LET due == Leasable(Requeued(w)) IN
       \E chosen \in SUBSET due :
         /\ Cardinality(chosen) = BatchLimit \/ (chosen = due /\ Cardinality(due) < BatchLimit)
         /\ row' = [j \in Jobs |->
                      IF j \in chosen
                      THEN [Requeued(w)[j] EXCEPT !.status = "RUNNING", !.lease = "live", !.token = w]
                      ELSE Requeued(w)[j]]
         /\ batch' = [batch EXCEPT ![w] = chosen]
         /\ copy' = [copy EXCEPT ![w] = [j \in Jobs |-> CASE j \notin chosen     -> 0
                                                       [] j \in expired[w]   -> copy[w][j]
                                                       [] OTHER              -> row[j].attempts]]
         /\ pc' = [pc EXCEPT ![w] = IF chosen = {} THEN "sweep" ELSE "batch"]
    /\ expired' = [expired EXCEPT ![w] = {}]
    /\ UNCHANGED <<pending, retrying, current, crashes, retries, overrun>>

\* An UPDATE of a row that is gone raises; nothing in the poll catches it.
Exit(w) ==
    /\ pc' = [pc EXCEPT ![w] = "down"]
    /\ expired' = [expired EXCEPT ![w] = {}]
    /\ batch' = [batch EXCEPT ![w] = {}]
    /\ current' = [current EXCEPT ![w] = None]
    /\ copy' = [copy EXCEPT ![w] = [j \in Jobs |-> 0]]

RequeueFails(w) ==
    /\ pc[w] = "scanned"
    /\ \E j \in expired[w] : ~Exists(j)
    /\ Exit(w)
    /\ UNCHANGED <<row, pending, retrying, crashes, retries, overrun>>

Dispatch(w, j) ==
    /\ pc[w] = "batch"
    /\ j \in batch[w]
    /\ current' = [current EXCEPT ![w] = j]
    /\ pc' = [pc EXCEPT ![w] = "handling"]
    /\ UNCHANGED <<row, pending, retrying, expired, batch, copy, crashes, retries, overrun>>

MayEnd(w, end) ==
    /\ pc[w] = "handling"
    /\ end \in Outcomes[row[current[w]].key]

\* The worker's next job, or the sweep that follows the batch.
Advance(w) ==
    /\ batch' = [batch EXCEPT ![w] = @ \ {current[w]}]
    /\ current' = [current EXCEPT ![w] = None]
    /\ pc' = [pc EXCEPT ![w] = IF batch[w] = {current[w]} THEN "sweep" ELSE "batch"]
    /\ copy' = [copy EXCEPT ![w][current[w]] = 0]
    /\ UNCHANGED <<pending, retrying, expired, crashes, retries, overrun>>

\* Mutant of MarkSucceeded: keeps lease and token.
MarkSucceededKeepsLease(w) ==
    /\ pc[w] = "handling"
    /\ Exists(current[w])
    /\ MayEnd(w, "returns")
    /\ row' = [row EXCEPT ![current[w]].status = "SUCCEEDED"]
    /\ Advance(w)

\* mark_job_succeeded compares the worker's copy with the worker's copy: the
\* lease_token test never fails here, and the UPDATE is by id alone.
MarkSucceeded(w) ==
    /\ pc[w] = "handling"
    /\ Exists(current[w])
    /\ MayEnd(w, "returns")
    /\ row' = [row EXCEPT ![current[w]] = [@ EXCEPT !.status = "SUCCEEDED", !.lease = "none", !.token = None]]
    /\ Advance(w)

RetryRow(j, spent, dead) ==
    [row[j] EXCEPT !.attempts = spent, !.status = IF dead THEN "DEAD_LETTER" ELSE "RETRYABLE",
                   !.due = dead, !.lease = "none", !.token = None]

\* Mutant of MarkRetryable: allows one attempt more than max_attempts.
MarkRetryableOnceMore(w) ==
    /\ pc[w] = "handling"
    /\ Exists(current[w])
    /\ MayEnd(w, "raises")
    /\ LET spent == OneMore(copy[w][current[w]])
       IN row' = [row EXCEPT ![current[w]] = RetryRow(current[w], spent, spent > MaxAttempts)]
    /\ Advance(w)

\* Mutant of MarkRetryable: never gives up.
MarkRetryableForEver(w) ==
    /\ pc[w] = "handling"
    /\ Exists(current[w])
    /\ MayEnd(w, "raises")
    /\ row' = [row EXCEPT ![current[w]] = RetryRow(current[w], OneMore(copy[w][current[w]]), FALSE)]
    /\ Advance(w)

\* The handler raised before its first query: no transaction was open, the
\* rollback did nothing, and mark_job_retryable works on the worker's copy.
MarkRetryable(w) ==
    /\ pc[w] = "handling"
    /\ Exists(current[w])
    /\ MayEnd(w, "raises")
    /\ LET spent == OneMore(copy[w][current[w]])
       IN row' = [row EXCEPT ![current[w]] = RetryRow(current[w], spent, spent >= MaxAttempts)]
    /\ Advance(w)

\* The handler raised inside a transaction: the rollback expires every object
\* of the session, `job.id` in the except block then needs I/O outside the
\* async context, and the poll ends with that exception; so does an UPDATE of
\* a row that a sweep deleted.
PollAborts(w) ==
    /\ pc[w] = "handling"
    /\ Exists(current[w]) => MayEnd(w, "raises after a query")
    /\ Exit(w)
    /\ UNCHANGED <<row, pending, retrying, crashes, retries, overrun>>

\* run_maintenance_sweep deletes the succeeded rows older than the retention.
Sweep(w) ==
    /\ pc[w] = "sweep"
    /\ \E old \in SUBSET {j \in Jobs : Is(j, "SUCCEEDED")} :
         row' = [j \in Jobs |-> IF j \in old THEN NoRow ELSE row[j]]
    /\ pc' = [pc EXCEPT ![w] = "idle"]
    /\ UNCHANGED <<pending, retrying, expired, batch, current, copy, crashes, retries, overrun>>

Crash(w) ==
    /\ pc[w] # "down"
    /\ crashes < MaxCrashes
    /\ crashes' = crashes + 1
    /\ Exit(w)
    /\ UNCHANGED <<row, pending, retrying, retries, overrun>>

Restart(w) ==
    /\ pc[w] = "down"
    /\ pc' = [pc EXCEPT ![w] = "idle"]
    /\ UNCHANGED <<row, pending, retrying, expired, batch, current, copy, crashes, retries, overrun>>

-----------------------------------------------------------------------------
(* The clock. *)

LeaseLapses(j) ==
    /\ Exists(j) /\ row[j].lease = "live"
    /\ row' = [row EXCEPT ![j].lease = "lapsed"]
    /\ overrun' = overrun \cup {j}
    /\ UNCHANGED <<pending, retrying, workerVars, crashes, retries>>

RetryDelayElapses(j) ==
    /\ Exists(j) /\ ~row[j].due
    /\ row' = [row EXCEPT ![j].due = TRUE]
    /\ UNCHANGED <<pending, retrying, workerVars, crashes, retries, overrun>>

-----------------------------------------------------------------------------
Produce == \E p \in Producers : \/ \E k \in Keys : EnqueueCheck(p, k)
                                \/ \E j \in Jobs : EnqueueCommit(p, j)

Operate == (\E j \in Jobs : RetryRead(j)) \/ RetryCommit

Settle(w) == MarkSucceeded(w) \/ MarkRetryable(w) \/ PollAborts(w)

Poll(w) == \/ ScanExpired(w) \/ LeaseBatch(w) \/ RequeueFails(w)
           \/ \E j \in Jobs : Dispatch(w, j)
           \/ Settle(w) \/ Sweep(w) \/ Restart(w)

Clock == \E j \in Jobs : LeaseLapses(j) \/ RetryDelayElapses(j)

Next == Produce \/ Operate \/ (\E w \in Workers : Poll(w) \/ Crash(w)) \/ Clock

Spec == Init /\ [][Next]_vars

\* run_worker_loop polls for ever and systemd restarts it; a handler returns or
\* raises; time passes.  Nothing obliges a producer, an operator or a crash.
Fairness ==
    /\ \A w \in Workers : WF_vars(Poll(w))
    /\ \A j \in Jobs : WF_vars(LeaseLapses(j)) /\ WF_vars(RetryDelayElapses(j))

FairSpec == Spec /\ Fairness

-----------------------------------------------------------------------------
(* Type correctness: the values the table and the workers' sessions hold.  *)
TypeOK ==
    /\ row \in [Jobs -> Row \cup {NoRow}]
    /\ pending \in [Producers -> Keys \cup {None}]
    /\ retrying \in Jobs \cup {None}
    /\ pc \in [Workers -> {"idle", "scanned", "batch", "handling", "sweep", "down"}]
    /\ expired \in [Workers -> SUBSET Jobs]
    /\ batch \in [Workers -> SUBSET Jobs]
    /\ current \in [Workers -> Jobs \cup {None}]
    /\ copy \in [Workers -> [Jobs -> 0 .. MaxAttempts + 1]]
    /\ crashes \in 0 .. MaxCrashes
    /\ retries \in 0 .. MaxRetries
    /\ overrun \subseteq Jobs

\* A RUNNING row always has a lease to lapse, so the requeue of a later poll
\* can find it whatever happened to its worker; a settled row has none, so
\* no lease can hide it from the next worker.  Operator, stale requeue and
\* stale worker write different columns of the same row: none leaves it split.
LeaseMatchesStatus ==
    \A j \in Jobs : Exists(j) =>
        /\ row[j].status = "RUNNING" => row[j].lease # "none" /\ row[j].token # None
        /\ row[j].status \in {"RETRYABLE", "SUCCEEDED", "DEAD_LETTER"} =>
             row[j].lease = "none" /\ row[j].token = None

\* No two workers run a job whose lease has never lapsed, whatever an
\* operator's racing retry did to its status in between.
ExclusiveUntilLapse ==
    \A w1, w2 \in Workers, j \in Jobs :
        Holds(w1, j) /\ Holds(w2, j) /\ j \notin overrun => w1 = w2

\* A succeeded job is not run again: only a sweep removes it, unless its lease
\* lapsed while it ran or an operator's retry had read it before.
SucceededStaysSucceeded ==
    [][\A j \in Jobs \ overrun :
         Is(j, "SUCCEEDED") /\ retrying # j => row'[j] \in {row[j], NoRow}]_vars

\* What a job is to the users of the queue.  The row says who leased it; only
\* the worker's session says whether it still works on it, and which attempt.
StateOf(j) ==
    LET owner == row[j].token IN
    IF ~Exists(j) THEN [at |-> "absent"]
    ELSE IF j \in overrun THEN [at |-> "overrun"]
    ELSE IF row[j].lease = "live"
         THEN IF Holds(owner, j) THEN [at |-> "taken", by |-> owner, spent |-> copy[owner][j]]
                                 ELSE [at |-> "orphaned"]
    ELSE CASE row[j].status = "SUCCEEDED"   -> [at |-> "done"]
           [] row[j].status = "DEAD_LETTER" -> [at |-> "dead"]
           [] OTHER -> [at |-> "waiting", spent |-> row[j].attempts, due |-> row[j].due]

Leases == INSTANCE JobLeases WITH job <- [j \in Jobs |-> StateOf(j)], asked <- retrying

\* The queue is a table of leased jobs: a job is taken by one worker, only its
\* taker settles it, each failure counts once and the last one buries it, and
\* a job is run again after it is done only on an operator's request.
ImplementsJobLeases == Leases!Spec

\* A job whose worker died is not RUNNING for ever: its lease lapses and a
\* poll requeues it.
AbandonedJobIsRequeued ==
    \A j \in Jobs :
        (Is(j, "RUNNING") /\ \A w \in Workers : ~Holds(w, j)) ~>
        (~Is(j, "RUNNING") \/ \E w \in Workers : Holds(w, j))

\* Every queued job is settled: it succeeds or it is buried.
EveryJobSettles ==
    \A j \in Jobs :
        Is(j, "QUEUED") ~> ~Exists(j) \/ row[j].status \in {"SUCCEEDED", "DEAD_LETTER"}

\* What the design says of the lease token: a worker settles only a row whose
\* lease it still owns.
StaleWorkerNeverSettles ==
    [][\A w \in Workers :
         pc[w] = "handling" /\ pc'[w] \in {"batch", "sweep"} => row[current[w]].token = w]_vars
=============================================================================
