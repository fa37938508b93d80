------------------------ MODULE OperationsQueueProofs ------------------------
(***************************************************************************)
(* The safety properties of OperationsQueue for any number of jobs,        *)
(* producers and workers and any bounds.                                   *)
(*                                                                         *)
(* A worker's batch and the table are two states that only a transaction   *)
(* relates, so no property is inductive alone.  What carries them is       *)
(* HolderOwns: until a lease lapses, the row still shows the worker that   *)
(* holds the job.  It needs that a stale requeue only meets rows whose     *)
(* lease has lapsed (ScansAreOverrun), that a worker settles a job of its  *)
(* own batch (HandlesItsBatch) and that only a live row is held, which     *)
(* LeaseMatchesStatus gives for the rows a sweep removes.                  *)
(*                                                                         *)
(* The last part shows that the queue implements JobLeases.                *)
(***************************************************************************)
EXTENDS OperationsQueue, TLAPS

HandlesItsBatch == \A w \in Workers : pc[w] = "handling" => current[w] \in batch[w]

ScansAreOverrun == \A w \in Workers : expired[w] \subseteq overrun

HolderOwns ==
    \A w \in Workers, j \in Jobs :
        Holds(w, j) /\ j \notin overrun => Exists(j) /\ row[j].lease = "live" /\ row[j].token = w

\* A lease that lapsed is remembered until the row is gone.
LapsedIsOverrun == \A j \in Jobs : Exists(j) /\ row[j].lease = "lapsed" => j \in overrun

\* An active job whose lease has never lapsed has attempts left: the retry
\* that spends the last one buries it.
ActiveHasAttemptsLeft ==
    \A j \in Jobs \ overrun :
        Exists(j) /\ row[j].status \in Active => row[j].attempts < MaxAttempts

OnlyRetryableWaits ==
    \A j \in Jobs \ overrun : Exists(j) /\ row[j].status # "RETRYABLE" => row[j].due

IInv ==
    /\ TypeOK
    /\ HandlesItsBatch
    /\ ScansAreOverrun
    /\ LapsedIsOverrun
    /\ LeaseMatchesStatus
    /\ HolderOwns
    /\ ActiveHasAttemptsLeft
    /\ OnlyRetryableWaits

-----------------------------------------------------------------------------
\* A row that exists is never mistaken for one that does not.
LEMMA RowIsNotNoRow == \A r \in Row : r # NoRow
BY DEF Row, NoRow, Status

\* An empty queue satisfies the invariant.
LEMMA InitIInv == Init => IInv
<1> SUFFICES ASSUME Init PROVE IInv
  OBVIOUS
<1> USE QueueAssumption DEF Init
<1>1. TypeOK
  BY DEF TypeOK
<1>2. \A j \in Jobs : ~Exists(j)
  BY DEF Exists
<1>3. HandlesItsBatch /\ ScansAreOverrun /\ HolderOwns
  BY DEF HandlesItsBatch, ScansAreOverrun, HolderOwns, Holds
<1>4. LapsedIsOverrun /\ LeaseMatchesStatus /\ ActiveHasAttemptsLeft /\ OnlyRetryableWaits
  BY <1>2 DEF LapsedIsOverrun, LeaseMatchesStatus, ActiveHasAttemptsLeft, OnlyRetryableWaits
<1> QED
  BY <1>1, <1>3, <1>4 DEF IInv

-----------------------------------------------------------------------------
(* Producers and the operator. *)

\* A producer that finds no active job writes nothing yet.
LEMMA EnqueueCheckIInv ==
    ASSUME IInv, NEW p \in Producers, NEW k \in Keys, EnqueueCheck(p, k)
    PROVE  IInv'
<1> USE DEF EnqueueCheck, workerVars
<1>1. TypeOK'
  BY DEF IInv, TypeOK
<1>2. QED
  BY <1>1 DEF IInv, HandlesItsBatch, ScansAreOverrun, LapsedIsOverrun, LeaseMatchesStatus, HolderOwns,
              ActiveHasAttemptsLeft, OnlyRetryableWaits, Holds, Exists

\* A new job is nobody's: no worker holds or has scanned a fresh row.
LEMMA EnqueueCommitIInv ==
    ASSUME IInv, NEW p \in Producers, NEW j \in Jobs, EnqueueCommit(p, j)
    PROVE  IInv'
<1> DEFINE new == [status |-> "QUEUED", key |-> pending[p], attempts |-> 0,
                   lease |-> "none", token |-> None, due |-> TRUE]
<1>1. /\ TypeOK /\ Fresh(j) /\ pending[p] \in Keys
      /\ row' = [row EXCEPT ![j] = new]
      /\ overrun' = overrun \ {j}
      /\ pending' = [pending EXCEPT ![p] = None]
      /\ UNCHANGED <<retrying, workerVars, crashes, retries>>
  BY DEF IInv, TypeOK, EnqueueCommit
<1>2. new \in Row
  BY <1>1, QueueAssumption DEF Row, Status, Lease
<1>3. TypeOK'
  BY <1>1, <1>2 DEF TypeOK, workerVars
<1>4. row'[j] = new /\ \A i \in Jobs \ {j} : row'[i] = row[i]
  BY <1>1 DEF TypeOK
<1>5. HandlesItsBatch' /\ ScansAreOverrun'
  BY <1>1 DEF IInv, HandlesItsBatch, ScansAreOverrun, workerVars, Fresh
<1>6. HolderOwns'
  BY <1>1, <1>4 DEF IInv, HolderOwns, workerVars, Fresh, Holds, Exists
<1>7. LapsedIsOverrun' /\ LeaseMatchesStatus' /\ ActiveHasAttemptsLeft' /\ OnlyRetryableWaits'
  BY <1>1, <1>4, QueueAssumption
     DEF IInv, LapsedIsOverrun, LeaseMatchesStatus, ActiveHasAttemptsLeft, OnlyRetryableWaits, Exists
<1> QED
  BY <1>3, <1>5, <1>6, <1>7 DEF IInv

\* An operator's request that has only read changes nothing.
LEMMA RetryReadIInv ==
    ASSUME IInv, NEW j \in Jobs, RetryRead(j)
    PROVE  IInv'
<1> USE DEF RetryRead, workerVars
<1>1. TypeOK'
  BY QueueAssumption DEF IInv, TypeOK
<1>2. QED
  BY <1>1 DEF IInv, HandlesItsBatch, ScansAreOverrun, LapsedIsOverrun, LeaseMatchesStatus, HolderOwns,
              ActiveHasAttemptsLeft, OnlyRetryableWaits, Holds, Exists

\* One row replaced by another row: the others stay, and no row comes or goes.
LEMMA RowReplaced ==
    ASSUME TypeOK, NEW j \in Jobs, Exists(j), NEW new \in Row, row' = [row EXCEPT ![j] = new]
    PROVE  /\ row' \in [Jobs -> Row \cup {NoRow}]
           /\ row'[j] = new
           /\ \A i \in Jobs \ {j} : row'[i] = row[i]
           /\ \A i \in Jobs : Exists(i)' <=> Exists(i)
BY RowIsNotNoRow DEF TypeOK, Exists

\* An operator's retry leaves the lease of the row alone, whoever runs it by now.
LEMMA RetryCommitIInv ==
    ASSUME IInv, RetryCommit
    PROVE  IInv'
<1>1. /\ TypeOK /\ retrying \in Jobs
      /\ retrying' = None
      /\ UNCHANGED <<pending, workerVars, crashes, retries, overrun>>
  BY DEF IInv, TypeOK, RetryCommit
<1>2. CASE ~Exists(retrying)
  <2>1. row' = row
    BY <1>2 DEF RetryCommit
  <2>2. TypeOK'
    BY <1>1, <2>1 DEF TypeOK, workerVars
  <2> QED
    BY <1>1, <2>1, <2>2
       DEF IInv, HandlesItsBatch, ScansAreOverrun, LapsedIsOverrun, LeaseMatchesStatus, HolderOwns,
           ActiveHasAttemptsLeft, OnlyRetryableWaits, Holds, Exists, workerVars
<1>3. CASE Exists(retrying)
  <2> DEFINE old == row[retrying]
             new == [old EXCEPT !.status = "QUEUED", !.due = TRUE, !.attempts = 0]
  <2>1. old \in Row
    BY <1>1, <1>3 DEF TypeOK, Exists
  <2>2. new \in Row /\ new.lease = old.lease /\ new.token = old.token
        /\ new.status = "QUEUED" /\ new.due = TRUE /\ new.attempts = 0
    <3> HIDE DEF old
    <3>1. 0 \in 0 .. MaxAttempts + 1
      BY QueueAssumption
    <3> QED
      BY <2>1, <3>1 DEF Row, Status
  <2>3. row' = [row EXCEPT ![retrying] = new]
    BY <1>3 DEF RetryCommit
  <2>4. /\ row' \in [Jobs -> Row \cup {NoRow}]
        /\ row'[retrying] = new
        /\ \A i \in Jobs \ {retrying} : row'[i] = row[i]
        /\ \A i \in Jobs : Exists(i)' <=> Exists(i)
    <3> HIDE DEF new, old
    <3> QED
      BY <1>1, <1>3, <2>2, <2>3, RowReplaced
  <2> HIDE DEF new
  <2>5. TypeOK'
    BY <1>1, <2>4 DEF TypeOK, workerVars
  <2>6. HandlesItsBatch' /\ ScansAreOverrun'
    BY <1>1 DEF IInv, HandlesItsBatch, ScansAreOverrun, workerVars
  <2>7. LapsedIsOverrun' /\ LeaseMatchesStatus' /\ HolderOwns'
    BY <1>1, <2>2, <2>4 DEF IInv, LapsedIsOverrun, LeaseMatchesStatus, HolderOwns, Holds, workerVars
  <2>8. ActiveHasAttemptsLeft' /\ OnlyRetryableWaits'
    BY <1>1, <2>2, <2>4, QueueAssumption DEF IInv, ActiveHasAttemptsLeft, OnlyRetryableWaits
  <2> QED
    BY <2>5, <2>6, <2>7, <2>8 DEF IInv
<1> QED
  BY <1>2, <1>3

-----------------------------------------------------------------------------
(* A worker's poll. *)

\* A poll's unlocked read sees as lapsed only what has lapsed.
LEMMA ScanExpiredIInv ==
    ASSUME IInv, NEW w \in Workers, ScanExpired(w)
    PROVE  IInv'
<1>1. /\ TypeOK
      /\ expired' = [expired EXCEPT ![w] = Lapsed]
      /\ pc' = [pc EXCEPT ![w] = "scanned"]
      /\ UNCHANGED <<row, pending, retrying, batch, current, crashes, retries, overrun>>
  BY DEF IInv, ScanExpired
<1>2. copy' \in [Workers -> [Jobs -> 0 .. MaxAttempts + 1]]
  <2> DEFINE mine == [j \in Jobs |-> IF j \in Lapsed THEN row[j].attempts ELSE 0]
  <2>1. \A j \in Lapsed : row[j] \in Row
    BY <1>1 DEF TypeOK, Lapsed, Is, Exists
  <2>2. mine \in [Jobs -> 0 .. MaxAttempts + 1]
    BY <2>1, QueueAssumption DEF Row
  <2>3. copy' = [copy EXCEPT ![w] = mine]
    BY DEF ScanExpired
  <2> QED
    BY <1>1, <2>2, <2>3 DEF TypeOK
<1>3. TypeOK'
  BY <1>1, <1>2 DEF TypeOK, Lapsed
<1>4. ScansAreOverrun'
  BY <1>1 DEF IInv, TypeOK, ScansAreOverrun, LapsedIsOverrun, Lapsed, Is
<1>5. HandlesItsBatch'
  BY <1>1 DEF IInv, TypeOK, HandlesItsBatch
<1> QED
  BY <1>1, <1>3, <1>4, <1>5
     DEF IInv, LapsedIsOverrun, LeaseMatchesStatus, HolderOwns, ActiveHasAttemptsLeft, OnlyRetryableWaits,
         Holds, Exists

\* A lease takes only rows without a live lease, so their holder, if any, has lapsed.
LEMMA LeaseBatchIInv ==
    ASSUME IInv, NEW w \in Workers, LeaseBatch(w)
    PROVE  IInv'
<1> DEFINE table == Requeued(w)
<1>1. /\ TypeOK
      /\ \A j \in expired[w] : Exists(j)
      /\ expired' = [expired EXCEPT ![w] = {}]
      /\ UNCHANGED <<pending, retrying, current, crashes, retries, overrun>>
  BY DEF IInv, LeaseBatch
<1>2. PICK chosen \in SUBSET Leasable(table) :
        /\ row' = [j \in Jobs |->
                      IF j \in chosen
                      THEN [table[j] EXCEPT !.status = "RUNNING", !.lease = "live", !.token = w]
                      ELSE table[j]]
        /\ batch' = [batch EXCEPT ![w] = chosen]
        /\ copy' = [copy EXCEPT ![w] = [j \in Jobs |-> CASE j \notin chosen     -> 0
                                                      [] j \in expired[w]   -> copy[w][j]
                                                      [] OTHER              -> row[j].attempts]]
        /\ pc' = [pc EXCEPT ![w] = IF chosen = {} THEN "sweep" ELSE "batch"]
  BY DEF LeaseBatch
\* What the requeue leaves: the rows it scanned are free again, the others untouched.
<1>3. \A j \in Jobs : /\ (table[j] # NoRow) <=> Exists(j)
                      /\ Exists(j) => table[j] \in Row
                      /\ j \notin expired[w] => table[j] = row[j]
                      /\ j \in expired[w] => table[j].status = "QUEUED" /\ table[j].lease = "none"
  <2> SUFFICES ASSUME NEW j \in Jobs
               PROVE  /\ (table[j] # NoRow) <=> Exists(j)
                      /\ Exists(j) => table[j] \in Row
                      /\ j \notin expired[w] => table[j] = row[j]
                      /\ j \in expired[w] => table[j].status = "QUEUED" /\ table[j].lease = "none"
    OBVIOUS
  <2>1. CASE j \in expired[w]
    <3> DEFINE old == row[j]
               new == [old EXCEPT !.status = "QUEUED", !.lease = "none", !.token = None]
    <3>1. Exists(j) /\ old \in Row
      BY <1>1, <2>1 DEF TypeOK, Exists
    <3>2. table[j] = new
      BY <2>1 DEF Requeued
    <3>3. new \in Row /\ new.status = "QUEUED" /\ new.lease = "none"
      <4> HIDE DEF old
      <4> QED
        BY <3>1 DEF Row, Status, Lease
    <3> HIDE DEF new, table
    <3> QED
      BY <2>1, <3>1, <3>2, <3>3, RowIsNotNoRow
  <2>2. CASE j \notin expired[w]
    BY <1>1, <2>2 DEF Requeued, TypeOK, Exists
  <2> QED
    BY <2>1, <2>2
<1> HIDE DEF table
<1>4. \A j \in chosen : /\ j \in Jobs /\ Exists(j) /\ table[j] \in Row /\ table[j].due
                        /\ table[j].status \in {"QUEUED", "RETRYABLE"} /\ table[j].lease # "live"
  BY <1>2, <1>3 DEF Leasable
\* What the lease then makes of a chosen row.
<1>5. \A j \in chosen : /\ row'[j] \in Row /\ row'[j].status = "RUNNING" /\ row'[j].lease = "live"
                        /\ row'[j].token = w /\ row'[j].due
                        /\ row'[j].attempts = table[j].attempts
  <2> SUFFICES ASSUME NEW j \in chosen
               PROVE  /\ row'[j] \in Row /\ row'[j].status = "RUNNING" /\ row'[j].lease = "live"
                      /\ row'[j].token = w /\ row'[j].due
                      /\ row'[j].attempts = table[j].attempts
    OBVIOUS
  <2> DEFINE old == table[j]
             new == [old EXCEPT !.status = "RUNNING", !.lease = "live", !.token = w]
  <2>1. row'[j] = new
    BY <1>2, <1>4
  <2>2. old \in Row /\ old.due
    BY <1>4
  <2>3. /\ new \in Row /\ new.status = "RUNNING" /\ new.lease = "live" /\ new.token = w
        /\ new.due /\ new.attempts = old.attempts
    <3> HIDE DEF old
    <3> QED
      BY <2>2 DEF Row, Status, Lease
  <2> HIDE DEF new
  <2> QED
    BY <2>1, <2>3
<1>6. \A j \in Jobs \ chosen : row'[j] = table[j]
  BY <1>2
<1>7. \A j \in Jobs : Exists(j)' <=> Exists(j)
  BY <1>3, <1>4, <1>5, <1>6, RowIsNotNoRow DEF Exists
<1>8. TypeOK'
  <2>1. row' \in [Jobs -> Row \cup {NoRow}]
    <3>1. \A j \in Jobs : row'[j] \in Row \cup {NoRow}
      BY <1>3, <1>5, <1>6
    <3>2. DOMAIN row' = Jobs /\ row' = [j \in DOMAIN row' |-> row'[j]]
      BY <1>2
    <3> QED
      BY <3>1, <3>2
  <2>2. batch' \in [Workers -> SUBSET Jobs] /\ expired' \in [Workers -> SUBSET Jobs]
    BY <1>1, <1>2, <1>4 DEF TypeOK
  <2>3. copy' \in [Workers -> [Jobs -> 0 .. MaxAttempts + 1]]
    <3> DEFINE mine == [j \in Jobs |-> CASE j \notin chosen   -> 0
                                       [] j \in expired[w] -> copy[w][j]
                                       [] OTHER            -> row[j].attempts]
    <3>1. \A j \in chosen : row[j].attempts \in 0 .. MaxAttempts + 1
      BY <1>1, <1>4 DEF TypeOK, Exists, Row
    <3>2. mine \in [Jobs -> 0 .. MaxAttempts + 1]
      BY <1>1, <3>1, QueueAssumption DEF TypeOK
    <3> QED
      BY <1>1, <1>2, <3>2 DEF TypeOK
  <2>4. pc' \in [Workers -> {"idle", "scanned", "batch", "handling", "sweep", "down"}]
    BY <1>1, <1>2 DEF TypeOK
  <2> QED
    BY <1>1, <2>1, <2>2, <2>3, <2>4 DEF TypeOK
<1>9. HandlesItsBatch' /\ ScansAreOverrun'
  BY <1>1, <1>2 DEF IInv, TypeOK, HandlesItsBatch, ScansAreOverrun
<1>10. LapsedIsOverrun' /\ LeaseMatchesStatus'
  BY <1>1, <1>3, <1>5, <1>6, <1>7, QueueAssumption DEF IInv, LapsedIsOverrun, LeaseMatchesStatus
\* Nobody holds a chosen row whose lease has never lapsed: it was not live.
<1>11. HolderOwns'
  <2> SUFFICES ASSUME NEW v \in Workers, NEW j \in Jobs, Holds(v, j)', j \notin overrun
               PROVE  Exists(j)' /\ row'[j].lease = "live" /\ row'[j].token = v
    BY <1>1 DEF HolderOwns
  <2>1. CASE v = w
    BY <1>1, <1>2, <1>4, <1>5, <1>7, <2>1 DEF TypeOK, Holds
  <2>2. CASE v # w
    <3>1. Holds(v, j) /\ j \notin expired[w]
      BY <1>1, <1>2, <2>2 DEF IInv, TypeOK, Holds, ScansAreOverrun
    <3>2. Exists(j) /\ row[j].lease = "live" /\ row[j].token = v
      BY <3>1 DEF IInv, HolderOwns
    <3> QED
      BY <1>3, <1>4, <1>6, <1>7, <3>1, <3>2
  <2> QED
    BY <2>1, <2>2
<1>12. ActiveHasAttemptsLeft' /\ OnlyRetryableWaits'
  BY <1>1, <1>3, <1>4, <1>5, <1>6, <1>7
     DEF IInv, ActiveHasAttemptsLeft, OnlyRetryableWaits, ScansAreOverrun, Active
<1> QED
  BY <1>8, <1>9, <1>10, <1>11, <1>12 DEF IInv

\* A worker that ends holds nothing any more.
LEMMA ExitIInv ==
    ASSUME IInv, NEW w \in Workers, Exit(w), crashes' \in 0 .. MaxCrashes,
           UNCHANGED <<row, pending, retrying, retries, overrun>>
    PROVE  IInv'
<1>1. TypeOK'
  <2>1. [j \in Jobs |-> 0] \in [Jobs -> 0 .. MaxAttempts + 1]
    BY QueueAssumption
  <2> QED
    BY <2>1 DEF IInv, TypeOK, Exit
<1>2. HandlesItsBatch' /\ ScansAreOverrun'
  BY DEF IInv, TypeOK, Exit, HandlesItsBatch, ScansAreOverrun
<1>3. HolderOwns'
  BY DEF IInv, TypeOK, Exit, HolderOwns, Holds, Exists
<1> QED
  BY <1>1, <1>2, <1>3
     DEF IInv, LapsedIsOverrun, LeaseMatchesStatus, ActiveHasAttemptsLeft, OnlyRetryableWaits, Exists

\* A worker handles a job of its batch.
LEMMA DispatchIInv ==
    ASSUME IInv, NEW w \in Workers, NEW j \in Jobs, Dispatch(w, j)
    PROVE  IInv'
<1> USE DEF Dispatch
<1>1. TypeOK'
  BY DEF IInv, TypeOK
<1>2. HandlesItsBatch'
  BY DEF IInv, TypeOK, HandlesItsBatch
<1> QED
  BY <1>1, <1>2
     DEF IInv, ScansAreOverrun, LapsedIsOverrun, LeaseMatchesStatus, HolderOwns, ActiveHasAttemptsLeft,
         OnlyRetryableWaits, Holds, Exists

\* What both ways of settling a job have in common: the row is no longer live,
\* so it must have been held by nobody else.
LEMMA SettleIInv ==
    ASSUME IInv, NEW w \in Workers, pc[w] = "handling", Exists(current[w]), Advance(w),
           NEW new \in Row, row' = [row EXCEPT ![current[w]] = new],
           new.status \in {"SUCCEEDED", "RETRYABLE", "DEAD_LETTER"}, new.lease = "none", new.token = None,
           new.status = "RETRYABLE" => new.attempts < MaxAttempts,
           current[w] \notin overrun => (new.status # "RETRYABLE" => new.due)
    PROVE  IInv'
<1>1. TypeOK /\ current[w] \in Jobs /\ current[w] \in batch[w]
  BY DEF IInv, TypeOK, HandlesItsBatch
<1>2. /\ row' \in [Jobs -> Row \cup {NoRow}]
      /\ row'[current[w]] = new
      /\ \A i \in Jobs \ {current[w]} : row'[i] = row[i]
      /\ \A i \in Jobs : Exists(i)' <=> Exists(i)
  BY <1>1, RowReplaced
<1>3. TypeOK'
  <2>1. copy' \in [Workers -> [Jobs -> 0 .. MaxAttempts + 1]]
    BY <1>1, QueueAssumption DEF TypeOK, Advance
  <2> QED
    BY <1>1, <1>2, <2>1 DEF TypeOK, Advance
<1>4. HandlesItsBatch' /\ ScansAreOverrun'
  BY DEF IInv, TypeOK, HandlesItsBatch, ScansAreOverrun, Advance
<1>5. LapsedIsOverrun' /\ LeaseMatchesStatus'
  BY <1>2 DEF IInv, LapsedIsOverrun, LeaseMatchesStatus, Advance
<1>6. HolderOwns'
  <2> SUFFICES ASSUME NEW v \in Workers, NEW j \in Jobs, Holds(v, j)', j \notin overrun
               PROVE  Exists(j)' /\ row'[j].lease = "live" /\ row'[j].token = v
    BY DEF HolderOwns, Advance
  <2>1. Holds(v, j) /\ ~(v = w /\ j = current[w])
    BY <1>1 DEF TypeOK, Holds, Advance
  <2>2. Exists(j) /\ row[j].lease = "live" /\ row[j].token = v
    BY <2>1 DEF IInv, HolderOwns
  <2>3. j # current[w]
    BY <1>1, <2>1, <2>2 DEF IInv, HolderOwns, Holds
  <2> QED
    BY <1>2, <2>2, <2>3
<1>7. ActiveHasAttemptsLeft' /\ OnlyRetryableWaits'
  BY <1>2 DEF IInv, ActiveHasAttemptsLeft, OnlyRetryableWaits, Active, Advance
<1> QED
  BY <1>3, <1>4, <1>5, <1>6, <1>7 DEF IInv

\* mark_job_succeeded settles a row its worker holds.
LEMMA MarkSucceededIInv ==
    ASSUME IInv, NEW w \in Workers, MarkSucceeded(w)
    PROVE  IInv'
<1> DEFINE old == row[current[w]]
           new == [old EXCEPT !.status = "SUCCEEDED", !.lease = "none", !.token = None]
<1>1. current[w] \in Jobs /\ current[w] \in batch[w] /\ old \in Row
  BY DEF IInv, TypeOK, HandlesItsBatch, MarkSucceeded, Exists
<1>2. row' = [row EXCEPT ![current[w]] = new]
  BY DEF MarkSucceeded
<1>3. /\ new \in Row /\ new.status = "SUCCEEDED" /\ new.lease = "none" /\ new.token = None
      /\ new.due = old.due
  <2> HIDE DEF old
  <2> QED
    BY <1>1 DEF Row, Status, Lease
\* An owner's row is live, hence not waiting for a retry, hence due.
<1>4. current[w] \notin overrun => old.due
  BY <1>1 DEF IInv, HolderOwns, Holds, LeaseMatchesStatus, OnlyRetryableWaits
<1> HIDE DEF new, old
<1> QED
  BY <1>2, <1>3, <1>4, SettleIInv DEF MarkSucceeded

\* mark_job_retryable leaves attempts or buries the job.
LEMMA MarkRetryableIInv ==
    ASSUME IInv, NEW w \in Workers, MarkRetryable(w)
    PROVE  IInv'
<1> DEFINE old   == row[current[w]]
           spent == OneMore(copy[w][current[w]])
           dead  == spent >= MaxAttempts
           new   == RetryRow(current[w], spent, dead)
<1>1. current[w] \in Jobs /\ old \in Row
  BY DEF IInv, TypeOK, HandlesItsBatch, MarkRetryable, Exists
<1>2. row' = [row EXCEPT ![current[w]] = new]
  BY DEF MarkRetryable
<1>3. spent \in 0 .. MaxAttempts + 1 /\ dead \in BOOLEAN
  <2>1. copy[w][current[w]] \in 0 .. MaxAttempts + 1
    BY <1>1 DEF IInv, TypeOK
  <2> QED
    BY <2>1, QueueAssumption DEF OneMore
<1>4. /\ new \in Row /\ new.lease = "none" /\ new.token = None
      /\ new.attempts = spent /\ new.due = dead
      /\ new.status = IF dead THEN "DEAD_LETTER" ELSE "RETRYABLE"
  <2> DEFINE status == IF dead THEN "DEAD_LETTER" ELSE "RETRYABLE"
  <2>1. new = [old EXCEPT !.attempts = spent, !.status = status, !.due = dead, !.lease = "none",
                          !.token = None]
    BY DEF RetryRow
  <2>2. status \in Status
    BY DEF Status
  <2> HIDE DEF old, spent, dead, new, status
  <2>3. /\ new \in Row /\ new.lease = "none" /\ new.token = None
        /\ new.attempts = spent /\ new.due = dead /\ new.status = status
    BY <1>1, <1>3, <2>1, <2>2 DEF Row, Lease
  <2> QED
    BY <2>3 DEF status
<1>5. new.status = "RETRYABLE" => new.attempts < MaxAttempts
  <2> HIDE DEF spent, new
  <2> QED
    BY <1>3, <1>4, QueueAssumption
<1>6. new.status # "RETRYABLE" => new.due
  <2> HIDE DEF new
  <2> QED
    BY <1>4
<1>7. /\ new \in Row /\ new.lease = "none" /\ new.token = None
      /\ new.status \in {"SUCCEEDED", "RETRYABLE", "DEAD_LETTER"}
  <2> HIDE DEF new
  <2> QED
    BY <1>4
<1> HIDE DEF new
<1> QED
  BY <1>2, <1>5, <1>6, <1>7, SettleIInv DEF MarkRetryable

\* A sweep removes succeeded rows: no lease covers them, so no worker whose
\* lease never lapsed holds one.
LEMMA SweepIInv ==
    ASSUME IInv, NEW w \in Workers, Sweep(w)
    PROVE  IInv'
<1>1. PICK old \in SUBSET {j \in Jobs : Is(j, "SUCCEEDED")} :
        row' = [j \in Jobs |-> IF j \in old THEN NoRow ELSE row[j]]
  BY DEF Sweep
<1>2. /\ pc' = [pc EXCEPT ![w] = "idle"]
      /\ UNCHANGED <<pending, retrying, expired, batch, current, copy, crashes, retries, overrun>>
  BY DEF Sweep
<1>3. \A j \in Jobs : Exists(j)' => row'[j] = row[j] /\ Exists(j)
  BY <1>1 DEF Exists
<1>4. \A j \in Jobs : Exists(j) /\ row[j].status # "SUCCEEDED" => Exists(j)'
  BY <1>1 DEF Exists, Is
<1>5. TypeOK'
  BY <1>1, <1>2 DEF IInv, TypeOK
<1>6. HandlesItsBatch' /\ ScansAreOverrun'
  BY <1>2 DEF IInv, TypeOK, HandlesItsBatch, ScansAreOverrun
<1>7. HolderOwns'
  <2> SUFFICES ASSUME NEW v \in Workers, NEW j \in Jobs, Holds(v, j), j \notin overrun
               PROVE  Exists(j)' /\ row'[j].lease = "live" /\ row'[j].token = v
    BY <1>2 DEF HolderOwns, Holds
  <2>1. Exists(j) /\ row[j].lease = "live" /\ row[j].token = v
    BY DEF IInv, HolderOwns
  <2>2. row[j].status # "SUCCEEDED"
    BY <2>1 DEF IInv, LeaseMatchesStatus
  <2> QED
    BY <1>3, <1>4, <2>1, <2>2
<1> QED
  BY <1>2, <1>3, <1>5, <1>6, <1>7
     DEF IInv, LapsedIsOverrun, LeaseMatchesStatus, ActiveHasAttemptsLeft, OnlyRetryableWaits

\* A restarted worker holds nothing.
LEMMA RestartIInv ==
    ASSUME IInv, NEW w \in Workers, Restart(w)
    PROVE  IInv'
<1> USE DEF Restart
<1>1. TypeOK' /\ HandlesItsBatch'
  BY DEF IInv, TypeOK, HandlesItsBatch
<1> QED
  BY <1>1 DEF IInv, ScansAreOverrun, LapsedIsOverrun, LeaseMatchesStatus, HolderOwns,
              ActiveHasAttemptsLeft, OnlyRetryableWaits, Holds, Exists

-----------------------------------------------------------------------------
(* The clock. *)

\* A lease that lapses is remembered in overrun, which the invariant exempts.
LEMMA LeaseLapsesIInv ==
    ASSUME IInv, NEW j \in Jobs, LeaseLapses(j)
    PROVE  IInv'
<1> DEFINE old == row[j]
           new == [old EXCEPT !.lease = "lapsed"]
<1>1. /\ TypeOK /\ Exists(j) /\ old \in Row /\ old.lease = "live"
      /\ row' = [row EXCEPT ![j] = new]
      /\ overrun' = overrun \cup {j}
      /\ UNCHANGED <<pending, retrying, workerVars, crashes, retries>>
  BY DEF IInv, TypeOK, Exists, LeaseLapses
<1>2. new \in Row /\ new.lease = "lapsed" /\ new.status = old.status /\ new.token = old.token
  <2> HIDE DEF old
  <2> QED
    BY <1>1 DEF Row, Lease
<1>3. /\ row' \in [Jobs -> Row \cup {NoRow}]
      /\ row'[j] = new
      /\ \A i \in Jobs \ {j} : row'[i] = row[i]
      /\ \A i \in Jobs : Exists(i)' <=> Exists(i)
  <2> HIDE DEF new, old
  <2> QED
    BY <1>1, <1>2, RowReplaced
<1>4. TypeOK'
  BY <1>1, <1>3 DEF TypeOK, workerVars
<1> HIDE DEF new
<1>5. HandlesItsBatch' /\ ScansAreOverrun' /\ HolderOwns'
  BY <1>1, <1>3 DEF IInv, HandlesItsBatch, ScansAreOverrun, HolderOwns, Holds, workerVars
<1>6. LapsedIsOverrun' /\ LeaseMatchesStatus'
  BY <1>1, <1>2, <1>3 DEF IInv, LapsedIsOverrun, LeaseMatchesStatus
<1>7. ActiveHasAttemptsLeft' /\ OnlyRetryableWaits'
  BY <1>1, <1>3 DEF IInv, ActiveHasAttemptsLeft, OnlyRetryableWaits
<1> QED
  BY <1>4, <1>5, <1>6, <1>7 DEF IInv

\* A row whose delay elapses is otherwise as it was.
LEMMA RetryDelayElapsesIInv ==
    ASSUME IInv, NEW j \in Jobs, RetryDelayElapses(j)
    PROVE  IInv'
<1> DEFINE old == row[j]
           new == [old EXCEPT !.due = TRUE]
<1>1. /\ TypeOK /\ Exists(j) /\ old \in Row
      /\ row' = [row EXCEPT ![j] = new]
      /\ UNCHANGED <<pending, retrying, workerVars, crashes, retries, overrun>>
  BY DEF IInv, TypeOK, Exists, RetryDelayElapses
<1>2. /\ new \in Row /\ new.due /\ new.lease = old.lease /\ new.status = old.status
      /\ new.token = old.token /\ new.attempts = old.attempts
  <2> HIDE DEF old
  <2> QED
    BY <1>1 DEF Row
<1>3. /\ row' \in [Jobs -> Row \cup {NoRow}]
      /\ row'[j] = new
      /\ \A i \in Jobs \ {j} : row'[i] = row[i]
      /\ \A i \in Jobs : Exists(i)' <=> Exists(i)
  <2> HIDE DEF new, old
  <2> QED
    BY <1>1, <1>2, RowReplaced
<1>4. TypeOK'
  BY <1>1, <1>3 DEF TypeOK, workerVars
<1> HIDE DEF new
<1>5. HandlesItsBatch' /\ ScansAreOverrun' /\ HolderOwns'
  BY <1>1, <1>2, <1>3 DEF IInv, HandlesItsBatch, ScansAreOverrun, HolderOwns, Holds, workerVars
<1>6. LapsedIsOverrun' /\ LeaseMatchesStatus'
  BY <1>1, <1>2, <1>3 DEF IInv, LapsedIsOverrun, LeaseMatchesStatus
<1>7. ActiveHasAttemptsLeft' /\ OnlyRetryableWaits'
  BY <1>1, <1>2, <1>3 DEF IInv, ActiveHasAttemptsLeft, OnlyRetryableWaits
<1> QED
  BY <1>4, <1>5, <1>6, <1>7 DEF IInv

-----------------------------------------------------------------------------
(* The specification. *)

\* The invariant holds at every step of the queue, of its users and of the clock.
LEMMA NextIInv == IInv /\ [Next]_vars => IInv'
<1> SUFFICES ASSUME IInv, [Next]_vars PROVE IInv'
  OBVIOUS
<1>1. CASE UNCHANGED vars
  BY <1>1 DEF vars, IInv, TypeOK, HandlesItsBatch, ScansAreOverrun, LapsedIsOverrun, LeaseMatchesStatus,
              HolderOwns, ActiveHasAttemptsLeft, OnlyRetryableWaits, Holds, Exists
<1>2. CASE Produce
  BY <1>2, EnqueueCheckIInv, EnqueueCommitIInv DEF Produce
<1>3. CASE Operate
  BY <1>3, RetryReadIInv, RetryCommitIInv DEF Operate
<1>4. ASSUME NEW w \in Workers, Poll(w) PROVE IInv'
  <2>1. crashes \in 0 .. MaxCrashes
    BY DEF IInv, TypeOK
  <2>2. CASE RequeueFails(w)
    BY <2>1, <2>2, ExitIInv DEF RequeueFails
  <2>3. CASE PollAborts(w)
    BY <2>1, <2>3, ExitIInv DEF PollAborts
  <2> QED
    BY <1>4, <2>2, <2>3, ScanExpiredIInv, LeaseBatchIInv, DispatchIInv, MarkSucceededIInv, MarkRetryableIInv,
       SweepIInv, RestartIInv
       DEF Poll, Settle
<1>5. ASSUME NEW w \in Workers, Crash(w) PROVE IInv'
  <2>1. crashes' \in 0 .. MaxCrashes
    BY <1>5, QueueAssumption DEF IInv, TypeOK, Crash
  <2> QED
    BY <1>5, <2>1, ExitIInv DEF Crash
<1>6. CASE Clock
  BY <1>6, LeaseLapsesIInv, RetryDelayElapsesIInv DEF Clock
<1> QED
  BY <1>1, <1>2, <1>3, <1>4, <1>5, <1>6 DEF Next

\* Every reachable state of the table and of the workers satisfies the invariant.
THEOREM QueueInvariant == Spec => []IInv
<1> QED
  BY InitIInv, NextIInv, PTL DEF Spec

\* The table and the workers' sessions hold values of their types
\* (models/operations.py), for any number of jobs, workers and retries.
THEOREM QueueTypeOK == Spec => []TypeOK
<1>1. IInv => TypeOK
  BY DEF IInv
<1> QED
  BY <1>1, QueueInvariant, PTL

\* No interleaving of leases, stale requeues, operator retries and settlements
\* leaves a RUNNING row without a lease or a settled row with one
\* (requeue_expired_leases, mark_job_succeeded, mark_job_retryable).
THEOREM QueueLeaseMatchesStatus == Spec => []LeaseMatchesStatus
<1>1. IInv => LeaseMatchesStatus
  BY DEF IInv
<1> QED
  BY <1>1, QueueInvariant, PTL

\* Mutual exclusion of lease_due_jobs: until its lease lapses a job is in the
\* batch of one worker.
THEOREM QueueExclusive == Spec => []ExclusiveUntilLapse
<1>1. IInv => ExclusiveUntilLapse
  BY DEF IInv, HolderOwns, ExclusiveUntilLapse
<1> QED
  BY <1>1, QueueInvariant, PTL

\* A job that may still be leased has attempts left: mark_job_retryable buries
\* it with the last one.
THEOREM QueueAttemptsLeft == Spec => []ActiveHasAttemptsLeft
<1>1. IInv => ActiveHasAttemptsLeft
  BY DEF IInv
<1> QED
  BY <1>1, QueueInvariant, PTL

\* No action touches a succeeded row but a sweep: nobody holds it, no scan has
\* seen it, and it is not waiting for a delay to elapse.
LEMMA SucceededStep ==
    ASSUME IInv, Next, NEW j \in Jobs \ overrun, Is(j, "SUCCEEDED"), retrying # j
    PROVE  row'[j] \in {row[j], NoRow}
<1>1. /\ TypeOK /\ Exists(j) /\ row[j].status = "SUCCEEDED"
      /\ row[j].lease = "none" /\ row[j].due
      /\ \A w \in Workers : ~Holds(w, j) /\ j \notin expired[w]
  BY DEF IInv, Is, LeaseMatchesStatus, OnlyRetryableWaits, HolderOwns, ScansAreOverrun
<1>2. CASE Produce
  BY <1>1, <1>2 DEF Produce, EnqueueCheck, EnqueueCommit, Fresh, TypeOK
<1>3. CASE Operate
  <2>1. CASE RetryCommit
    BY <1>1, <2>1 DEF RetryCommit, TypeOK
  <2> QED
    BY <1>3, <2>1 DEF Operate, RetryRead
<1>4. ASSUME NEW w \in Workers, LeaseBatch(w) PROVE row'[j] = row[j]
  <2>1. Requeued(w)[j] = row[j]
    BY <1>1 DEF Requeued
  <2>2. j \notin Leasable(Requeued(w))
    BY <1>1, <2>1 DEF Leasable
  <2> QED
    BY <1>4, <2>1, <2>2 DEF LeaseBatch
<1>5. ASSUME NEW w \in Workers, Settle(w) PROVE row'[j] = row[j]
  <2>1. current[w] # j
    BY <1>1, <1>5 DEF Settle, MarkSucceeded, MarkRetryable, PollAborts, IInv, HandlesItsBatch, Holds
  <2> QED
    BY <1>1, <1>5, <2>1 DEF Settle, MarkSucceeded, MarkRetryable, PollAborts, TypeOK
<1>6. ASSUME NEW w \in Workers, Sweep(w) PROVE row'[j] \in {row[j], NoRow}
  BY <1>6 DEF Sweep
<1>7. ASSUME NEW w \in Workers, Poll(w) \/ Crash(w) PROVE row'[j] \in {row[j], NoRow}
  BY <1>4, <1>5, <1>6, <1>7 DEF Poll, ScanExpired, RequeueFails, Dispatch, Restart, Crash
<1>8. CASE Clock
  <2>1. ASSUME NEW i \in Jobs, LeaseLapses(i) \/ RetryDelayElapses(i) PROVE row'[j] = row[j]
    BY <1>1, <2>1 DEF LeaseLapses, RetryDelayElapses, TypeOK
  <2> QED
    BY <1>8, <2>1 DEF Clock
<1> QED
  BY <1>2, <1>3, <1>7, <1>8 DEF Next

\* A job that succeeded is not run again (lease_due_jobs, requeue_expired_leases),
\* unless its lease lapsed or an operator's retry had read it before.
THEOREM QueueSucceededStays == Spec => SucceededStaysSucceeded
<1> DEFINE Stays == \A j \in Jobs \ overrun :
                      Is(j, "SUCCEEDED") /\ retrying # j => row'[j] \in {row[j], NoRow}
<1>1. IInv /\ [Next]_vars => [Stays]_vars
  BY SucceededStep
<1>2. SucceededStaysSucceeded <=> [][Stays]_vars
  BY DEF SucceededStaysSucceeded
<1> HIDE DEF Stays
<1> QED
  BY <1>1, <1>2, QueueInvariant, PTL DEF Spec
-----------------------------------------------------------------------------
(* The queue implements JobLeases.  The mapping reads the worker's session *)
(* beside the table, so it needs three more facts about sessions: a worker *)
(* between two batches holds nothing, the copy it settles a job from has   *)
(* attempts left, and a live lease names a worker.                         *)

RestingHoldsNothing == \A w \in Workers : pc[w] \notin {"batch", "handling"} => batch[w] = {}

HeldHasAttemptsLeft ==
    \A w \in Workers, j \in Jobs : Holds(w, j) /\ j \notin overrun => copy[w][j] < MaxAttempts

LiveHasOwner == \A j \in Jobs : Exists(j) /\ row[j].lease = "live" => row[j].token \in Workers

Sessions == RestingHoldsNothing /\ HeldHasAttemptsLeft /\ LiveHasOwner

\* No worker has a session yet.
LEMMA InitSessions == Init => Sessions
BY DEF Init, Sessions, RestingHoldsNothing, HeldHasAttemptsLeft, LiveHasOwner, Holds, Exists

\* What the requeue and the lease make of a row: they touch no live lease but
\* the worker's own, and a row whose lease never lapsed only by leasing it.
LEMMA LeaseBatchRows ==
    ASSUME IInv, NEW w \in Workers, LeaseBatch(w)
    PROVE  \E chosen \in SUBSET Jobs :
             /\ batch' = [batch EXCEPT ![w] = chosen]
             /\ \A j \in chosen : /\ row'[j].lease = "live" /\ row'[j].token = w
             /\ \A j \in Jobs \ chosen : Exists(j)' /\ row'[j].lease = "live" => row'[j] = row[j]
             /\ \A j \in chosen \ overrun :
                  /\ Exists(j) /\ row[j].due /\ row[j].lease # "live"
                  /\ row[j].status \in {"QUEUED", "RETRYABLE"}
                  /\ Exists(j)' /\ copy'[w][j] = row[j].attempts
             /\ \A j \in Jobs \ (chosen \cup overrun) : row'[j] = row[j]
             /\ \A j \in Jobs : Exists(j)' <=> Exists(j)
<1> DEFINE table == Requeued(w)
<1>1. PICK chosen \in SUBSET Leasable(table) :
        /\ row' = [j \in Jobs |->
                      IF j \in chosen
                      THEN [table[j] EXCEPT !.status = "RUNNING", !.lease = "live", !.token = w]
                      ELSE table[j]]
        /\ batch' = [batch EXCEPT ![w] = chosen]
        /\ copy' = [copy EXCEPT ![w] = [j \in Jobs |-> CASE j \notin chosen     -> 0
                                                      [] j \in expired[w]   -> copy[w][j]
                                                      [] OTHER              -> row[j].attempts]]
  BY DEF LeaseBatch
<1>2. \A j \in expired[w] : Exists(j) /\ j \in overrun /\ j \in Jobs
  BY DEF LeaseBatch, IInv, TypeOK, ScansAreOverrun
<1>3. \A j \in Jobs \ expired[w] : table[j] = row[j]
  BY DEF Requeued
<1>4. \A j \in expired[w] : table[j].lease = "none" /\ table[j].status = "QUEUED"
  <2> SUFFICES ASSUME NEW j \in expired[w] PROVE table[j].lease = "none" /\ table[j].status = "QUEUED"
    OBVIOUS
  <2> DEFINE old == row[j]
  <2>1. old \in Row
    BY <1>2 DEF IInv, TypeOK, Exists
  <2>2. table[j] = [old EXCEPT !.status = "QUEUED", !.lease = "none", !.token = None]
    BY <1>2 DEF Requeued
  <2> HIDE DEF old, table
  <2> QED
    BY <2>1, <2>2 DEF Row
<1>5. chosen \in SUBSET Jobs /\ \A j \in chosen : table[j] # NoRow
  BY <1>1 DEF Leasable
<1>6. \A j \in Jobs \ expired[w] : Exists(j) => row[j] \in Row
  BY DEF IInv, TypeOK, Exists
<1>7. \A j \in chosen : row'[j].lease = "live" /\ row'[j].token = w /\ row'[j].status = "RUNNING"
  <2> SUFFICES ASSUME NEW j \in chosen
               PROVE  row'[j].lease = "live" /\ row'[j].token = w /\ row'[j].status = "RUNNING"
    OBVIOUS
  <2>1. CASE j \in expired[w]
    <3> DEFINE old == row[j]
               new == [old EXCEPT !.status = "QUEUED", !.lease = "none", !.token = None]
    <3>1. old \in Row
      BY <1>2, <2>1 DEF IInv, TypeOK, Exists
    <3>2. table[j] = new
      BY <1>5, <2>1 DEF Requeued
    <3>3. new \in Row
      <4> HIDE DEF old
      <4> QED
        BY <3>1 DEF Row, Status, Lease
    <3>4. row'[j] = [table[j] EXCEPT !.status = "RUNNING", !.lease = "live", !.token = w]
      BY <1>1, <1>5
    <3> HIDE DEF new, table
    <3> QED
      BY <3>2, <3>3, <3>4 DEF Row
  <2>2. CASE j \notin expired[w]
    <3>1. table[j] \in Row
      BY <1>3, <1>5, <1>6, <2>2 DEF Exists
    <3>2. row'[j] = [table[j] EXCEPT !.status = "RUNNING", !.lease = "live", !.token = w]
      BY <1>1, <1>5
    <3> HIDE DEF table
    <3> QED
      BY <3>1, <3>2 DEF Row
  <2> QED
    BY <2>1, <2>2
<1>8. \A j \in Jobs \ chosen : row'[j] = table[j]
  BY <1>1
<1>9. \A j \in chosen \ overrun :
        /\ Exists(j) /\ row[j].due /\ row[j].lease # "live"
        /\ row[j].status \in {"QUEUED", "RETRYABLE"}
  BY <1>1, <1>2, <1>3, <1>5 DEF Leasable, Exists
<1>10. \A j \in chosen : Exists(j)'
  BY <1>7 DEF Exists, NoRow
<1>11. \A j \in chosen \ overrun : copy'[w][j] = row[j].attempts
  BY <1>1, <1>2, <1>5 DEF IInv, TypeOK
<1> HIDE DEF table
<1>12. \A j \in Jobs \ chosen : Exists(j)' /\ row'[j].lease = "live" => row'[j] = row[j]
  BY <1>3, <1>4, <1>8
<1>13. \A j \in Jobs \ (chosen \cup overrun) : row'[j] = row[j]
  BY <1>2, <1>3, <1>8
<1>14. \A j \in Jobs : Exists(j)' <=> Exists(j)
  <2>1. \A j \in Jobs : (table[j] # NoRow) <=> Exists(j)
    BY <1>2, <1>3, <1>4 DEF Exists, NoRow
  <2> QED
    BY <1>5, <1>8, <1>10, <2>1 DEF Exists
<1>15. chosen \in SUBSET Jobs
  BY <1>5
<1> WITNESS chosen \in SUBSET Jobs
<1> QED
  BY <1>1, <1>7, <1>9, <1>10, <1>11, <1>12, <1>13, <1>14

\* A worker that ends has no batch and no copies.
LEMMA ExitSessions ==
    ASSUME IInv, Sessions, NEW w \in Workers, Exit(w), UNCHANGED <<row, overrun>>
    PROVE  Sessions'
<1> USE DEF IInv, TypeOK, Sessions, Exit
<1>1. RestingHoldsNothing' /\ LiveHasOwner'
  BY DEF RestingHoldsNothing, LiveHasOwner, Exists
<1>2. HeldHasAttemptsLeft'
  BY DEF HeldHasAttemptsLeft, Holds
<1> QED
  BY <1>1, <1>2

\* A worker that settled a job keeps the others of its batch, and their copies.
LEMMA SettleSessions ==
    ASSUME IInv, Sessions, NEW w \in Workers, pc[w] = "handling", Advance(w), UNCHANGED overrun,
           \A j \in Jobs \ {current[w]} : row'[j] = row[j],
           row'[current[w]].lease = "none"
    PROVE  Sessions'
<1> USE DEF IInv, TypeOK, Sessions, Advance
<1>1. current[w] \in Jobs /\ current[w] \in batch[w]
  BY DEF HandlesItsBatch
<1>2. RestingHoldsNothing'
  BY <1>1 DEF RestingHoldsNothing
<1>3. HeldHasAttemptsLeft'
  BY <1>1 DEF HeldHasAttemptsLeft, Holds
<1>4. LiveHasOwner'
  BY <1>1 DEF LiveHasOwner, Exists
<1> QED
  BY <1>2, <1>3, <1>4

\* The row a success leaves.
LEMMA SucceededRow ==
    ASSUME IInv, NEW w \in Workers, MarkSucceeded(w)
    PROVE  /\ current[w] \in Jobs /\ Holds(w, current[w]) /\ Exists(current[w])
           /\ \A j \in Jobs \ {current[w]} : row'[j] = row[j]
           /\ row'[current[w]] # NoRow
           /\ row'[current[w]].lease = "none"
           /\ row'[current[w]].status = "SUCCEEDED"
<1> DEFINE old == row[current[w]]
           new == [old EXCEPT !.status = "SUCCEEDED", !.lease = "none", !.token = None]
<1>1. current[w] \in Jobs /\ Holds(w, current[w]) /\ Exists(current[w]) /\ old \in Row
  BY DEF IInv, TypeOK, HandlesItsBatch, MarkSucceeded, Holds, Exists
<1>2. row' = [row EXCEPT ![current[w]] = new]
  BY DEF MarkSucceeded
<1>3. new.status = "SUCCEEDED" /\ new.lease = "none"
  <2> HIDE DEF old
  <2> QED
    BY <1>1 DEF Row
<1>4. new # NoRow
  <2> HIDE DEF new
  <2> QED
    BY <1>3 DEF NoRow
<1> HIDE DEF new, old
<1> QED
  BY <1>1, <1>2, <1>3, <1>4 DEF IInv, TypeOK

\* The row a failure leaves.
LEMMA FailedRow ==
    ASSUME IInv, NEW w \in Workers, MarkRetryable(w)
    PROVE  /\ current[w] \in Jobs /\ Holds(w, current[w]) /\ Exists(current[w])
           /\ \A j \in Jobs \ {current[w]} : row'[j] = row[j]
           /\ row'[current[w]] # NoRow
           /\ row'[current[w]].lease = "none"
           /\ row'[current[w]].attempts = OneMore(copy[w][current[w]])
           /\ IF row'[current[w]].attempts >= MaxAttempts
              THEN row'[current[w]].status = "DEAD_LETTER"
              ELSE row'[current[w]].status = "RETRYABLE" /\ row'[current[w]].due = FALSE
<1> DEFINE old    == row[current[w]]
           spent  == OneMore(copy[w][current[w]])
           dead   == spent >= MaxAttempts
           status == IF dead THEN "DEAD_LETTER" ELSE "RETRYABLE"
           new    == [old EXCEPT !.attempts = spent, !.status = status, !.due = dead, !.lease = "none",
                                 !.token = None]
<1>1. current[w] \in Jobs /\ Holds(w, current[w]) /\ Exists(current[w]) /\ old \in Row
  BY DEF IInv, TypeOK, HandlesItsBatch, MarkRetryable, Holds, Exists
<1>2. row' = [row EXCEPT ![current[w]] = new]
  BY DEF MarkRetryable, RetryRow
<1>3. new.attempts = spent /\ new.status = status /\ new.due = dead /\ new.lease = "none"
  <2> HIDE DEF old, spent, dead, status
  <2> QED
    BY <1>1 DEF Row
<1>4. new # NoRow
  <2> HIDE DEF new
  <2> QED
    BY <1>3 DEF NoRow
<1>5. row'[current[w]] = new /\ \A j \in Jobs \ {current[w]} : row'[j] = row[j]
  <2> HIDE DEF new
  <2> QED
    BY <1>1, <1>2 DEF IInv, TypeOK
<1>6. IF new.attempts >= MaxAttempts THEN new.status = "DEAD_LETTER"
                                     ELSE new.status = "RETRYABLE" /\ new.due = FALSE
  <2>1. new.attempts = spent /\ new.status = status /\ (new.due <=> dead) /\ (dead <=> new.attempts >= MaxAttempts)
    BY <1>3
  <2>2. new.due = dead /\ dead \in BOOLEAN
    BY <1>3
  <2>3. CASE dead
    <3> HIDE DEF new, spent
    <3> QED
      BY <2>1, <2>3
  <2>4. CASE ~dead
    <3>1. new.status = "RETRYABLE" /\ new.due = FALSE /\ ~(new.attempts >= MaxAttempts)
      <4> HIDE DEF new, spent, dead
      <4> QED
        BY <2>1, <2>2, <2>4
    <3> HIDE DEF new, spent
    <3> QED
      BY <3>1
  <2> QED
    BY <2>3, <2>4
<1>7. new.attempts = OneMore(copy[w][current[w]])
  BY <1>3
<1> HIDE DEF new, old, spent, dead, status
<1> QED
  BY <1>1, <1>3, <1>4, <1>5, <1>6, <1>7

\* The three facts hold at every step.
LEMMA NextSessions == IInv /\ Sessions /\ [Next]_vars => Sessions'
<1> SUFFICES ASSUME IInv, Sessions, [Next]_vars PROVE Sessions'
  OBVIOUS
<1> USE DEF Sessions
<1>1. CASE UNCHANGED vars
  BY <1>1 DEF vars, RestingHoldsNothing, HeldHasAttemptsLeft, LiveHasOwner, Holds, Exists
<1>2. CASE Produce
  <2>1. ASSUME NEW p \in Producers, NEW k \in Keys, EnqueueCheck(p, k) PROVE Sessions'
    BY <2>1 DEF EnqueueCheck, workerVars, RestingHoldsNothing, HeldHasAttemptsLeft, LiveHasOwner, Holds, Exists
  <2>2. ASSUME NEW p \in Producers, NEW j \in Jobs, EnqueueCommit(p, j) PROVE Sessions'
    <3>1. /\ UNCHANGED workerVars /\ overrun' = overrun \ {j} /\ \A w \in Workers : ~Holds(w, j)
          /\ row'[j].lease = "none" /\ \A i \in Jobs \ {j} : row'[i] = row[i]
      BY <2>2 DEF EnqueueCommit, Fresh, IInv, TypeOK
    <3> QED
      BY <3>1 DEF workerVars, RestingHoldsNothing, HeldHasAttemptsLeft, LiveHasOwner, Holds, Exists
  <2> QED
    BY <1>2, <2>1, <2>2 DEF Produce
<1>3. CASE Operate
  <2>1. UNCHANGED <<workerVars, overrun>>
    BY <1>3 DEF Operate, RetryRead, RetryCommit
  <2>2. LiveHasOwner'
    <3>1. CASE RetryCommit
      <4> DEFINE old == row[retrying]
                 new == [old EXCEPT !.status = "QUEUED", !.due = TRUE, !.attempts = 0]
      <4>1. CASE Exists(retrying)
        <5>1. retrying \in Jobs /\ old \in Row
          BY <3>1, <4>1 DEF RetryCommit, IInv, TypeOK, Exists
        <5>2. row' = [row EXCEPT ![retrying] = new]
          BY <3>1, <4>1 DEF RetryCommit
        <5>3. new.lease = old.lease /\ new.token = old.token
          <6> HIDE DEF old
          <6> QED
            BY <5>1 DEF Row
        <5> HIDE DEF new
        <5>4. row'[retrying] = new /\ \A j \in Jobs \ {retrying} : row'[j] = row[j]
          BY <5>1, <5>2 DEF IInv, TypeOK
        <5> QED
          BY <4>1, <5>1, <5>3, <5>4 DEF LiveHasOwner, Exists
      <4>2. CASE ~Exists(retrying)
        BY <3>1, <4>2 DEF RetryCommit, LiveHasOwner, Exists
      <4> QED
        BY <4>1, <4>2
    <3> QED
      BY <1>3, <3>1 DEF Operate, RetryRead, LiveHasOwner, Exists
  <2> QED
    BY <2>1, <2>2 DEF workerVars, RestingHoldsNothing, HeldHasAttemptsLeft, Holds
<1>4. ASSUME NEW w \in Workers, Poll(w) PROVE Sessions'
  <2>1. CASE ScanExpired(w)
    <3>1. /\ UNCHANGED <<row, batch, overrun>> /\ pc[w] = "idle" /\ pc' = [pc EXCEPT ![w] = "scanned"]
          /\ \A v \in Workers \ {w} : copy'[v] = copy[v]
      BY <2>1 DEF ScanExpired, IInv, TypeOK
    <3>2. batch[w] = {}
      BY <3>1 DEF RestingHoldsNothing
    <3> QED
      BY <3>1, <3>2 DEF IInv, TypeOK, RestingHoldsNothing, HeldHasAttemptsLeft, LiveHasOwner, Holds, Exists
  <2>2. CASE LeaseBatch(w)
    <3>1. PICK chosen \in SUBSET Jobs :
             /\ batch' = [batch EXCEPT ![w] = chosen]
             /\ \A j \in chosen : /\ row'[j].lease = "live" /\ row'[j].token = w
             /\ \A j \in Jobs \ chosen : Exists(j)' /\ row'[j].lease = "live" => row'[j] = row[j]
             /\ \A j \in chosen \ overrun :
                  /\ Exists(j) /\ row[j].due /\ row[j].lease # "live"
                  /\ row[j].status \in {"QUEUED", "RETRYABLE"}
                  /\ Exists(j)' /\ copy'[w][j] = row[j].attempts
             /\ \A j \in Jobs \ (chosen \cup overrun) : row'[j] = row[j]
             /\ \A j \in Jobs : Exists(j)' <=> Exists(j)
      BY <2>2, LeaseBatchRows
    <3>2. /\ overrun' = overrun /\ pc[w] = "scanned"
          /\ \A v \in Workers \ {w} : copy'[v] = copy[v]
          /\ \A v \in Workers \ {w} : pc'[v] = pc[v]
      BY <2>2 DEF LeaseBatch, IInv, TypeOK
    <3>3. pc'[w] \notin {"batch", "handling"} => chosen = {}
      <4>1. /\ pc'[w] = IF batch'[w] = {} THEN "sweep" ELSE "batch"
        BY <2>2 DEF LeaseBatch, IInv, TypeOK
      <4> QED
        BY <3>1, <4>1 DEF IInv, TypeOK
    <3>4. RestingHoldsNothing'
      BY <3>1, <3>2, <3>3 DEF IInv, TypeOK, RestingHoldsNothing
    <3>5. HeldHasAttemptsLeft'
      <4> SUFFICES ASSUME NEW v \in Workers, NEW j \in Jobs, Holds(v, j)', j \notin overrun
                   PROVE  copy'[v][j] < MaxAttempts
        BY <3>2 DEF HeldHasAttemptsLeft
      <4>1. CASE v = w
        <5>1. j \in chosen \ overrun
          BY <3>1, <4>1 DEF IInv, TypeOK, Holds
        <5>2. Exists(j) /\ row[j].status \in Active /\ copy'[w][j] = row[j].attempts
          BY <3>1, <5>1 DEF Active
        <5> QED
          BY <4>1, <5>2 DEF IInv, ActiveHasAttemptsLeft
      <4>2. CASE v # w
        BY <3>1, <3>2, <4>2 DEF IInv, TypeOK, HeldHasAttemptsLeft, Holds
      <4> QED
        BY <4>1, <4>2
    <3>6. LiveHasOwner'
      BY <3>1 DEF LiveHasOwner, Exists
    <3> QED
      BY <3>4, <3>5, <3>6
  <2>3. CASE RequeueFails(w) \/ PollAborts(w)
    BY <2>3, ExitSessions DEF RequeueFails, PollAborts
  <2>4. ASSUME NEW j \in Jobs, Dispatch(w, j) PROVE Sessions'
    BY <2>4 DEF Dispatch, IInv, TypeOK, RestingHoldsNothing, HeldHasAttemptsLeft, LiveHasOwner, Holds, Exists
  <2>5. CASE MarkSucceeded(w) \/ MarkRetryable(w)
    <3>1. pc[w] = "handling" /\ Advance(w) /\ UNCHANGED overrun
      BY <2>5 DEF MarkSucceeded, MarkRetryable, Advance
    <3> QED
      BY <2>5, <3>1, SucceededRow, FailedRow, SettleSessions
  <2>6. CASE Sweep(w)
    <3>1. /\ UNCHANGED <<batch, copy, overrun>> /\ pc[w] = "sweep" /\ pc' = [pc EXCEPT ![w] = "idle"]
          /\ \A j \in Jobs : row'[j] \in {row[j], NoRow}
      BY <2>6 DEF Sweep
    <3> QED
      BY <3>1 DEF IInv, TypeOK, RestingHoldsNothing, HeldHasAttemptsLeft, LiveHasOwner, Holds, Exists
  <2>7. CASE Restart(w)
    BY <2>7 DEF Restart, IInv, TypeOK, RestingHoldsNothing, HeldHasAttemptsLeft, LiveHasOwner, Holds, Exists
  <2> QED
    BY <1>4, <2>1, <2>2, <2>3, <2>4, <2>5, <2>6, <2>7 DEF Poll, Settle
<1>5. ASSUME NEW w \in Workers, Crash(w) PROVE Sessions'
  BY <1>5, ExitSessions DEF Crash
<1>6. CASE Clock
  <2>1. ASSUME NEW j \in Jobs, LeaseLapses(j) \/ RetryDelayElapses(j) PROVE Sessions'
    <3> DEFINE old == row[j]
    <3>1. /\ UNCHANGED workerVars /\ overrun \subseteq overrun' /\ Exists(j) /\ old \in Row
          /\ row' = [row EXCEPT ![j] = [old EXCEPT !.lease = "lapsed"]]
             \/ row' = [row EXCEPT ![j] = [old EXCEPT !.due = TRUE]]
      BY <2>1 DEF LeaseLapses, RetryDelayElapses, IInv, TypeOK, Exists
    <3>2. /\ [old EXCEPT !.lease = "lapsed"].lease = "lapsed"
          /\ [old EXCEPT !.due = TRUE].lease = old.lease
          /\ [old EXCEPT !.due = TRUE].token = old.token
      <4> HIDE DEF old
      <4> QED
        BY <3>1 DEF Row
    <3>3. LiveHasOwner'
      <4> DEFINE lapsed == [old EXCEPT !.lease = "lapsed"]
                 due    == [old EXCEPT !.due = TRUE]
      <4>1. row'[j] \in {lapsed, due} /\ \A i \in Jobs \ {j} : row'[i] = row[i]
        BY <3>1 DEF IInv, TypeOK
      <4>2. lapsed.lease = "lapsed" /\ due.lease = old.lease /\ due.token = old.token
        BY <3>2
      <4> HIDE DEF lapsed, due
      <4> QED
        BY <3>1, <4>1, <4>2 DEF LiveHasOwner, Exists
    <3> QED
      BY <3>1, <3>3 DEF workerVars, RestingHoldsNothing, HeldHasAttemptsLeft, Holds
  <2> QED
    BY <1>6, <2>1 DEF Clock
<1> QED
  BY <1>1, <1>2, <1>3, <1>4, <1>5, <1>6 DEF Next

-----------------------------------------------------------------------------
\* What the mapping says of a job whose lease never lapsed.
LEMMA StateCases ==
    ASSUME NEW j \in Jobs
    PROVE  /\ ~Exists(j) => StateOf(j) = Leases!Absent
           /\ Exists(j) /\ j \in overrun => StateOf(j) = Leases!Overrun
           /\ Exists(j) /\ j \notin overrun /\ row[j].lease = "live" =>
                StateOf(j) = IF Holds(row[j].token, j) THEN Leases!Taken(row[j].token, copy[row[j].token][j])
                                                       ELSE Leases!Orphaned
           /\ Exists(j) /\ j \notin overrun /\ row[j].lease # "live" =>
                /\ row[j].status = "SUCCEEDED" => StateOf(j) = Leases!Done
                /\ row[j].status = "DEAD_LETTER" => StateOf(j) = Leases!Dead
                /\ row[j].status \in {"QUEUED", "RUNNING", "RETRYABLE"} =>
                     StateOf(j) = Leases!Waiting(row[j].attempts, row[j].due)
BY DEF StateOf, Leases!Absent, Leases!Overrun, Leases!Taken, Leases!Orphaned, Leases!Done, Leases!Dead,
       Leases!Waiting

\* The worker a job is taken by is the one that holds it.
LEMMA TakenByHolder ==
    ASSUME IInv, Sessions, NEW w \in Workers, NEW j \in Jobs
    PROVE  /\ Leases!TakenBy(w, j) <=> Holds(w, j) /\ j \notin overrun
           /\ Leases!TakenBy(w, j) => /\ StateOf(j) = Leases!Taken(w, copy[w][j])
                                      /\ Exists(j) /\ row[j].lease = "live" /\ row[j].token = w
<1>1. ASSUME Holds(w, j), j \notin overrun
      PROVE  /\ Exists(j) /\ row[j].lease = "live" /\ row[j].token = w
             /\ StateOf(j) = Leases!Taken(w, copy[w][j])
  <2>1. Exists(j) /\ row[j].lease = "live" /\ row[j].token = w
    BY <1>1 DEF IInv, HolderOwns
  <2> QED
    BY <1>1, <2>1, StateCases
<1>2. ASSUME Holds(w, j), j \notin overrun PROVE Leases!TakenBy(w, j)
  BY <1>1, <1>2 DEF Leases!TakenBy, Leases!At, Leases!Taken
<1>3. ASSUME Leases!TakenBy(w, j) PROVE Holds(w, j) /\ j \notin overrun
  <2>1. StateOf(j).at = "taken" /\ StateOf(j).by = w
    BY <1>3 DEF Leases!TakenBy, Leases!At
  <2> QED
    BY <2>1 DEF StateOf
<1> QED
  BY <1>1, <1>2, <1>3

\* Where a job is, read from its row.
LEMMA Whereabouts ==
    ASSUME NEW j \in Jobs, NEW places
    PROVE  Leases!At(j, places) <=> StateOf(j).at \in places
BY DEF Leases!At

\* A job is where it was when its row, its lease's history and its holder's
\* copy are as they were.
LEMMA SameState ==
    ASSUME Sessions, NEW j \in Jobs, row'[j] = row[j], j \in overrun' <=> j \in overrun,
           \A w \in Workers : j \in batch'[w] <=> j \in batch[w],
           \A w \in Workers : j \in batch[w] => copy'[w][j] = copy[w][j]
    PROVE  StateOf(j)' = StateOf(j)
<1>1. CASE Exists(j) /\ row[j].lease = "live"
  <2>1. row[j].token \in Workers
    BY <1>1 DEF Sessions, LiveHasOwner
  <2> QED
    BY <1>1, <2>1 DEF StateOf, Holds, Exists
<1>2. CASE ~(Exists(j) /\ row[j].lease = "live")
  BY <1>2 DEF StateOf, Exists
<1> QED
  BY <1>1, <1>2

\* A step that changes no job, and nobody's request, is no step of JobLeases.
LEMMA Unmoved ==
    ASSUME \A j \in Jobs : StateOf(j)' = StateOf(j), retrying' = retrying
    PROVE  UNCHANGED Leases!leaseVars
BY DEF Leases!leaseVars

\* A step that moves one job.
LEMMA OneMoves ==
    ASSUME NEW j \in Jobs, NEW to, StateOf(j)' = to, \A i \in Jobs \ {j} : StateOf(i)' = StateOf(i),
           retrying' = retrying
    PROVE  Leases!Becomes(j, to)
BY DEF Leases!Becomes

-----------------------------------------------------------------------------
(* The steps. *)

\* A new row is a job submitted.
LEMMA CommitSubmits ==
    ASSUME IInv, Sessions, NEW p \in Producers, NEW j \in Jobs, EnqueueCommit(p, j)
    PROVE  Leases!Submit(j)
<1> DEFINE new == [status |-> "QUEUED", key |-> pending[p], attempts |-> 0,
                   lease |-> "none", token |-> None, due |-> TRUE]
<1>1. /\ ~Exists(j) /\ retrying # j /\ retrying' = retrying
      /\ row'[j] = new /\ \A i \in Jobs \ {j} : row'[i] = row[i]
      /\ overrun' = overrun \ {j} /\ batch' = batch /\ copy' = copy
  BY DEF EnqueueCommit, Fresh, IInv, TypeOK, workerVars
<1>2. \A i \in Jobs \ {j} : StateOf(i)' = StateOf(i)
  BY <1>1, SameState
<1>3. StateOf(j)' = Leases!Waiting(0, TRUE)
  <2>1. new # NoRow /\ new.status = "QUEUED" /\ new.lease = "none" /\ new.attempts = 0 /\ new.due = TRUE
    BY DEF NoRow
  <2> HIDE DEF new
  <2> QED
    BY <1>1, <2>1 DEF StateOf, Exists, Leases!Waiting
<1>4. Leases!At(j, {"absent"})
  BY <1>1, StateCases, Whereabouts DEF Leases!Absent
<1>5. Leases!Becomes(j, Leases!Waiting(0, TRUE))
  BY <1>1, <1>2, <1>3, OneMoves
<1> QED
  BY <1>1, <1>4, <1>5 DEF Leases!Submit

\* The operator's route has read a job that waits or is buried.
LEMMA ReadAsks ==
    ASSUME IInv, Sessions, NEW j \in Jobs, RetryRead(j)
    PROVE  Leases!Ask(j)
<1>1. /\ retrying = None /\ retrying' = j /\ Exists(j) /\ row[j].status \in {"DEAD_LETTER", "RETRYABLE"}
      /\ UNCHANGED <<row, overrun, batch, copy>>
  BY DEF RetryRead, Is, workerVars
<1>2. \A i \in Jobs : StateOf(i)' = StateOf(i)
  BY <1>1, SameState
<1>3. row[j].lease = "none"
  BY <1>1 DEF IInv, LeaseMatchesStatus
<1>4. StateOf(j).at \in {"waiting", "dead", "overrun"}
  BY <1>1, <1>3, StateCases DEF Leases!Waiting, Leases!Dead, Leases!Overrun
<1> QED
  BY <1>1, <1>2, <1>4, Whereabouts DEF Leases!Ask

\* The operator's UPDATE meets the row as it is by then: a job that is taken
\* stays taken, whatever its status column says.
LEMMA CommitAnswers ==
    ASSUME IInv, Sessions, RetryCommit
    PROVE  Leases!Answer
<1> DEFINE j == retrying
           old == row[j]
           new == [old EXCEPT !.status = "QUEUED", !.due = TRUE, !.attempts = 0]
<1>1. j \in Jobs /\ j # None /\ retrying' = None /\ UNCHANGED <<overrun, batch, copy>>
  BY DEF RetryCommit, IInv, TypeOK, workerVars
<1>2. CASE ~Exists(j)
  <2>1. \A i \in Jobs : StateOf(i)' = StateOf(i)
    BY <1>1, <1>2, SameState DEF RetryCommit
  <2>2. StateOf(j).at = "absent"
    BY <1>1, <1>2, StateCases DEF Leases!Absent
  <2> QED
    BY <1>1, <2>1, <2>2, Whereabouts DEF Leases!Answer
<1>3. CASE Exists(j)
  <2>1. old \in Row
    BY <1>1, <1>3 DEF IInv, TypeOK, Exists
  <2>2. /\ new # NoRow /\ new.status = "QUEUED" /\ new.due = TRUE /\ new.attempts = 0
        /\ new.lease = old.lease /\ new.token = old.token
    <3> HIDE DEF old
    <3> QED
      BY <2>1 DEF Row, NoRow
  <2>3. row'[j] = new /\ \A i \in Jobs \ {j} : row'[i] = row[i]
    BY <1>1, <1>3 DEF RetryCommit, IInv, TypeOK
  <2> HIDE DEF new
  <2>4. \A i \in Jobs \ {j} : StateOf(i)' = StateOf(i)
    BY <1>1, <2>3, SameState
  <2>5. ASSUME NEW i \in Jobs, i = j
        PROVE  StateOf(i)' = IF StateOf(i).at \in {"waiting", "done", "dead"} THEN Leases!Waiting(0, TRUE)
                                                                              ELSE StateOf(i)
    <3> HIDE DEF j
    <3>0. row'[i] = new /\ old = row[i] /\ Exists(i)
      BY <1>3, <2>3, <2>5
    <3>1. CASE i \in overrun
      BY <1>1, <2>2, <3>0, <3>1 DEF StateOf, Exists
    <3>2. CASE i \notin overrun /\ row[i].lease = "live"
      <4>1. row[i].token \in Workers
        BY <3>0, <3>2 DEF Sessions, LiveHasOwner
      <4> QED
        BY <1>1, <2>2, <3>0, <3>2, <4>1 DEF StateOf, Exists, Holds
    <3>3. CASE i \notin overrun /\ row[i].lease # "live"
      <4>1. StateOf(i)' = Leases!Waiting(0, TRUE)
        BY <1>1, <2>2, <3>0, <3>3 DEF StateOf, Exists, Leases!Waiting
      <4>2. StateOf(i).at \in {"waiting", "done", "dead"}
        BY <3>0, <3>3 DEF StateOf
      <4> QED
        BY <4>1, <4>2
    <3> QED
      BY <3>1, <3>2, <3>3
  <2>6. StateOf(j).at \in {"waiting", "done", "dead"} =>
          [i \in Jobs |-> StateOf(i)]' = [[i \in Jobs |-> StateOf(i)] EXCEPT ![j] = Leases!Waiting(0, TRUE)]
    BY <1>1, <2>4, <2>5
  <2>7. StateOf(j).at \notin {"waiting", "done", "dead"} =>
          [i \in Jobs |-> StateOf(i)]' = [i \in Jobs |-> StateOf(i)]
    BY <1>1, <2>4, <2>5
  <2> QED
    BY <1>1, <2>6, <2>7, Whereabouts DEF Leases!Answer
<1> QED
  BY <1>2, <1>3

\* A worker that ends, however it ends, leaves its batch to the clock.
LEMMA ExitDies ==
    ASSUME IInv, Sessions, NEW w \in Workers, Exit(w), UNCHANGED <<row, overrun, retrying>>
    PROVE  Leases!Die(w)
<1>1. \A j \in Jobs : StateOf(j)' = IF Leases!TakenBy(w, j) THEN Leases!Orphaned ELSE StateOf(j)
  <2> SUFFICES ASSUME NEW j \in Jobs
               PROVE  StateOf(j)' = IF Leases!TakenBy(w, j) THEN Leases!Orphaned ELSE StateOf(j)
    OBVIOUS
  <2>1. batch'[w] = {} /\ \A v \in Workers \ {w} : batch'[v] = batch[v] /\ copy'[v] = copy[v]
    BY DEF Exit, IInv, TypeOK
  <2>2. CASE Leases!TakenBy(w, j)
    <3>1. Exists(j) /\ row[j].lease = "live" /\ row[j].token = w /\ j \notin overrun
      BY <2>2, TakenByHolder
    <3> QED
      BY <2>1, <2>2, <3>1 DEF StateOf, Exists, Holds, Leases!Orphaned
  <2>3. CASE ~Leases!TakenBy(w, j) /\ j \in batch[w]
    <3>1. j \in overrun
      BY <2>3, TakenByHolder DEF Holds
    <3> QED
      BY <2>3, <3>1 DEF StateOf, Exists
  <2>4. CASE ~Leases!TakenBy(w, j) /\ j \notin batch[w]
    BY <2>1, <2>4, SameState
  <2> QED
    BY <2>2, <2>3, <2>4
<1> QED
  BY <1>1 DEF Leases!Die

\* A settlement under a live lease moves the one job, which was its worker's.
LEMMA SettleMoves ==
    ASSUME IInv, Sessions, NEW w \in Workers, Advance(w), UNCHANGED overrun,
           current[w] \in Jobs, Holds(w, current[w]), Exists(current[w]),
           \A j \in Jobs \ {current[w]} : row'[j] = row[j],
           row'[current[w]] # NoRow
    PROVE  /\ retrying' = retrying
           /\ \A j \in Jobs \ {current[w]} : StateOf(j)' = StateOf(j)
           /\ current[w] \in overrun => \A j \in Jobs : StateOf(j)' = StateOf(j)
           /\ current[w] \notin overrun => Leases!TakenBy(w, current[w])
<1>1. \A j \in Jobs \ {current[w]} : StateOf(j)' = StateOf(j)
  <2>1. \A j \in Jobs \ {current[w]}, v \in Workers :
          (j \in batch'[v] <=> j \in batch[v]) /\ (j \in batch[v] => copy'[v][j] = copy[v][j])
    BY DEF Advance, IInv, TypeOK
  <2> QED
    BY <2>1, SameState
<1>2. ASSUME current[w] \in overrun, NEW j \in Jobs, j = current[w] PROVE StateOf(j)' = StateOf(j)
  BY <1>2 DEF StateOf, Exists
<1> QED
  BY <1>1, <1>2, TakenByHolder DEF Advance

\* mark_job_succeeded finishes a job, or meets a lease that has lapsed.
LEMMA SuccessFinishes ==
    ASSUME IInv, Sessions, NEW w \in Workers, MarkSucceeded(w)
    PROVE  (\E j \in Jobs : Leases!Finish(w, j)) \/ UNCHANGED Leases!leaseVars
<1>1. Advance(w) /\ UNCHANGED overrun /\ current[w] \in Jobs /\ pc[w] = "handling"
  BY SucceededRow DEF MarkSucceeded, Advance
<1>2. /\ retrying' = retrying
      /\ \A j \in Jobs \ {current[w]} : StateOf(j)' = StateOf(j)
      /\ current[w] \in overrun => \A j \in Jobs : StateOf(j)' = StateOf(j)
      /\ current[w] \notin overrun => Leases!TakenBy(w, current[w])
  BY <1>1, SucceededRow, SettleMoves
<1>3. CASE current[w] \in overrun
  BY <1>2, <1>3, Unmoved
<1>4. ASSUME current[w] \notin overrun, NEW j \in Jobs, j = current[w] PROVE Leases!Finish(w, j)
  <2>1. row'[j] # NoRow /\ row'[j].lease = "none" /\ row'[j].status = "SUCCEEDED"
    BY <1>4, SucceededRow
  <2>2. StateOf(j)' = Leases!Done
    BY <1>1, <1>4, <2>1 DEF StateOf, Exists, Leases!Done
  <2> QED
    BY <1>2, <1>4, <2>2, OneMoves DEF Leases!Finish
<1> QED
  BY <1>1, <1>3, <1>4

\* mark_job_retryable counts the failure of the copy the lease gave out, and
\* buries the job exactly when that was the last of its attempts.
LEMMA FailureFails ==
    ASSUME IInv, Sessions, NEW w \in Workers, MarkRetryable(w)
    PROVE  (\E j \in Jobs : Leases!Fail(w, j)) \/ UNCHANGED Leases!leaseVars
<1>1. Advance(w) /\ UNCHANGED overrun /\ current[w] \in Jobs
  BY FailedRow DEF MarkRetryable, Advance
<1>2. /\ retrying' = retrying
      /\ \A j \in Jobs \ {current[w]} : StateOf(j)' = StateOf(j)
      /\ current[w] \in overrun => \A j \in Jobs : StateOf(j)' = StateOf(j)
      /\ current[w] \notin overrun => Leases!TakenBy(w, current[w])
  BY <1>1, FailedRow, SettleMoves
<1>3. CASE current[w] \in overrun
  BY <1>2, <1>3, Unmoved
<1>4. ASSUME current[w] \notin overrun, NEW j \in Jobs, j = current[w] PROVE Leases!Fail(w, j)
  <2> DEFINE spent == copy[w][j] + 1
             to    == IF spent < MaxAttempts THEN Leases!Waiting(spent, FALSE) ELSE Leases!Dead
  <2>1. StateOf(j).spent = copy[w][j]
    BY <1>2, <1>4, TakenByHolder DEF Leases!Taken
  <2>2. copy[w][j] \in Nat /\ copy[w][j] < MaxAttempts
    <3>1. Holds(w, j)
      BY <1>4, FailedRow
    <3>2. copy[w][j] \in 0 .. MaxAttempts + 1
      BY DEF IInv, TypeOK
    <3> QED
      BY <1>4, <3>1, <3>2, QueueAssumption DEF Sessions, HeldHasAttemptsLeft
  <2>3. OneMore(copy[w][j]) = spent /\ (spent >= MaxAttempts <=> ~(spent < MaxAttempts))
    BY <2>2, QueueAssumption DEF OneMore
  <2>4. /\ row'[j] # NoRow /\ row'[j].lease = "none" /\ row'[j].attempts = spent
        /\ IF spent < MaxAttempts THEN row'[j].status = "RETRYABLE" /\ row'[j].due = FALSE
                                  ELSE row'[j].status = "DEAD_LETTER"
    <3> HIDE DEF spent
    <3> QED
      BY <1>4, <2>3, FailedRow
  <2>5. StateOf(j)' = to
    <3> HIDE DEF spent
    <3> QED
      BY <1>1, <1>4, <2>4 DEF StateOf, Exists, Leases!Waiting, Leases!Dead
  <2>6. Leases!Becomes(j, to)
    <3> HIDE DEF to
    <3> QED
      BY <1>2, <1>4, <2>5, OneMoves
  <2> QED
    BY <1>2, <1>4, <2>1, <2>6 DEF Leases!Fail
<1> QED
  BY <1>1, <1>3, <1>4

\* A committed lease takes the due jobs it chose.
LEMMA LeaseTakes ==
    ASSUME IInv, Sessions, NEW w \in Workers, LeaseBatch(w)
    PROVE  \E some \in SUBSET Jobs : Leases!Take(w, some)
<1>1. PICK chosen \in SUBSET Jobs :
         /\ batch' = [batch EXCEPT ![w] = chosen]
         /\ \A j \in chosen : /\ row'[j].lease = "live" /\ row'[j].token = w
         /\ \A j \in Jobs \ chosen : Exists(j)' /\ row'[j].lease = "live" => row'[j] = row[j]
         /\ \A j \in chosen \ overrun :
              /\ Exists(j) /\ row[j].due /\ row[j].lease # "live"
              /\ row[j].status \in {"QUEUED", "RETRYABLE"}
              /\ Exists(j)' /\ copy'[w][j] = row[j].attempts
         /\ \A j \in Jobs \ (chosen \cup overrun) : row'[j] = row[j]
         /\ \A j \in Jobs : Exists(j)' <=> Exists(j)
  BY LeaseBatchRows
<1>2. /\ pc[w] = "scanned" /\ UNCHANGED <<overrun, retrying>>
      /\ \A v \in Workers \ {w} : copy'[v] = copy[v] /\ batch'[v] = batch[v]
      /\ batch'[w] = chosen
  BY <1>1 DEF LeaseBatch, IInv, TypeOK
<1>3. batch[w] = {}
  BY <1>2 DEF Sessions, RestingHoldsNothing
<1>4. \A j \in Jobs : ~Leases!TakenBy(w, j)
  BY <1>3, TakenByHolder DEF Holds
<1> DEFINE some == chosen \ overrun
<1>5. \A j \in some : /\ StateOf(j) = Leases!Waiting(row[j].attempts, row[j].due)
                      /\ StateOf(j)' = Leases!Taken(w, row[j].attempts)
  <2> SUFFICES ASSUME NEW j \in some
               PROVE  /\ StateOf(j) = Leases!Waiting(row[j].attempts, row[j].due)
                      /\ StateOf(j)' = Leases!Taken(w, row[j].attempts)
    OBVIOUS
  <2>1. StateOf(j) = Leases!Waiting(row[j].attempts, row[j].due)
    BY <1>1, StateCases
  <2>2. StateOf(j)' = Leases!Taken(w, row[j].attempts)
    BY <1>1, <1>2 DEF StateOf, Holds, Leases!Taken
  <2> QED
    BY <2>1, <2>2
<1>6. \A j \in Jobs \ some : StateOf(j)' = StateOf(j)
  <2> SUFFICES ASSUME NEW j \in Jobs \ some PROVE StateOf(j)' = StateOf(j)
    OBVIOUS
  <2>1. CASE j \in overrun
    <3>1. Exists(j)' <=> Exists(j)
      BY <1>1
    <3> QED
      BY <1>2, <2>1, <3>1 DEF StateOf
  <2>2. CASE j \notin overrun
    BY <1>1, <1>2, <1>3, <2>2, SameState
  <2> QED
    BY <2>1, <2>2
<1>7. \A j \in some : Leases!At(j, {"waiting"}) /\ StateOf(j).due
  BY <1>1, <1>5, Whereabouts DEF Leases!Waiting
<1>8. [j \in Jobs |-> StateOf(j)]' =
        [j \in Jobs |-> IF j \in some THEN Leases!Taken(w, StateOf(j).spent) ELSE StateOf(j)]
  BY <1>5, <1>6 DEF Leases!Waiting
<1>9. Leases!Take(w, some)
  BY <1>1, <1>2, <1>4, <1>7, <1>8 DEF Leases!Take
<1> QED
  BY <1>1, <1>9

\* A sweep forgets succeeded jobs, and jobs whose lease once lapsed.
LEMMA SweepForgets ==
    ASSUME IInv, Sessions, NEW w \in Workers, Sweep(w)
    PROVE  \E old \in SUBSET Jobs : Leases!Forget(old)
<1>1. PICK old \in SUBSET {j \in Jobs : Is(j, "SUCCEEDED")} :
        row' = [j \in Jobs |-> IF j \in old THEN NoRow ELSE row[j]]
  BY DEF Sweep
<1>2. UNCHANGED <<retrying, batch, copy, overrun>>
  BY DEF Sweep
<1>3. \A j \in old : Leases!At(j, {"done", "overrun"})
  <2> SUFFICES ASSUME NEW j \in old PROVE Leases!At(j, {"done", "overrun"})
    OBVIOUS
  <2>1. j \in Jobs /\ Exists(j) /\ row[j].status = "SUCCEEDED"
    BY DEF Is
  <2>2. row[j].lease = "none"
    BY <2>1 DEF IInv, LeaseMatchesStatus
  <2>3. StateOf(j).at \in {"done", "overrun"}
    BY <2>1, <2>2, StateCases DEF Leases!Done, Leases!Overrun
  <2> QED
    BY <2>1, <2>3, Whereabouts
<1>4. \A j \in old : StateOf(j)' = Leases!Absent
  BY <1>1 DEF StateOf, Exists, Leases!Absent
<1>5. \A j \in Jobs \ old : StateOf(j)' = StateOf(j)
  BY <1>1, <1>2, SameState
<1>6. Leases!Forget(old)
  BY <1>2, <1>3, <1>4, <1>5 DEF Leases!Forget
<1>7. old \in SUBSET Jobs
  OBVIOUS
<1> QED
  BY <1>6, <1>7

\* A lease that lapses for the first time ends the promise to its job.
LEMMA LapseExpires ==
    ASSUME IInv, Sessions, NEW j \in Jobs, LeaseLapses(j)
    PROVE  Leases!Expire(j) \/ UNCHANGED Leases!leaseVars
<1> DEFINE old == row[j]
           new == [old EXCEPT !.lease = "lapsed"]
<1>1. /\ Exists(j) /\ row[j].lease = "live" /\ overrun' = overrun \cup {j}
      /\ UNCHANGED <<retrying, batch, copy>>
  BY DEF LeaseLapses, workerVars
<1>2. row'[j] = new /\ \A i \in Jobs \ {j} : row'[i] = row[i]
  BY DEF LeaseLapses, IInv, TypeOK
<1>3. new # NoRow
  <2>1. old \in Row
    BY <1>1 DEF IInv, TypeOK, Exists
  <2> HIDE DEF old
  <2> QED
    BY <2>1 DEF Row, NoRow
<1> HIDE DEF new, old
<1>4. StateOf(j)' = Leases!Overrun
  BY <1>1, <1>2, <1>3 DEF StateOf, Exists, Leases!Overrun
<1>5. \A i \in Jobs \ {j} : StateOf(i)' = StateOf(i)
  BY <1>1, <1>2, SameState
<1>6. CASE j \in overrun
  <2>1. StateOf(j) = Leases!Overrun
    BY <1>1, <1>6, StateCases
  <2> QED
    BY <1>1, <1>4, <1>5, <2>1, Unmoved
<1>7. CASE j \notin overrun
  <2>1. StateOf(j).at \in {"taken", "orphaned"}
    BY <1>1, <1>7, StateCases DEF Leases!Taken, Leases!Orphaned
  <2> QED
    BY <1>1, <1>4, <1>5, <2>1, OneMoves, Whereabouts DEF Leases!Expire
<1> QED
  BY <1>6, <1>7

\* A delay that elapses makes a waiting job due.
LEMMA DelayWakes ==
    ASSUME IInv, Sessions, NEW j \in Jobs, RetryDelayElapses(j)
    PROVE  Leases!Wake(j) \/ UNCHANGED Leases!leaseVars
<1> DEFINE old == row[j]
           new == [old EXCEPT !.due = TRUE]
<1>1. Exists(j) /\ ~row[j].due /\ old \in Row /\ UNCHANGED <<retrying, batch, copy, overrun>>
  BY DEF RetryDelayElapses, workerVars, IInv, TypeOK, Exists
<1>2. row'[j] = new /\ \A i \in Jobs \ {j} : row'[i] = row[i]
  BY DEF RetryDelayElapses, IInv, TypeOK
<1>3. /\ new # NoRow /\ new.due = TRUE /\ new.status = old.status /\ new.lease = old.lease
      /\ new.attempts = old.attempts
  <2> HIDE DEF old
  <2> QED
    BY <1>1 DEF Row, NoRow
<1> HIDE DEF new
<1>4. \A i \in Jobs \ {j} : StateOf(i)' = StateOf(i)
  BY <1>1, <1>2, SameState
<1>5. CASE j \in overrun
  <2>1. StateOf(j)' = StateOf(j)
    BY <1>1, <1>2, <1>3, <1>5 DEF StateOf, Exists
  <2> QED
    BY <1>1, <1>4, <2>1, Unmoved
<1>6. CASE j \notin overrun
  <2>1. row[j].status = "RETRYABLE" /\ row[j].lease = "none"
    BY <1>1, <1>6 DEF IInv, OnlyRetryableWaits, LeaseMatchesStatus
  <2>2. StateOf(j) = Leases!Waiting(row[j].attempts, row[j].due)
    BY <1>1, <1>6, <2>1, StateCases
  <2>3. StateOf(j)' = Leases!Waiting(row[j].attempts, TRUE)
    BY <1>1, <1>2, <1>3, <1>6, <2>1 DEF StateOf, Exists, Leases!Waiting
  <2>4. StateOf(j).at = "waiting" /\ StateOf(j).spent = row[j].attempts
    BY <2>2 DEF Leases!Waiting
  <2>5. Leases!At(j, {"waiting"})
    BY <2>4, Whereabouts
  <2>6. Leases!Becomes(j, Leases!Waiting(StateOf(j).spent, TRUE))
    BY <1>1, <1>4, <2>3, <2>4, OneMoves
  <2> QED
    BY <2>5, <2>6 DEF Leases!Wake
<1> QED
  BY <1>5, <1>6

\* Every step of the queue is a step of JobLeases, or changes nothing there.
LEMMA NextLeases == IInv /\ Sessions /\ [Next]_vars => [Leases!Next]_Leases!leaseVars
<1> SUFFICES ASSUME IInv, Sessions, [Next]_vars
             PROVE  Leases!Next \/ UNCHANGED Leases!leaseVars
  OBVIOUS
<1>1. ASSUME UNCHANGED <<row, retrying, batch, copy, overrun>> PROVE UNCHANGED Leases!leaseVars
  BY <1>1, SameState, Unmoved
<1>2. CASE UNCHANGED vars
  BY <1>1, <1>2 DEF vars
<1>3. CASE Produce
  <2>1. ASSUME NEW p \in Producers, NEW k \in Keys, EnqueueCheck(p, k) PROVE UNCHANGED Leases!leaseVars
    BY <1>1, <2>1 DEF EnqueueCheck, workerVars
  <2> QED
    BY <1>3, <2>1, CommitSubmits DEF Produce, Leases!Next
<1>4. CASE Operate
  BY <1>4, ReadAsks, CommitAnswers DEF Operate, Leases!Next
<1>5. ASSUME NEW w \in Workers, Poll(w) PROVE Leases!Next \/ UNCHANGED Leases!leaseVars
  <2>1. CASE ScanExpired(w)
    <3>1. /\ UNCHANGED <<row, retrying, batch, overrun>> /\ batch[w] = {}
          /\ \A v \in Workers \ {w} : copy'[v] = copy[v]
      BY <2>1 DEF ScanExpired, IInv, TypeOK, Sessions, RestingHoldsNothing
    <3>2. \A j \in Jobs : StateOf(j)' = StateOf(j)
      BY <3>1, SameState
    <3> QED
      BY <3>1, <3>2, Unmoved
  <2>2. CASE RequeueFails(w) \/ PollAborts(w)
    BY <2>2, ExitDies DEF RequeueFails, PollAborts, Leases!Next
  <2>3. ASSUME NEW j \in Jobs, Dispatch(w, j) PROVE UNCHANGED Leases!leaseVars
    BY <1>1, <2>3 DEF Dispatch
  <2>4. CASE Restart(w)
    BY <1>1, <2>4 DEF Restart
  <2>5. CASE LeaseBatch(w)
    BY <2>5, LeaseTakes DEF Leases!Next
  <2>6. CASE MarkSucceeded(w) \/ MarkRetryable(w)
    BY <2>6, SuccessFinishes, FailureFails DEF Leases!Next
  <2>7. CASE Sweep(w)
    BY <2>7, SweepForgets DEF Leases!Next
  <2> QED
    BY <1>5, <2>1, <2>2, <2>3, <2>4, <2>5, <2>6, <2>7 DEF Poll, Settle
<1>6. ASSUME NEW w \in Workers, Crash(w) PROVE Leases!Next
  BY <1>6, ExitDies DEF Crash, Leases!Next
<1>7. CASE Clock
  BY <1>7, LapseExpires, DelayWakes DEF Clock, Leases!Next
<1> QED
  BY <1>2, <1>3, <1>4, <1>5, <1>6, <1>7 DEF Next

\* An empty table is a queue to which nothing was submitted.
LEMMA InitLeases == Init => Leases!Init
<1> SUFFICES ASSUME Init PROVE Leases!Init
  OBVIOUS
<1>1. \A j \in Jobs : StateOf(j) = Leases!Absent
  BY StateCases DEF Init, Exists
<1> QED
  BY <1>1 DEF Init, Leases!Init

\* The table, the workers' sessions and the clock implement the abstract queue
\* (enqueue_branch_job, lease_due_jobs, mark_job_succeeded, mark_job_retryable,
\* retry_job, requeue_expired_leases, the sweep and a worker's end), for any
\* number of jobs, producers and workers, any batch and any budget of attempts.
THEOREM QueueImplementsJobLeases == Spec => ImplementsJobLeases
<1>1. Spec => []Sessions
  BY InitSessions, InitIInv, NextSessions, QueueInvariant, PTL DEF Spec
<1> QED
  BY <1>1, InitLeases, NextLeases, QueueInvariant, PTL DEF Spec, ImplementsJobLeases, Leases!Spec
=============================================================================
