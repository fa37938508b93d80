----------------------------- MODULE JobLeases -----------------------------
(***************************************************************************)
(* What the job queue promises, whatever its workers and operators do: a   *)
(* job is taken by one worker at a time, only its taker settles it, every  *)
(* failure of it is counted, the last one its budget allows buries it, and *)
(* a job that is done is only ever forgotten, or run again because an      *)
(* operator asked for it.  The promise to a job ends where its lease ends  *)
(* before its work.  OperationsQueue implements it.                        *)
(***************************************************************************)
EXTENDS Integers

CONSTANTS
    Jobs,         \* the jobs that may be submitted
    Workers,      \* who may take them
    None,         \* no job
    MaxAttempts   \* failures after which a job is buried

VARIABLES
    job,     \* job -> what has become of it
    asked    \* the job an operator has asked to run again, or None

leaseVars == <<job, asked>>

Absent        == [at |-> "absent"]
Waiting(n, d) == [at |-> "waiting", spent |-> n, due |-> d]
Taken(w, n)   == [at |-> "taken", by |-> w, spent |-> n]
Orphaned      == [at |-> "orphaned"]
Done          == [at |-> "done"]
Dead          == [at |-> "dead"]
Overrun       == [at |-> "overrun"]

At(j, places) == job[j].at \in places
TakenBy(w, j) == At(j, {"taken"}) /\ job[j].by = w

Init ==
    /\ job = [j \in Jobs |-> Absent]
    /\ asked = None

Becomes(j, to) ==
    /\ job' = [job EXCEPT ![j] = to]
    /\ UNCHANGED asked

Submit(j) == At(j, {"absent"}) /\ asked # j /\ Becomes(j, Waiting(0, TRUE))

\* A worker that holds nothing takes some of the jobs that are due.
Take(w, some) ==
    /\ \A j \in Jobs : ~TakenBy(w, j)
    /\ \A j \in some : At(j, {"waiting"}) /\ job[j].due
    /\ job' = [j \in Jobs |-> IF j \in some THEN Taken(w, job[j].spent) ELSE job[j]]
    /\ UNCHANGED asked

Finish(w, j) == TakenBy(w, j) /\ Becomes(j, Done)

Fail(w, j) ==
    /\ TakenBy(w, j)
    /\ LET spent == job[j].spent + 1
       IN Becomes(j, IF spent < MaxAttempts THEN Waiting(spent, FALSE) ELSE Dead)

\* A worker stops: what it had taken is nobody's until the lease ends.
Die(w) ==
    /\ job' = [j \in Jobs |-> IF TakenBy(w, j) THEN Orphaned ELSE job[j]]
    /\ UNCHANGED asked

Expire(j) == At(j, {"taken", "orphaned"}) /\ Becomes(j, Overrun)

Wake(j) == At(j, {"waiting"}) /\ Becomes(j, Waiting(job[j].spent, TRUE))

Forget(old) ==
    /\ \A j \in old : At(j, {"done", "overrun"})
    /\ job' = [j \in Jobs |-> IF j \in old THEN Absent ELSE job[j]]
    /\ UNCHANGED asked

Ask(j) ==
    /\ asked = None
    /\ At(j, {"waiting", "dead", "overrun"})
    /\ asked' = j
    /\ UNCHANGED job

\* By now the job may have been taken: then the operator's wish changes nothing.
Answer ==
    /\ asked # None
    /\ job' = IF At(asked, {"waiting", "done", "dead"})
              THEN [job EXCEPT ![asked] = Waiting(0, TRUE)] ELSE job
    /\ asked' = None

Next ==
    \/ \E old \in SUBSET Jobs : Forget(old)
    \/ \E j \in Jobs : Submit(j) \/ Expire(j) \/ Wake(j) \/ Ask(j)
    \/ \E w \in Workers, j \in Jobs : Finish(w, j) \/ Fail(w, j)
    \/ \E w \in Workers : Die(w) \/ \E some \in SUBSET Jobs : Take(w, some)
    \/ Answer

Spec == Init /\ [][Next]_leaseVars
=============================================================================
