----------------------------- MODULE PrintQueue -----------------------------
(***************************************************************************)
(* The print jobs of one device of a branch (services/runtime.py) and the   *)
(* desktop apps that print them (useStoreRuntimeHardwareIntegration.ts).    *)
(* An app polls on a timer: it asks for the queued jobs, prints the oldest  *)
(* and reports it COMPLETED or FAILED.  A call may be lost on the way, an   *)
(* answer on the way back, a poll cancelled when its session changes, and   *)
(* the app may be restarted.  The device an app polls for is typed in, so   *)
(* several apps may poll for one.                                           *)
(***************************************************************************)
EXTENDS Integers, Sequences, FiniteSets, FiniteSetsExt

CONSTANTS
    Apps,           \* desktop apps that poll for the device
    Timers,         \* timer callbacks of an app that may be under way together
    MaxPrintJobs,   \* bound: print jobs of the device
    MaxFaults,      \* bound: lost calls and answers, cancelled polls, restarts, printer errors
    MaxByHand       \* bound: jobs the cashier completes by hand

ASSUME PrintAssumption == {MaxPrintJobs, MaxFaults, MaxByHand} \subseteq Nat

VARIABLES
    printJobs,      \* the print_jobs rows of the device, oldest first: type and status
    assigned,       \* app -> the job types whose printer its hardware profile names
    dispatching,    \* app -> printDispatchInFlightRef
    polling,        \* app and timer -> where runPoll is, the jobs it was answered, isCancelled
    shown,          \* the jobs on the screen of a browser shell, which prints nothing
    sheets,         \* history: app and job -> times the app has printed it
    untold,         \* history: app and job -> prints of it whose report never reached the server
    byHand,         \* history: jobs a cashier has completed by the button
    faults          \* history: the number of faults so far

printVars == <<printJobs, assigned, dispatching, polling, shown, sheets, untold, byHand, faults>>

JobTypes == {"SALES_INVOICE", "CREDIT_NOTE", "BARCODE_LABEL"}
JobIds == 1..MaxPrintJobs
Away == [at |-> "away", jobs |-> {}, cancelled |-> FALSE]

PrintInit ==
    /\ printJobs = <<>>
    /\ assigned = [a \in Apps |-> JobTypes]
    /\ dispatching = [a \in Apps |-> FALSE]
    /\ polling = [a \in Apps |-> [t \in Timers |-> Away]]
    /\ shown = {}
    /\ sheets = [a \in Apps |-> [j \in JobIds |-> 0]]
    /\ untold = [a \in Apps |-> [j \in JobIds |-> 0]]
    /\ byHand = {}
    /\ faults = 0

----------------------------------------------------------------------------
(* The print jobs of the control plane *)

\* The device's QUEUED jobs: a list in the order of their creation, which is that of their numbers.
QueuedJobs == {j \in DOMAIN printJobs : printJobs[j].status = "QUEUED"}

QueueJob(type) ==
    /\ Len(printJobs) < MaxPrintJobs
    /\ printJobs' = Append(printJobs, [type |-> type, status |-> "QUEUED"])
    /\ UNCHANGED <<assigned, dispatching, polling, shown, sheets, untold, byHand, faults>>

QueueSaleInvoice == QueueJob("SALES_INVOICE")
QueueSaleReturn == QueueJob("CREDIT_NOTE")
QueueBarcodeLabel == QueueJob("BARCODE_LABEL")

\* A report settles the job whatever its status was.
Settled(j, status) == printJobs' = [printJobs EXCEPT ![j].status = status]

----------------------------------------------------------------------------
(* One poll of an app: runPoll *)

Poll(a, t) == polling[a][t]
Job(a, t) == Min(Poll(a, t).jobs)
MoveTo(a, t, place) == polling' = [polling EXCEPT ![a][t].at = place]

\* finally: the poll is over and the next one may begin.
PollEnds(a, t) ==
    /\ polling' = [polling EXCEPT ![a][t] = Away]
    /\ dispatching' = [dispatching EXCEPT ![a] = FALSE]

\* A call or its answer is lost, or the printer refuses.
Fault == faults < MaxFaults /\ faults' = faults + 1

\* Mutant of MayPoll: a tick of the timer polls while another poll is under way.
MayPollAnyway(a) == TRUE

\* The timer fires: nothing is done while another poll of the app is under way.
MayPoll(a) == ~dispatching[a]

PollBegins(a, t) ==
    /\ Poll(a, t) = Away
    /\ MayPoll(a)
    /\ dispatching' = [dispatching EXCEPT ![a] = TRUE]
    /\ MoveTo(a, t, "begun")
    /\ UNCHANGED <<printJobs, assigned, shown, sheets, untold, byHand, faults>>

\* The hardware is ready and the server has answered with the queued jobs.
JobsListed(a, t) ==
    /\ Poll(a, t).at = "begun" /\ ~Poll(a, t).cancelled
    /\ polling' = [polling EXCEPT ![a][t].at = "listed", ![a][t].jobs = QueuedJobs]
    /\ UNCHANGED <<printJobs, assigned, dispatching, shown, sheets, untold, byHand, faults>>

\* The bridge is not ready, the list cannot be had, or the poll was cancelled meanwhile.
PollGivesUp(a, t) ==
    /\ Poll(a, t).at \in {"begun", "listed", "printed"}
    /\ \/ Poll(a, t).cancelled /\ UNCHANGED faults
       \/ Poll(a, t).at = "begun" /\ Fault
    /\ PollEnds(a, t)
    /\ untold' = IF Poll(a, t).at = "printed" THEN [untold EXCEPT ![a][Job(a, t)] = @ + 1] ELSE untold
    /\ UNCHANGED <<printJobs, assigned, shown, sheets, byHand>>

NothingQueued(a, t) ==
    /\ Poll(a, t).at = "listed" /\ ~Poll(a, t).cancelled
    /\ Poll(a, t).jobs = {}
    /\ PollEnds(a, t)
    /\ UNCHANGED <<printJobs, assigned, shown, sheets, untold, byHand, faults>>

\* The app is about to print the oldest job it was answered; its printer is assigned.
MayDispatch(a, t) ==
    /\ Poll(a, t).at = "listed" /\ ~Poll(a, t).cancelled
    /\ Poll(a, t).jobs # {}
    /\ printJobs[Job(a, t)].type \in assigned[a]

\* dispatch_print_job prints, saves the hardware state and reads it again: an error there,
\* after the sheet is out, looks like a failed print.
Dispatch(a, t) ==
    /\ MayDispatch(a, t)
    /\ sheets' = [sheets EXCEPT ![a][Job(a, t)] = @ + 1]
    /\ \/ MoveTo(a, t, "printed") /\ UNCHANGED faults
       \/ MoveTo(a, t, "failed") /\ Fault
    /\ UNCHANGED <<printJobs, assigned, dispatching, shown, untold, byHand>>

\* The printer refuses the job.
DispatchRefused(a, t) ==
    /\ MayDispatch(a, t)
    /\ Fault
    /\ MoveTo(a, t, "refused")
    /\ UNCHANGED <<printJobs, assigned, dispatching, shown, sheets, untold, byHand>>

\* No printer is assigned to the job's type: it stays queued, and so do the jobs behind it.
LeftQueued(a, t) ==
    /\ Poll(a, t).at = "listed" /\ ~Poll(a, t).cancelled
    /\ Poll(a, t).jobs # {}
    /\ printJobs[Job(a, t)].type \notin assigned[a]
    /\ PollEnds(a, t)
    /\ UNCHANGED <<printJobs, assigned, shown, sheets, untold, byHand, faults>>

\* COMPLETED is reported: answered, or the answer or the call lost, which the app takes for a failed print.
ReportCompleted(a, t) ==
    /\ Poll(a, t).at = "printed" /\ ~Poll(a, t).cancelled
    /\ \/ /\ Settled(Job(a, t), "COMPLETED")
          /\ PollEnds(a, t)
          /\ UNCHANGED faults
       \/ /\ Settled(Job(a, t), "COMPLETED") \/ UNCHANGED printJobs
          /\ Fault
          /\ MoveTo(a, t, "failed")
          /\ UNCHANGED dispatching
    /\ UNCHANGED <<assigned, shown, sheets, untold, byHand>>

\* FAILED is reported, by a cancelled poll too; when that call is lost as well the poll ends all the same.
ReportFailed(a, t) ==
    /\ Poll(a, t).at \in {"failed", "refused"}
    /\ PollEnds(a, t)
    /\ \/ Settled(Job(a, t), "FAILED") /\ UNCHANGED <<untold, faults>>
       \/ /\ Fault
          /\ untold' = IF Poll(a, t).at = "failed" THEN [untold EXCEPT ![a][Job(a, t)] = @ + 1] ELSE untold
          /\ UNCHANGED printJobs
    /\ UNCHANGED <<assigned, shown, sheets, byHand>>

----------------------------------------------------------------------------
(* Around the poll *)

\* The session, the device or the lock of the app changes: the polls under way are cancelled.
SessionChanges(a) ==
    /\ \E t \in Timers : Poll(a, t) # Away /\ ~Poll(a, t).cancelled
    /\ Fault
    /\ polling' = [polling EXCEPT ![a] =
                     [t \in Timers |-> IF @[t] # Away THEN [@[t] EXCEPT !.cancelled = TRUE] ELSE @[t]]]
    /\ UNCHANGED <<printJobs, assigned, dispatching, shown, sheets, untold, byHand>>

\* The app dies and starts again: what it had printed and not reported it has forgotten.
AppRestarts(a) ==
    /\ Fault
    /\ untold' = [untold EXCEPT ![a] =
                    [j \in JobIds |->
                        IF \E t \in Timers : Poll(a, t).at \in {"printed", "failed"} /\ Job(a, t) = j THEN @[j] + 1 ELSE @[j]]]
    /\ polling' = [polling EXCEPT ![a] = [t \in Timers |-> Away]]
    /\ dispatching' = [dispatching EXCEPT ![a] = FALSE]
    /\ UNCHANGED <<printJobs, assigned, shown, sheets, byHand>>

\* The printer of a kind of document is assigned or taken away.
SavePrinterProfile(a) ==
    /\ \E types \in {{"SALES_INVOICE", "CREDIT_NOTE"}, {"BARCODE_LABEL"}} :
         \/ types \subseteq assigned[a] /\ Fault /\ assigned' = [assigned EXCEPT ![a] = @ \ types]
         \/ ~(types \subseteq assigned[a]) /\ assigned' = [assigned EXCEPT ![a] = @ \cup types] /\ UNCHANGED faults
    /\ UNCHANGED <<printJobs, dispatching, polling, shown, sheets, untold, byHand>>

\* A browser shell of the device, which prints nothing: its list is as old as its last refresh,
\* and its button completes the first job of it.
RefreshPrintQueue ==
    /\ shown' = QueuedJobs
    /\ UNCHANGED <<printJobs, assigned, dispatching, polling, sheets, untold, byHand, faults>>

CompleteFirstPrintJob ==
    /\ shown # {}
    /\ Cardinality(byHand) < MaxByHand
    /\ Settled(Min(shown), "COMPLETED")
    /\ byHand' = byHand \cup {Min(shown)}
    /\ shown' = shown \ {Min(shown)}
    /\ UNCHANGED <<assigned, dispatching, polling, sheets, untold, faults>>

PrintNext ==
    \/ QueueSaleInvoice \/ QueueSaleReturn \/ QueueBarcodeLabel
    \/ \E a \in Apps :
         \/ \E t \in Timers :
              \/ PollBegins(a, t) \/ JobsListed(a, t) \/ PollGivesUp(a, t) \/ NothingQueued(a, t)
              \/ Dispatch(a, t) \/ DispatchRefused(a, t) \/ LeftQueued(a, t)
              \/ ReportCompleted(a, t) \/ ReportFailed(a, t)
         \/ SessionChanges(a) \/ AppRestarts(a) \/ SavePrinterProfile(a)
    \/ RefreshPrintQueue \/ CompleteFirstPrintJob

PrintSpec == PrintInit /\ [][PrintNext]_printVars

----------------------------------------------------------------------------
(* An app prints a job a second time only when the report of the first      *)
(* print never reached the control plane: a cancelled poll, a restart or a  *)
(* lost call, never the timer firing while a poll is under way.             *)
PrintedOncePerReport ==
    \A a \in Apps, j \in JobIds : sheets[a][j] <= 1 + untold[a][j]

(* A job is COMPLETED only if a cashier has said so by hand in a browser    *)
(* shell or some app has put it on paper, whichever calls were lost and     *)
(* however many apps poll for the device.                                   *)
CompletedWasPrinted ==
    \A j \in DOMAIN printJobs :
        printJobs[j].status = "COMPLETED" => j \in byHand \/ \E a \in Apps : sheets[a][j] > 0

(* What is on paper and what the rows say agree. *)
PaperMatchesReports == PrintedOncePerReport /\ CompletedWasPrinted
=============================================================================
