------------------------------ MODULE GstExport ------------------------------
(***************************************************************************)
(* GST exports of B2B sales: the requests that queue and retry them         *)
(* (services/compliance.py) and the worker's handler, which submits the     *)
(* invoice to the government's portal (gst_export_jobs.py, irp_provider.py) *)
(* inside the transaction that records the answer.  The queue is            *)
(* OperationsQueue, of which this module keeps what the handler sees: a     *)
(* handler that raises ends the worker's poll and leaves the job RUNNING    *)
(* until its lease lapses, and a lapsed lease does not stop the worker.     *)
(***************************************************************************)
EXTENDS Desk, Sequences

CONSTANTS
    ExportSales,    \* B2B sales with both GSTINs and HSN codes
    MaxTasks,       \* bound: operations_jobs of type GST_EXPORT_PREPARE
    MaxLapses       \* bound: leases that lapse

VARIABLES
    exports,        \* gst_export_jobs: sale -> status and prepared_payload, or NoExport
    irnOf,          \* irn_attachments, unique by job: the sales that have one
    saleIrn,        \* sales.irn_status
    irpProfile,     \* whether the branch has an IRP profile
    exportTasks,    \* the queue's jobs: sale and status
    registered,     \* the portal: the sales that have an IRN there
    lapses          \* history: leases that have lapsed

gstVars == <<exports, irnOf, saleIrn, irpProfile, exportTasks, registered, lapses>>

NoExport == [status |-> "NONE", prepared |-> FALSE]

GstExportInit ==
    /\ DeskInit
    /\ exports = [s \in ExportSales |-> NoExport]
    /\ irnOf = {}
    /\ saleIrn = [s \in ExportSales |-> "IRN_PENDING"]
    /\ irpProfile = FALSE
    /\ exportTasks = <<>>
    /\ registered = {}
    /\ lapses = 0

\* Only a column the request has changed is written.
StatusColumn(read, wanted, now) == IF wanted = read THEN now ELSE wanted

\* get_active_job_by_queue_key: the key is the sale.
ActiveTask(s) == \E t \in DOMAIN exportTasks : exportTasks[t] \in [sale : {s}, status : {"QUEUED", "RUNNING"}]
Enqueued(s) == Append(exportTasks, [sale |-> s, status |-> "QUEUED"])
TaskDone(t) == [exportTasks EXCEPT ![t].status = "SUCCEEDED"]

----------------------------------------------------------------------------
(* The owner's requests *)

UpsertIrpProfile ==
    /\ ~irpProfile
    /\ irpProfile' = TRUE
    /\ AtOnce
    /\ UNCHANGED <<exports, irnOf, saleIrn, exportTasks, registered, lapses>>

CreateExport(r, s) ==
    /\ exports[s] = NoExport
    /\ saleIrn[s] # "IRN_ATTACHED"
    /\ Len(exportTasks) < MaxTasks
    /\ Checked(r, [op |-> "create", sale |-> s])
    /\ UNCHANGED gstVars

\* A sale has one export: a unique constraint.
StoreExport(r) ==
    /\ Doing(r, "create")
    /\ Len(exportTasks) < MaxTasks
    /\ exports[desk[r].sale] = NoExport
    /\ exports' = [exports EXCEPT ![desk[r].sale].status = "QUEUED"]
    /\ exportTasks' = Enqueued(desk[r].sale)
    /\ Committed(r, {<<"export", desk[r].sale>>})
    /\ UNCHANGED <<irnOf, saleIrn, irpProfile, registered, lapses>>

\* Mutant of Retriable: a job is queued again whatever its status.
RetriableAlways(s) == exports[s] # NoExport

\* An export whose IRN is attached is not sent again.
Retriable(s) == exports[s] # NoExport /\ exports[s].status # "IRN_ATTACHED"

RetryExport(r, s) ==
    /\ Retriable(s)
    /\ Len(exportTasks) < MaxTasks
    /\ Checked(r, [op |-> "retry", sale |-> s, status |-> exports[s].status, active |-> ActiveTask(s)])
    /\ UNCHANGED gstVars

\* The export's active job will do, however far it has come.
RetriedTasks(s, active) == IF active THEN exportTasks ELSE Enqueued(s)

StoreRetry(r) ==
    /\ Doing(r, "retry")
    /\ Len(exportTasks) < MaxTasks
    /\ exports' = [exports EXCEPT ![desk[r].sale].status = StatusColumn(desk[r].status, "RETRY_QUEUED", @)]
    /\ exportTasks' = RetriedTasks(desk[r].sale, desk[r].active)
    /\ Committed(r, {<<"export", desk[r].sale>>})
    /\ UNCHANGED <<irnOf, saleIrn, irpProfile, registered, lapses>>

----------------------------------------------------------------------------
(* The worker, which MaxTasks and MaxLapses bound *)

Answered(r, errand) ==
    /\ desk' = [desk EXCEPT ![r] = errand]
    /\ UNCHANGED <<overtaken, blind>>

Answer(r, op, prepared) == Answered(r, [desk[r] EXCEPT !.op = op, !.prepared = prepared])

\* A job is leased and its handler has read the export and the profile.
RunPrepare(r, t) ==
    /\ exportTasks[t].status = "QUEUED" /\ desk[r] = Idle
    /\ LET s == exportTasks[t].sale IN
       Answered(r, [op |-> "prepare", task |-> t, sale |-> s, status |-> exports[s].status,
                    prepared |-> exports[s].prepared, profile |-> irpProfile])
    /\ exportTasks' = [exportTasks EXCEPT ![t].status = "RUNNING"]
    /\ UNCHANGED <<exports, irnOf, saleIrn, irpProfile, registered, lapses>>

\* The export has its IRN: nothing is sent.
PrepareSkips(r) ==
    /\ Doing(r, "prepare") /\ desk[r].status = "IRN_ATTACHED"
    /\ exportTasks' = TaskDone(desk[r].task)
    /\ Committed(r, {})
    /\ UNCHANGED <<exports, irnOf, saleIrn, irpProfile, registered, lapses>>

Submits(r) == Doing(r, "prepare") /\ desk[r].status # "IRN_ATTACHED" /\ desk[r].profile

\* The portal registers the invoice, or knows it and is asked for the IRN it has.
SubmitIrn(r) ==
    /\ Submits(r)
    /\ registered' = registered \cup {desk[r].sale}
    /\ Answer(r, "attach", TRUE)
    /\ UNCHANGED <<exports, irnOf, saleIrn, irpProfile, exportTasks, lapses>>

\* It refuses the invoice or a taxpayer, or the payload cannot be built; once built it is kept
\* as it is.  It never refuses an invoice it has registered.
SubmitRefused(r) ==
    /\ Submits(r)
    /\ \/ ~desk[r].prepared /\ Answer(r, "refuse", FALSE)
       \/ desk[r].sale \notin registered /\ Answer(r, "refuse", TRUE)
    /\ UNCHANGED gstVars

\* The portal cannot be reached, its answer is lost, or a lookup of an IRN it has fails.
SubmitFails(r) ==
    /\ Submits(r)
    /\ registered' \in {registered, registered \cup {desk[r].sale}}
    /\ RolledBack(r)
    /\ UNCHANGED <<exports, irnOf, saleIrn, irpProfile, exportTasks, lapses>>

\* The attachment is unique by export: a second one rolls everything back.
StoreAttachment(r) ==
    /\ Doing(r, "attach")
    /\ desk[r].sale \notin irnOf
    /\ irnOf' = irnOf \cup {desk[r].sale}
    /\ exports' = [exports EXCEPT ![desk[r].sale] = [status |-> "IRN_ATTACHED", prepared |-> TRUE]]
    /\ saleIrn' = [saleIrn EXCEPT ![desk[r].sale] = "IRN_ATTACHED"]
    /\ exportTasks' = TaskDone(desk[r].task)
    /\ Committed(r, {<<"export", desk[r].sale>>})
    /\ UNCHANGED <<irpProfile, registered, lapses>>

\* ACTION_REQUIRED: refused, or the branch has no profile.
StoreRefusal(r) ==
    /\ \/ Doing(r, "refuse")
       \/ Doing(r, "prepare") /\ desk[r].status # "IRN_ATTACHED" /\ ~desk[r].profile
    /\ exports' = [exports EXCEPT ![desk[r].sale] =
                     [status |-> StatusColumn(desk[r].status, "ACTION_REQUIRED", @.status),
                      prepared |-> @.prepared \/ desk[r].prepared]]
    /\ exportTasks' = TaskDone(desk[r].task)
    /\ Committed(r, {<<"export", desk[r].sale>>})
    /\ UNCHANGED <<irnOf, saleIrn, irpProfile, registered, lapses>>

\* A request dies, or a worker whose attachment or any other statement fails; the job stays RUNNING.
GstRequestFails(r) == RolledBack(r) /\ UNCHANGED gstVars

\* The lease of a running job lapses, whether its worker is gone or only slow.
TaskLapses(t) ==
    /\ exportTasks[t].status = "RUNNING"
    /\ lapses < MaxLapses
    /\ exportTasks' = [exportTasks EXCEPT ![t].status = "QUEUED"]
    /\ lapses' = lapses + 1
    /\ UNCHANGED <<deskVars, exports, irnOf, saleIrn, irpProfile, registered>>

GstExportNext ==
    \/ UpsertIrpProfile
    \/ \E r \in Desks :
         \/ \E s \in ExportSales : CreateExport(r, s) \/ RetryExport(r, s)
         \/ StoreExport(r) \/ StoreRetry(r)
         \/ \E t \in DOMAIN exportTasks : RunPrepare(r, t)
         \/ PrepareSkips(r) \/ SubmitIrn(r) \/ SubmitRefused(r) \/ SubmitFails(r)
         \/ StoreAttachment(r) \/ StoreRefusal(r) \/ GstRequestFails(r)
    \/ \E t \in DOMAIN exportTasks : TaskLapses(t)

GstExportSpec == GstExportInit /\ [][GstExportNext]_<<deskVars, gstVars>>

----------------------------------------------------------------------------
(* An invoice's IRN is attached, its sale marked and its export closed      *)
(* together, and only when the portal has registered it, whichever answers  *)
(* were lost and however many workers ran the job; the export says so until *)
(* a retry or a refusal that was overtaken by the attachment reopens it.    *)
AttachmentAgrees ==
    \A s \in ExportSales :
        /\ (s \in irnOf) = (saleIrn[s] = "IRN_ATTACHED")
        /\ s \in irnOf => s \in registered
        /\ exports[s].status = "IRN_ATTACHED" => s \in irnOf
        /\ s \in irnOf /\ Seen("export", s) => exports[s].status = "IRN_ATTACHED"

(* An export that says it is queued has a job in the queue, unless a retry  *)
(* was overtaken: nothing waits for a worker that will never come.          *)
PendingHasTask ==
    \A s \in ExportSales :
        exports[s].status \in {"QUEUED", "RETRY_QUEUED"} /\ Seen("export", s) => ActiveTask(s)

\* The rows of an export agree with each other, with the portal and with the queue.
ExportsAgree == AttachmentAgrees /\ PendingHasTask
=============================================================================
