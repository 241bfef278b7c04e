------------------------------- MODULE Reports -------------------------------
(***************************************************************************)
(* Reports of one project: ReportsService puts a row and a job, the        *)
(* ReportsProcessor of any API process takes the job, builds the PDF,      *)
(* stores it in S3 and settles the row, while removals of the report or of *)
(* the project run and processes crash.  BullMQ runs a job at least once:  *)
(* a job whose worker lost its lock is taken again, at most MaxStalled     *)
(* times.  Who may ask is Projects' matter: callers here are members.      *)
(***************************************************************************)
EXTENDS Naturals, FiniteSets

CONSTANTS Reports,      \* uuids of Report rows
          Procs,        \* API processes; each serves requests and is a worker
          NoOne,
          MaxStalled,   \* BullMQ's maxStalledCount (the default, 1)
          MaxCrashes,   \* bound: process crashes
          LockLoss,     \* may a live worker lose its lock (event loop, Redis)?
          MayFail       \* calls that may reject, before or after their effect

Calls == {"enqueue", "read", "upload", "complete", "mark", "object", "row"}

ASSUME ReportsAssumption == /\ NoOne \notin Reports \cup Procs
                            /\ MaxStalled \in Nat /\ MaxCrashes \in Nat
                            /\ LockLoss \in BOOLEAN /\ MayFail \subseteq Calls

VARIABLES alive,     \* does the project row exist?
          status,    \* Report.status, "none" before and "removed" after the row
          fileUrl,   \* is Report.fileUrl set?
          error,     \* is Report.error set?
          object,    \* is the PDF in S3?
          job,       \* the BullMQ state of the report's job
          holder,    \* the worker that holds the job's lock
          stalled,   \* how often the job has been taken back from a worker
          request,   \* the process that has yet to enqueue the report's job
          run,       \* what each worker is doing: a report and the next call
          removal,   \* the same for the removal each process serves
          crashes,
          cut,       \* history: reports whose request ended before its job
          dropped,   \* history: reports whose S3 object a removal deleted
          early,     \* history: removed by who read the row before it settled
          unheard    \* history: completed by an update whose reply was lost

db == <<alive, status, fileUrl, error>>
queue == <<job, holder, stalled>>
history == <<crashes, cut, dropped, early, unheard>>
vars == <<db, object, queue, request, run, removal, history>>

Free == [report |-> NoOne, next |-> "idle"]
At(x, call) == [report |-> x, next |-> call]
HasRow(x) == status[x] \in {"pending", "completed", "failed"}
May(call) == call \in MayFail
Working(x) == \E p \in Procs : run[p].report = x
Settled(x) == job[x] \in {"completed", "failed"} /\ ~Working(x)

Goto(p, call) == run' = [run EXCEPT ![p].next = call]

Init == /\ alive = TRUE
        /\ status = [x \in Reports |-> "none"]
        /\ fileUrl = [x \in Reports |-> FALSE]
        /\ error = [x \in Reports |-> FALSE]
        /\ object = [x \in Reports |-> FALSE]
        /\ job = [x \in Reports |-> "none"]
        /\ holder = [x \in Reports |-> NoOne]
        /\ stalled = [x \in Reports |-> 0]
        /\ request = [x \in Reports |-> NoOne]
        /\ run = [p \in Procs |-> Free]
        /\ removal = [p \in Procs |-> Free]
        /\ crashes = 0
        /\ cut = {}
        /\ dropped = {}
        /\ early = {}
        /\ unheard = {}

------------------------------------------------------------------------------
(* Plausible mistakes, each in place of the definition named before "_".   *)

(* The job is not added. *)
CreateReport_noJob(p, x) ==
    /\ status[x] = "none" /\ alive
    /\ status' = [status EXCEPT ![x] = "pending"]
    /\ UNCHANGED <<alive, fileUrl, error, object, queue, request, run, removal, history>>

(* The upload is not awaited and its failure goes unnoticed. *)
UploadPdf_notAwaited(p) ==
    /\ run[p].next = "upload"
    /\ Goto(p, "complete")
    /\ UNCHANGED <<db, object, queue, request, removal, history>>

(* Failed jobs are retried (attempts: 2). *)
SettleJob_retries(p) ==
    /\ run[p].next \in {"completed", "failed"}
    /\ job' = [job EXCEPT ![run[p].report] =
                  IF run[p].next = "failed" THEN "waiting" ELSE "completed"]
    /\ holder' = [holder EXCEPT ![run[p].report] = NoOne]
    /\ run' = [run EXCEPT ![p] = Free]
    /\ UNCHANGED <<db, object, stalled, request, removal, history>>

(* The object of a completed report is left to itself. *)
FindReport_keepsObject(p, x) ==
    /\ removal[p] = Free /\ HasRow(x)
    /\ removal' = [removal EXCEPT ![p] = At(x, "row")]
    /\ early' = IF Settled(x) THEN early ELSE early \cup {x}
    /\ UNCHANGED <<db, object, queue, request, run, crashes, cut, dropped, unheard>>

------------------------------------------------------------------------------
(* ReportsService.requestReport: the row, then the job.  (An insert that    *)
(* commits and rejects leaves what a failing add leaves, a row without a    *)
(* job; an add that reaches the queue and rejects leaves row and job.)      *)

CreateReport(p, x) ==
    /\ status[x] = "none" /\ request[x] = NoOne
    /\ alive                     \* the foreign key; otherwise 500, no row
    /\ status' = [status EXCEPT ![x] = "pending"]
    /\ request' = [request EXCEPT ![x] = p]
    /\ UNCHANGED <<alive, fileUrl, error, object, queue, run, removal, history>>

Enqueue(x) ==
    /\ request[x] # NoOne
    /\ request' = [request EXCEPT ![x] = NoOne]
    /\ \/ /\ job' = [job EXCEPT ![x] = "waiting"]
          /\ UNCHANGED cut
       \/ /\ May("enqueue")
          /\ cut' = cut \cup {x}
          /\ UNCHANGED job
    /\ UNCHANGED <<db, object, holder, stalled, run, removal, crashes, dropped, early, unheard>>

------------------------------------------------------------------------------
(* ReportsProcessor.process, inside BullMQ's worker loop (concurrency 1). *)

TakeJob(p, x) ==
    /\ run[p] = Free /\ job[x] = "waiting"
    /\ job' = [job EXCEPT ![x] = "active"]
    /\ holder' = [holder EXCEPT ![x] = p]
    /\ run' = [run EXCEPT ![p] = At(x, "read")]
    /\ UNCHANGED <<db, object, stalled, request, removal, history>>

(* findUniqueOrThrow rejects when the project is gone; any rejection up to *)
(* the update is caught and marks the report as failed.                    *)
ReadData(p) ==
    /\ run[p].next = "read"
    /\ \/ alive /\ Goto(p, "upload")
       \/ (~alive \/ May("read")) /\ Goto(p, "mark")
    /\ UNCHANGED <<db, object, queue, request, removal, history>>

UploadPdf(p) ==
    /\ run[p].next = "upload"
    /\ \/ /\ object' = [object EXCEPT ![run[p].report] = TRUE]
          /\ Goto(p, "complete")
       \/ /\ May("upload")
          /\ object' \in {object, [object EXCEPT ![run[p].report] = TRUE]}
          /\ Goto(p, "mark")
    /\ UNCHANGED <<db, queue, request, removal, history>>

(* The update may commit and reject all the same (its reply was lost): the *)
(* catch then marks a completed report as failed.                          *)
CompleteReport(p) ==
    /\ run[p].next = "complete"
    /\ LET x == run[p].report
       IN  \/ /\ HasRow(x)
              /\ status' = [status EXCEPT ![x] = "completed"]
              /\ fileUrl' = [fileUrl EXCEPT ![x] = TRUE]
              /\ \/ Goto(p, "completed") /\ UNCHANGED unheard
                 \/ May("complete") /\ Goto(p, "mark") /\ unheard' = unheard \cup {x}
           \/ /\ ~HasRow(x) \/ May("complete")
              /\ Goto(p, "mark")
              /\ UNCHANGED <<status, fileUrl, unheard>>
    /\ UNCHANGED <<alive, error, object, queue, request, removal,
                   crashes, cut, dropped, early>>

(* The catch's own update; whether it rejects or not, process() throws. *)
MarkFailed(p) ==
    /\ run[p].next = "mark"
    /\ LET x == run[p].report
       IN  \/ /\ HasRow(x)
              /\ status' = [status EXCEPT ![x] = "failed"]
              /\ error' = [error EXCEPT ![x] = TRUE]
           \/ /\ ~HasRow(x) \/ May("mark")
              /\ UNCHANGED <<status, error>>
    /\ Goto(p, "failed")
    /\ UNCHANGED <<alive, fileUrl, object, queue, request, removal, history>>

(* The worker settles the job; attempts is 1, so a failed job stays failed. *)
(* A worker whose lock is gone leaves the job to whoever holds it now.      *)
SettleJob(p) ==
    /\ run[p].next \in {"completed", "failed"}
    /\ LET x == run[p].report
       IN  IF holder[x] = p
           THEN /\ job' = [job EXCEPT ![x] = run[p].next]
                /\ holder' = [holder EXCEPT ![x] = NoOne]
           ELSE UNCHANGED <<job, holder>>
    /\ run' = [run EXCEPT ![p] = Free]
    /\ UNCHANGED <<db, object, stalled, request, removal, history>>

(* BullMQ's stalled check, on a job whose lock has expired. *)
TakeBack(x) ==
    /\ job[x] = "active"
    /\ LockLoss \/ run[holder[x]].report # x
    /\ IF stalled[x] < MaxStalled
       THEN /\ job' = [job EXCEPT ![x] = "waiting"]
            /\ stalled' = [stalled EXCEPT ![x] = @ + 1]
       ELSE /\ job' = [job EXCEPT ![x] = "failed"]
            /\ UNCHANGED stalled
    /\ holder' = [holder EXCEPT ![x] = NoOne]
    /\ UNCHANGED <<db, object, request, run, removal, history>>

------------------------------------------------------------------------------
(* ReportsService.remove: the row is read, the object goes, the row goes. *)

FindReport(p, x) ==
    /\ removal[p] = Free /\ HasRow(x)
    /\ removal' = [removal EXCEPT ![p] = At(x, IF fileUrl[x] THEN "object"
                                                             ELSE "row")]
    /\ early' = IF Settled(x) THEN early ELSE early \cup {x}
    /\ UNCHANGED <<db, object, queue, request, run, crashes, cut, dropped, unheard>>

DeleteObject(p) ==
    /\ removal[p].next = "object"
    /\ LET x == removal[p].report
       IN  \/ /\ object' = [object EXCEPT ![x] = FALSE]
              /\ dropped' = dropped \cup {x}
              /\ \/ removal' = [removal EXCEPT ![p].next = "row"]
                 \/ May("object") /\ removal' = [removal EXCEPT ![p] = Free]
           \/ /\ May("object")
              /\ removal' = [removal EXCEPT ![p] = Free]
              /\ UNCHANGED <<object, dropped>>
    /\ UNCHANGED <<db, queue, request, run, crashes, cut, early, unheard>>

DeleteRow(p) ==
    /\ removal[p].next = "row"
    /\ \/ /\ HasRow(removal[p].report)
          /\ status' = [status EXCEPT ![removal[p].report] = "removed"]
       \/ /\ ~HasRow(removal[p].report) \/ May("row")
          /\ UNCHANGED status
    /\ removal' = [removal EXCEPT ![p] = Free]
    /\ UNCHANGED <<alive, fileUrl, error, object, queue, request, run, history>>

(* ProjectsService.remove: the rows cascade, S3 and the queue hear nothing. *)
DeleteProject ==
    /\ alive
    /\ alive' = FALSE
    /\ status' = [x \in Reports |-> IF HasRow(x) THEN "removed" ELSE status[x]]
    /\ early' = early \cup {x \in Reports : HasRow(x)}
    /\ UNCHANGED <<fileUrl, error, object, queue, request, run, removal,
                   crashes, cut, dropped, unheard>>

------------------------------------------------------------------------------
(* A process goes down with every handler it runs, and is restarted. *)
Crash(p) ==
    /\ crashes < MaxCrashes
    /\ crashes' = crashes + 1
    /\ run' = [run EXCEPT ![p] = Free]
    /\ removal' = [removal EXCEPT ![p] = Free]
    /\ request' = [x \in Reports |-> IF request[x] = p THEN NoOne ELSE request[x]]
    /\ cut' = cut \cup {x \in Reports : request[x] = p}
    /\ UNCHANGED <<db, object, queue, dropped, early, unheard>>

WorkerStep(p) == \/ ReadData(p) \/ UploadPdf(p) \/ CompleteReport(p)
                 \/ MarkFailed(p) \/ SettleJob(p)
RemovalStep(p) == DeleteObject(p) \/ DeleteRow(p)

Next == \/ \E p \in Procs :
              \/ \E x \in Reports : CreateReport(p, x) \/ TakeJob(p, x) \/ FindReport(p, x)
              \/ WorkerStep(p) \/ RemovalStep(p) \/ Crash(p)
        \/ \E x \in Reports : Enqueue(x) \/ TakeBack(x)
        \/ DeleteProject

Spec == Init /\ [][Next]_vars

(* Promises settle, a free worker takes a waiting job, and the stalled     *)
(* check runs every 30 seconds.  Nobody has to ask, remove or crash.       *)
Fairness == /\ \A p \in Procs : WF_vars(WorkerStep(p)) /\ WF_vars(RemovalStep(p))
            /\ \A x \in Reports : /\ WF_vars(Enqueue(x)) /\ WF_vars(TakeBack(x))
                                  /\ WF_vars(\E p \in Procs : TakeJob(p, x))

FairSpec == Spec /\ Fairness

------------------------------------------------------------------------------
(* Properties. *)

Steps == [report : Reports \cup {NoOne},
          next : Calls \cup {"idle", "completed", "failed"}]

(* Types of the database, the queue and the processes. *)
TypeOK == /\ alive \in BOOLEAN
          /\ status \in [Reports -> {"none", "pending", "completed", "failed",
                                     "removed"}]
          /\ fileUrl \in [Reports -> BOOLEAN]
          /\ error \in [Reports -> BOOLEAN]
          /\ object \in [Reports -> BOOLEAN]
          /\ job \in [Reports -> {"none", "waiting", "active", "completed",
                                  "failed"}]
          /\ holder \in [Reports -> Procs \cup {NoOne}]
          /\ stalled \in [Reports -> 0 .. MaxStalled]
          /\ request \in [Reports -> Procs \cup {NoOne}]
          /\ run \in [Procs -> Steps]
          /\ removal \in [Procs -> Steps]
          /\ crashes \in 0 .. MaxCrashes
          /\ cut \subseteq Reports
          /\ dropped \subseteq Reports
          /\ early \subseteq Reports
          /\ unheard \subseteq Reports

(* findOne hands out a download URL for a completed report with a fileUrl:  *)
(* the PDF is then in S3, unless a removal of this very report has deleted  *)
(* it (and was itself cut short, or is about to delete the row).            *)
DownloadsExist ==
    \A x \in Reports : status[x] = "completed" =>
       fileUrl[x] /\ (object[x] \/ x \in dropped)

(* A row that is pending still has somebody to settle it: its request, its *)
(* job, or a worker.  The exceptions are what strands a report for good: a *)
(* request cut off before its job was added, a job taken from its workers  *)
(* more than MaxStalled times, and a failure that could not be recorded.   *)
PendingIsWorkedOn ==
    \A x \in Reports : status[x] = "pending" =>
       \/ request[x] # NoOne
       \/ job[x] \in {"waiting", "active"}
       \/ Working(x)
       \/ x \in cut
       \/ job[x] = "failed" /\ (stalled[x] = MaxStalled \/ May("mark"))

(* A report settles once: no step turns completed into failed or back,     *)
(* unless its job was taken from a worker and handed out a second time, or *)
(* the update that completed it was reported as failed to its own worker.  *)
Reopened == {x \in Reports : stalled[x] > 0} \cup unheard

SettlesOnce ==
    [][\A x \in Reports :
          {status[x], status'[x]} = {"completed", "failed"} => x \in Reopened]_vars

(* Two workers on one report: only after the job was taken back.           *)
OneWorkerEach ==
    \A x \in Reports :
       Cardinality({p \in Procs : run[p].report = x}) <= 1 + stalled[x]

(* A report whose row names its PDF takes it along when it is removed,     *)
(* unless it went with its project or its removal read the row while its   *)
(* job was unsettled or a worker still busy with it.  That holds for a     *)
(* completed report that a lost reply turned into a failed one, too.  (A   *)
(* PDF whose upload or update failed is named by no row, and stays in S3   *)
(* for good.)                                                              *)
OrphansAreEarly ==
    \A x \in Reports :
       status[x] = "removed" /\ fileUrl[x] /\ object[x] => x \in early

(* The report panel polls every 3 s while it shows a pending report.  The  *)
(* handlers implement the lifecycle a user is promised: a report settles,  *)
(* and once, polling ends.  What may keep it from settling is a request    *)
(* that was cut off, a job that failed without a run to record it, or a    *)
(* failure that could not be recorded.  It may settle anew, and a report   *)
(* shown as completed become a failed one, in two ways: its job was taken  *)
(* from its worker, or the worker never heard that its update committed.   *)
Stranded == cut \cup {x \in Reports : /\ job[x] = "failed" /\ ~Working(x)
                                      /\ ~error[x] /\ ~fileUrl[x]}
L == INSTANCE ReportLifecycle WITH stranded <- Stranded, reopened <- Reopened
ImplementsLifecycle == L!LifecycleSpec
==============================================================================
