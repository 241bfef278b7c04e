---------------------------- MODULE Jobs_proofs ------------------------------
(****************************************************************************)
(* Theorems about the background jobs: Reports, for every set of reports    *)
(* and processes, every number of crashes, lost locks, and whatever calls   *)
(* may fail; Reminders, for every set of tasks and workers, every window    *)
(* and number of jobs, whatever fails or stalls; and Benchmark, for every   *)
(* set of stages, keys and costs, however many recomputations and readers.  *)
(****************************************************************************)
EXTENDS Reports, Reminders, Benchmark, FiniteSetTheorems, TLAPS

------------------------------------------------------------------------------
(* Type correctness. *)

(* A process that is at a call is there for a report. *)
Placed == \A p \in Procs :
             /\ run[p].next = "idle" \/ run[p].report \in Reports
             /\ removal[p].next = "idle" \/ removal[p].report \in Reports

Typed == TypeOK /\ Placed

LEMMA TypedInit == Init => Typed
BY ReportsAssumption DEF Init, Typed, TypeOK, Placed, Free, Steps

LEMMA TypedStep == Typed /\ [Next]_vars => Typed'
<1> SUFFICES ASSUME Typed, [Next]_vars PROVE Typed'
    OBVIOUS
<1>0. ASSUME NEW p \in Procs, NEW c \in Calls \cup {"completed", "failed"},
             run[p].next # "idle", Goto(p, c), UNCHANGED removal
      PROVE  run' \in [Procs -> Steps] /\ Placed'
    BY <1>0 DEF Typed, TypeOK, Placed, Steps, Goto
<1> USE DEF Typed, TypeOK, Calls, db, queue, history
<1>1. ASSUME NEW p \in Procs, NEW x \in Reports, CreateReport(p, x) PROVE Typed'
    BY <1>1 DEF CreateReport, Placed
<1>2. ASSUME NEW p \in Procs, NEW x \in Reports, TakeJob(p, x) PROVE Typed'
    BY <1>2 DEF TakeJob, Placed, Steps, At, Free
<1>3. ASSUME NEW p \in Procs, NEW x \in Reports, FindReport(p, x) PROVE Typed'
    BY <1>3 DEF FindReport, HasRow, Placed, Steps, At, Free
<1>4. ASSUME NEW p \in Procs, ReadData(p) PROVE Typed'
    BY <1>0, <1>4 DEF ReadData
<1>5. ASSUME NEW p \in Procs, UploadPdf(p) PROVE Typed'
    BY <1>0, <1>5 DEF UploadPdf
<1>6. ASSUME NEW p \in Procs, CompleteReport(p) PROVE Typed'
    <2>1. PICK c \in {"completed", "mark"} : Goto(p, c)
        BY <1>6 DEF CompleteReport
    <2>2. run' \in [Procs -> Steps] /\ Placed'
        BY <1>0, <1>6, <2>1 DEF CompleteReport
    <2>3. run[p].report \in Reports
        BY <1>6 DEF CompleteReport, Placed
    <2> QED
        BY <1>6, <2>2, <2>3 DEF CompleteReport
<1>7. ASSUME NEW p \in Procs, MarkFailed(p) PROVE Typed'
    BY <1>0, <1>7 DEF MarkFailed
<1>8. ASSUME NEW p \in Procs, SettleJob(p) PROVE Typed'
    <2>1. run[p].report \in Reports
        BY <1>8 DEF SettleJob, Placed
    <2>2. /\ job' \in [Reports -> {"none", "waiting", "active", "completed", "failed"}]
          /\ holder' \in [Reports -> Procs \cup {NoOne}]
        BY <1>8, <2>1 DEF SettleJob
    <2>3. run' \in [Procs -> Steps] /\ Placed'
        BY <1>8 DEF SettleJob, Placed, Steps, Free
    <2> QED
        BY <1>8, <2>2, <2>3 DEF SettleJob
<1>9. ASSUME NEW p \in Procs, DeleteObject(p) PROVE Typed'
    <2>1. removal' \in [Procs -> Steps] /\ Placed'
        <3>1. CASE removal' = [removal EXCEPT ![p].next = "row"]
            BY <1>9, <3>1 DEF DeleteObject, Placed, Steps
        <3>2. CASE removal' = [removal EXCEPT ![p] = Free]
            BY <1>9, <3>2 DEF DeleteObject, Placed, Steps, Free
        <3> QED
            BY <1>9, <3>1, <3>2 DEF DeleteObject
    <2>2. removal[p].report \in Reports
        BY <1>9 DEF DeleteObject, Placed
    <2> QED
        BY <1>9, <2>1, <2>2 DEF DeleteObject
<1>10. ASSUME NEW p \in Procs, DeleteRow(p) PROVE Typed'
    BY <1>10 DEF DeleteRow, Placed, Steps, At, Free
<1>11. ASSUME NEW p \in Procs, Crash(p) PROVE Typed'
    BY <1>11, ReportsAssumption DEF Crash, Placed, Steps, Free
<1>12. ASSUME NEW x \in Reports, Enqueue(x) PROVE Typed'
    BY <1>12 DEF Enqueue, Placed
<1>13. ASSUME NEW x \in Reports, TakeBack(x) PROVE Typed'
    BY <1>13, ReportsAssumption DEF TakeBack, Placed
<1>14. CASE DeleteProject
    BY <1>14 DEF DeleteProject, HasRow, Placed
<1>15. CASE UNCHANGED vars
    BY <1>15 DEF vars, Placed
<1> QED
    BY <1>1, <1>2, <1>3, <1>4, <1>5, <1>6, <1>7, <1>8, <1>9, <1>10, <1>11, <1>12,
       <1>13, <1>14, <1>15 DEF Next, WorkerStep, RemovalStep

(* Every reachable state is well typed: report rows, the queue's jobs and  *)
(* what each process is doing.                                             *)
THEOREM Typing == Spec => []TypeOK
<1>1. Spec => []Typed
    BY TypedInit, TypedStep, PTL DEF Spec
<1> QED
    BY <1>1, PTL DEF Typed
------------------------------------------------------------------------------
(* A pending report is worked on. *)

(* Which states of a job, and which calls of a worker, go with which states *)
(* of the row.                                                             *)
Matched ==
    /\ \A x \in Reports :
          /\ request[x] # NoOne => job[x] = "none" /\ status[x] # "none"
          /\ status[x] = "none" => job[x] = "none"
          /\ status[x] = "pending" /\ job[x] = "none" => request[x] # NoOne \/ x \in cut
          /\ job[x] = "completed" => status[x] # "pending"
          /\ job[x] = "failed" /\ status[x] = "pending" =>
                stalled[x] = MaxStalled \/ May("mark")
    /\ \A p \in Procs : run[p].next # "idle" =>
          /\ job[run[p].report] # "none"
          /\ run[p].next = "completed" => status[run[p].report] # "pending"
          /\ run[p].next = "failed" => status[run[p].report] # "pending" \/ May("mark")

LEMMA MatchedInit == Init => Matched
BY DEF Init, Matched, Free

LEMMA MatchedStep == Typed /\ Matched /\ [Next]_vars => Matched'
<1> SUFFICES ASSUME Typed /\ Matched, [Next]_vars PROVE Matched'
    OBVIOUS
<1> USE DEF Typed, TypeOK, Placed, Matched, Steps, Free, At, Goto, HasRow, db, queue, history
<1>1. ASSUME NEW p \in Procs, NEW x \in Reports, CreateReport(p, x) PROVE Matched'
    BY <1>1, ReportsAssumption DEF CreateReport
<1>2. ASSUME NEW p \in Procs, NEW x \in Reports, TakeJob(p, x) PROVE Matched'
    BY <1>2 DEF TakeJob
<1>3. ASSUME NEW p \in Procs, NEW x \in Reports, FindReport(p, x) PROVE Matched'
    BY <1>3 DEF FindReport
<1>4. ASSUME NEW p \in Procs, ReadData(p) PROVE Matched'
    <2>1. PICK c \in {"upload", "mark"} : Goto(p, c)
        BY <1>4 DEF ReadData
    <2> QED
        BY <1>4, <2>1 DEF ReadData
<1>5. ASSUME NEW p \in Procs, UploadPdf(p) PROVE Matched'
    BY <1>5 DEF UploadPdf
<1>6. ASSUME NEW p \in Procs, CompleteReport(p) PROVE Matched'
    <2>1. CASE Goto(p, "completed") /\ status' = [status EXCEPT ![run[p].report] = "completed"]
        BY <1>6, <2>1 DEF CompleteReport
    <2>2. CASE /\ Goto(p, "mark")
               /\ status' \in {status, [status EXCEPT ![run[p].report] = "completed"]}
        BY <1>6, <2>2 DEF CompleteReport
    <2> QED
        BY <1>6, <2>1, <2>2 DEF CompleteReport
<1>7. ASSUME NEW p \in Procs, MarkFailed(p) PROVE Matched'
    BY <1>7 DEF MarkFailed
<1>8. ASSUME NEW p \in Procs, SettleJob(p) PROVE Matched'
    BY <1>8 DEF SettleJob
<1>9. ASSUME NEW p \in Procs, DeleteObject(p) PROVE Matched'
    BY <1>9 DEF DeleteObject
<1>10. ASSUME NEW p \in Procs, DeleteRow(p) PROVE Matched'
    BY <1>10 DEF DeleteRow
<1>11. ASSUME NEW p \in Procs, Crash(p) PROVE Matched'
    BY <1>11 DEF Crash
<1>12. ASSUME NEW x \in Reports, Enqueue(x) PROVE Matched'
    BY <1>12 DEF Enqueue
<1>13. ASSUME NEW x \in Reports, TakeBack(x) PROVE Matched'
    <2>1. CASE stalled[x] < MaxStalled
        BY <1>13, <2>1 DEF TakeBack
    <2>2. CASE ~(stalled[x] < MaxStalled)
        <3>1. stalled[x] = MaxStalled
            <4>1. stalled[x] \in 0 .. MaxStalled
                OBVIOUS
            <4> HIDE DEF Typed, TypeOK, Matched
            <4> QED
                BY <2>2, <4>1, ReportsAssumption
        <3>2. /\ job[x] = "active" /\ job' = [job EXCEPT ![x] = "failed"]
              /\ UNCHANGED <<status, request, run, stalled, cut>>
            BY <1>13, <2>2 DEF TakeBack
        <3>3. ASSUME NEW y \in Reports
              PROVE  /\ request'[y] # NoOne => job'[y] = "none" /\ status'[y] # "none"
                     /\ status'[y] = "none" => job'[y] = "none"
                     /\ status'[y] = "pending" /\ job'[y] = "none" => request'[y] # NoOne \/ y \in cut'
                     /\ job'[y] = "completed" => status'[y] # "pending"
                     /\ job'[y] = "failed" /\ status'[y] = "pending" =>
                           stalled'[y] = MaxStalled \/ May("mark")
            BY <3>1, <3>2
        <3>4. \A y \in Reports : job[y] # "none" => job'[y] # "none"
            BY <3>2
        <3> QED
            BY <3>2, <3>3, <3>4
    <2> QED
        BY <2>1, <2>2
<1>14. CASE DeleteProject
    BY <1>14 DEF DeleteProject
<1>15. CASE UNCHANGED vars
    BY <1>15 DEF vars
<1> QED
    BY <1>1, <1>2, <1>3, <1>4, <1>5, <1>6, <1>7, <1>8, <1>9, <1>10, <1>11, <1>12, <1>13, <1>14, <1>15
       DEF Next, WorkerStep, RemovalStep

(* PendingIsWorkedOn in every reachable state: only a request cut off       *)
(* before its job, too many stalls, or an unrecorded failure strand a row.  *)
THEOREM PendingHolds == Spec => []PendingIsWorkedOn
<1>1. Typed /\ Matched => PendingIsWorkedOn
    BY DEF Typed, TypeOK, Matched, PendingIsWorkedOn
<1>2. Init => Typed /\ Matched
    BY TypedInit, MatchedInit
<1>3. Typed /\ Matched /\ [Next]_vars => Typed' /\ Matched'
    BY TypedStep, MatchedStep
<1> QED
    BY <1>1, <1>2, <1>3, PTL DEF Spec
------------------------------------------------------------------------------
(* A completed report has its PDF. *)

(* A worker that is about to complete its report has uploaded the PDF, which *)
(* only a removal deletes.                                                  *)
Stored ==
    /\ DownloadsExist
    /\ \A p \in Procs : run[p].next = "complete" =>
          object[run[p].report] \/ run[p].report \in dropped

LEMMA StoredInit == Init => Stored
BY DEF Init, Stored, DownloadsExist, Free

LEMMA StoredStep == Typed /\ Stored /\ [Next]_vars => Stored'
<1> SUFFICES ASSUME Typed /\ Stored, [Next]_vars PROVE Stored'
    OBVIOUS
<1> USE DEF Typed, TypeOK, Placed, Stored, DownloadsExist, Steps, Free, At, Goto, HasRow, db, queue, history
<1>1. ASSUME NEW p \in Procs, NEW x \in Reports, CreateReport(p, x) PROVE Stored'
    BY <1>1 DEF CreateReport
<1>2. ASSUME NEW p \in Procs, NEW x \in Reports, TakeJob(p, x) PROVE Stored'
    BY <1>2 DEF TakeJob
<1>3. ASSUME NEW p \in Procs, NEW x \in Reports, FindReport(p, x) PROVE Stored'
    BY <1>3 DEF FindReport
<1>4. ASSUME NEW p \in Procs, ReadData(p) PROVE Stored'
    <2>1. PICK c \in {"upload", "mark"} : Goto(p, c)
        BY <1>4 DEF ReadData
    <2> QED
        BY <1>4, <2>1 DEF ReadData
<1>5. ASSUME NEW p \in Procs, UploadPdf(p) PROVE Stored'
    <2>1. CASE object' = [object EXCEPT ![run[p].report] = TRUE] /\ Goto(p, "complete")
        BY <1>5, <2>1 DEF UploadPdf
    <2>2. CASE /\ object' \in {object, [object EXCEPT ![run[p].report] = TRUE]}
               /\ Goto(p, "mark")
        BY <1>5, <2>2 DEF UploadPdf
    <2> QED
        BY <1>5, <2>1, <2>2 DEF UploadPdf
<1>6. ASSUME NEW p \in Procs, CompleteReport(p) PROVE Stored'
    <2>1. PICK c \in {"completed", "mark"} : Goto(p, c)
        BY <1>6 DEF CompleteReport
    <2> QED
        BY <1>6, <2>1 DEF CompleteReport
<1>7. ASSUME NEW p \in Procs, MarkFailed(p) PROVE Stored'
    BY <1>7 DEF MarkFailed
<1>8. ASSUME NEW p \in Procs, SettleJob(p) PROVE Stored'
    BY <1>8 DEF SettleJob
<1>9. ASSUME NEW p \in Procs, DeleteObject(p) PROVE Stored'
    BY <1>9 DEF DeleteObject
<1>10. ASSUME NEW p \in Procs, DeleteRow(p) PROVE Stored'
    BY <1>10 DEF DeleteRow
<1>11. ASSUME NEW p \in Procs, Crash(p) PROVE Stored'
    BY <1>11 DEF Crash
<1>12. ASSUME NEW x \in Reports, Enqueue(x) PROVE Stored'
    BY <1>12 DEF Enqueue
<1>13. ASSUME NEW x \in Reports, TakeBack(x) PROVE Stored'
    BY <1>13 DEF TakeBack
<1>14. CASE DeleteProject
    BY <1>14 DEF DeleteProject
<1>15. CASE UNCHANGED vars
    BY <1>15 DEF vars
<1> QED
    BY <1>1, <1>2, <1>3, <1>4, <1>5, <1>6, <1>7, <1>8, <1>9, <1>10, <1>11, <1>12, <1>13, <1>14, <1>15
       DEF Next, WorkerStep, RemovalStep

(* DownloadsExist in every reachable state: a completed report has its PDF   *)
(* in S3 unless a removal of it has begun.                                  *)
THEOREM DownloadsHold == Spec => []DownloadsExist
<1>1. Init => Typed /\ Stored
    BY TypedInit, StoredInit
<1>2. Typed /\ Stored /\ [Next]_vars => Typed' /\ Stored'
    BY TypedStep, StoredStep
<1> QED
    BY <1>1, <1>2, PTL DEF Spec, Stored

------------------------------------------------------------------------------
(* A report settles once. *)

(* A job that was never taken back has at most one worker, and none before  *)
(* it is taken; its row is not settled before that worker has finished, but *)
(* by an update whose reply the worker did not get.                         *)
Once ==
    /\ \A x \in Reports :
          stalled[x] = 0 /\ job[x] \in {"none", "waiting"} =>
             ~Working(x) /\ status[x] \notin {"completed", "failed"}
    /\ \A p, q \in Procs :
          /\ run[p].next # "idle" /\ run[p].report = run[q].report
          /\ stalled[run[p].report] = 0
          => p = q
    /\ \A p \in Procs :
          /\ run[p].next \in {"read", "upload", "complete", "mark"}
          /\ run[p].report \notin Reopened
          => status[run[p].report] \notin {"completed", "failed"}

LEMMA OnceInit == Init => Once
BY ReportsAssumption DEF Init, Once, Free, Working, Reopened

LEMMA OnceStep == Typed /\ Matched /\ Once /\ [Next]_vars => Once'
<1> SUFFICES ASSUME Typed /\ Matched /\ Once, [Next]_vars PROVE Once'
    OBVIOUS
<1> USE DEF Typed, TypeOK, Placed, Matched, Once, Reopened, Working, Steps, Free, At, Goto, HasRow, db, queue, history
<1>1. ASSUME NEW p \in Procs, NEW x \in Reports, CreateReport(p, x) PROVE Once'
    BY <1>1 DEF CreateReport
<1>2. ASSUME NEW p \in Procs, NEW x \in Reports, TakeJob(p, x) PROVE Once'
    BY <1>2 DEF TakeJob
<1>3. ASSUME NEW p \in Procs, NEW x \in Reports, FindReport(p, x) PROVE Once'
    BY <1>3 DEF FindReport
<1>4. ASSUME NEW p \in Procs, ReadData(p) PROVE Once'
    <2>1. PICK c \in {"upload", "mark"} : Goto(p, c)
        BY <1>4 DEF ReadData
    <2> QED
        BY <1>4, <2>1 DEF ReadData
<1>5. ASSUME NEW p \in Procs, UploadPdf(p) PROVE Once'
    <2>1. PICK c \in {"complete", "mark"} : Goto(p, c)
        BY <1>5 DEF UploadPdf
    <2> QED
        BY <1>5, <2>1 DEF UploadPdf
<1>6. ASSUME NEW p \in Procs, CompleteReport(p) PROVE Once'
    <2>1. CASE status' = [status EXCEPT ![run[p].report] = "completed"] /\ Goto(p, "completed")
        BY <1>6, <2>1 DEF CompleteReport
    <2>2. CASE UNCHANGED status /\ Goto(p, "mark")
        BY <1>6, <2>2 DEF CompleteReport
    <2>3. CASE /\ status' = [status EXCEPT ![run[p].report] = "completed"] /\ Goto(p, "mark")
               /\ unheard' = unheard \cup {run[p].report}
        BY <1>6, <2>3 DEF CompleteReport
    <2> QED
        BY <1>6, <2>1, <2>2, <2>3 DEF CompleteReport
<1>7. ASSUME NEW p \in Procs, MarkFailed(p) PROVE Once'
    BY <1>7 DEF MarkFailed
<1>8. ASSUME NEW p \in Procs, SettleJob(p) PROVE Once'
    <2>1. /\ run' = [run EXCEPT ![p] = Free]
          /\ UNCHANGED <<status, stalled, unheard>>
          /\ \A x \in Reports : job'[x] = job[x] \/ job'[x] \in {"completed", "failed"}
        BY <1>8 DEF SettleJob
    <2> QED
        BY <2>1, ReportsAssumption
<1>9. ASSUME NEW p \in Procs, DeleteObject(p) PROVE Once'
    BY <1>9 DEF DeleteObject
<1>10. ASSUME NEW p \in Procs, DeleteRow(p) PROVE Once'
    BY <1>10 DEF DeleteRow
<1>11. ASSUME NEW p \in Procs, Crash(p) PROVE Once'
    <2>1. run' = [run EXCEPT ![p] = Free] /\ UNCHANGED <<status, stalled, job, unheard>>
        BY <1>11 DEF Crash
    <2> QED
        BY <2>1, ReportsAssumption
<1>12. ASSUME NEW x \in Reports, Enqueue(x) PROVE Once'
    BY <1>12 DEF Enqueue
<1>13. ASSUME NEW x \in Reports, TakeBack(x) PROVE Once'
    BY <1>13 DEF TakeBack
<1>14. CASE DeleteProject
    BY <1>14 DEF DeleteProject
<1>15. CASE UNCHANGED vars
    BY <1>15 DEF vars
<1> QED
    BY <1>1, <1>2, <1>3, <1>4, <1>5, <1>6, <1>7, <1>8, <1>9, <1>10, <1>11, <1>12, <1>13, <1>14, <1>15
       DEF Next, WorkerStep, RemovalStep

(* SettlesOnce: a step turns completed into failed, or back, only for a     *)
(* report whose job was taken from a worker, or whose worker did not hear   *)
(* that the update which completed it had been committed.                   *)
THEOREM SettlingHolds == Spec => SettlesOnce
<1>1. Init => Typed /\ Matched /\ Once
    BY TypedInit, MatchedInit, OnceInit
<1>2. Typed /\ Matched /\ Once /\ [Next]_vars => Typed' /\ Matched' /\ Once'
    BY TypedStep, MatchedStep, OnceStep
<1>3. ASSUME Typed, Once, [Next]_vars, NEW x \in Reports,
             {status[x], status'[x]} = {"completed", "failed"}
      PROVE  x \in Reopened
    <2>1. {status[x], status'[x]} \subseteq {"completed", "failed"} /\ status'[x] # status[x]
        BY <1>3
    <2>2. ~UNCHANGED status
        BY <2>1
    <2>3. ASSUME NEW p \in Procs, CompleteReport(p) \/ MarkFailed(p) PROVE x \in Reopened
        <3>1. run[p].next \in {"complete", "mark"} /\ run[p].report = x
            BY <1>3, <2>1, <2>3 DEF CompleteReport, MarkFailed, Typed, TypeOK, Placed
        <3>2. status[x] \in {"completed", "failed"}
            BY <2>1
        <3> QED
            BY <1>3, <3>1, <3>2 DEF Once, Typed, TypeOK
    <2>4. ASSUME NEW p \in Procs, (\E y \in Reports : CreateReport(p, y)) \/ DeleteRow(p)
          PROVE  status'[x] \in {status[x], "pending", "removed"}
        BY <1>3, <2>4 DEF CreateReport, DeleteRow, Typed, TypeOK
    <2>5. DeleteProject => status'[x] \in {status[x], "removed"}
        BY DEF DeleteProject
    <2> QED
        BY <1>3, <2>1, <2>2, <2>3, <2>4, <2>5 DEF Next, WorkerStep, RemovalStep, vars, db,
            TakeJob, FindReport, ReadData, UploadPdf, SettleJob, DeleteObject, Crash, Enqueue,
            TakeBack
<1>4. Typed /\ Once /\ [Next]_vars =>
         [\A x \in Reports : {status[x], status'[x]} = {"completed", "failed"} => x \in Reopened]_vars
    BY <1>3
<1> QED
    BY <1>1, <1>2, <1>4, PTL DEF Spec, SettlesOnce
------------------------------------------------------------------------------
(* How many workers run the same report. *)

(* The workers that run the job of a report. *)
Takers(x) == {p \in Procs : run[p].report = x}

(* A job that waits has room for one more worker. *)
Room(x) == IF job[x] \in {"none", "waiting"} THEN 1 ELSE 0

Counted == \A x \in Reports :
              /\ IsFiniteSet(Takers(x))
              /\ Cardinality(Takers(x)) + Room(x) <= 1 + stalled[x]

LEMMA CountedInit == Init => Counted
<1> SUFFICES ASSUME Init, NEW x \in Reports
             PROVE  IsFiniteSet(Takers(x)) /\ Cardinality(Takers(x)) + Room(x) <= 1 + stalled[x]
    BY DEF Counted
<1>1. Takers(x) = {}
    BY ReportsAssumption DEF Init, Takers, Free
<1>2. stalled[x] = 0 /\ Room(x) = 1
    BY DEF Init, Room
<1> QED
    BY <1>1, <1>2, FS_EmptySet

(* Every step but TakeJob takes workers away or leaves them, and makes room  *)
(* only by counting a stall.                                                *)
Thinned == \A x \in Reports :
              /\ Takers(x)' \subseteq Takers(x)
              /\ Room(x)' + stalled[x] <= Room(x) + stalled'[x]

LEMMA Thinning ==
    ASSUME Typed, Matched, [Next]_vars, ~\E p \in Procs, x \in Reports : TakeJob(p, x)
    PROVE  Thinned
<1> USE DEF Typed, TypeOK, Thinned, Takers, Room
<1>1. ASSUME UNCHANGED <<run, job, stalled>> PROVE Thinned
    BY <1>1
<1>2. ASSUME NEW p \in Procs, NEW c, Goto(p, c), UNCHANGED <<job, stalled>> PROVE Thinned
    BY <1>2 DEF Goto, Steps
<1>3. ASSUME NEW p \in Procs, SettleJob(p) PROVE Thinned
    <2>1. run' = [run EXCEPT ![p] = Free] /\ UNCHANGED stalled
        BY <1>3 DEF SettleJob
    <2>2. \A x \in Reports : job'[x] = job[x] \/ job'[x] \in {"completed", "failed"}
        BY <1>3 DEF SettleJob
    <2> QED
        BY <2>1, <2>2, ReportsAssumption DEF Free
<1>4. ASSUME NEW p \in Procs, Crash(p) PROVE Thinned
    BY <1>4, ReportsAssumption DEF Crash, Free, queue
<1>5. ASSUME NEW x \in Reports, Enqueue(x) PROVE Thinned
    BY <1>5 DEF Enqueue, Matched
<1>6. ASSUME NEW x \in Reports, TakeBack(x) PROVE Thinned
    BY <1>6, ReportsAssumption DEF TakeBack
<1>7. ASSUME NEW p \in Procs, ReadData(p) \/ UploadPdf(p) \/ CompleteReport(p) \/ MarkFailed(p)
      PROVE  Thinned
    BY <1>2, <1>7 DEF ReadData, UploadPdf, CompleteReport, MarkFailed, queue
<1>8. ASSUME NEW p \in Procs, NEW x \in Reports, CreateReport(p, x) \/ FindReport(p, x)
      PROVE  Thinned
    BY <1>1, <1>8 DEF CreateReport, FindReport, queue
<1>9. ASSUME NEW p \in Procs, RemovalStep(p) PROVE Thinned
    BY <1>1, <1>9 DEF RemovalStep, DeleteObject, DeleteRow, queue
<1>10. CASE DeleteProject
    BY <1>1, <1>10 DEF DeleteProject, queue
<1>11. CASE UNCHANGED vars
    BY <1>1, <1>11 DEF vars, queue
<1> QED
    BY <1>3, <1>4, <1>5, <1>6, <1>7, <1>8, <1>9, <1>10, <1>11 DEF Next, WorkerStep

LEMMA CountedStep == Typed /\ Matched /\ Counted /\ [Next]_vars => Counted'
<1> SUFFICES ASSUME Typed, Matched, Counted, [Next]_vars, NEW x \in Reports
             PROVE  /\ IsFiniteSet(Takers(x)')
                    /\ Cardinality(Takers(x)') + Room(x)' <= 1 + stalled'[x]
    BY DEF Counted
<1>1. /\ IsFiniteSet(Takers(x)) /\ Cardinality(Takers(x)) \in Nat
      /\ Cardinality(Takers(x)) + Room(x) <= 1 + stalled[x]
      /\ stalled[x] \in Nat /\ Room(x) \in Nat
    BY FS_CardinalityType, ReportsAssumption DEF Counted, Typed, TypeOK, Room
<1>2. CASE Thinned
    <2>1. IsFiniteSet(Takers(x)') /\ Cardinality(Takers(x)') <= Cardinality(Takers(x))
        BY <1>1, <1>2, FS_Subset DEF Thinned
    <2>2. stalled'[x] \in Nat /\ Room(x)' \in Nat
        BY TypedStep, ReportsAssumption DEF Typed, TypeOK, Room
    <2>3. Cardinality(Takers(x)') \in Nat /\ Room(x)' + stalled[x] <= Room(x) + stalled'[x]
        BY <1>2, <2>1, FS_CardinalityType DEF Thinned
    <2> QED
        BY <1>1, <2>1, <2>2, <2>3
<1>3. ASSUME NEW p \in Procs, NEW y \in Reports, TakeJob(p, y)
      PROVE  /\ IsFiniteSet(Takers(x)')
             /\ Cardinality(Takers(x)') + Room(x)' <= 1 + stalled'[x]
    <2>1. CASE x = y
        <3>1. Takers(x)' = Takers(x) \cup {p}
            BY <1>3, <2>1 DEF TakeJob, Takers, At, Typed, TypeOK
        <3>2. Room(x) = 1 /\ Room(x)' = 0 /\ stalled'[x] = stalled[x]
            BY <1>3, <2>1 DEF TakeJob, Room, Typed, TypeOK
        <3>3. /\ IsFiniteSet(Takers(x) \cup {p})
              /\ \/ Cardinality(Takers(x) \cup {p}) = Cardinality(Takers(x))
                 \/ Cardinality(Takers(x) \cup {p}) = Cardinality(Takers(x)) + 1
            BY <1>1, FS_AddElement
        <3> QED
            BY <1>1, <3>1, <3>2, <3>3
    <2>2. CASE x # y
        <3>1. Takers(x)' = Takers(x)
            BY <1>3, <2>2, ReportsAssumption DEF TakeJob, Takers, At, Free, Typed, TypeOK
        <3>2. Room(x)' = Room(x) /\ stalled'[x] = stalled[x]
            BY <1>3, <2>2 DEF TakeJob, Room, Typed, TypeOK
        <3> QED
            BY <1>1, <3>1, <3>2
    <2> QED
        BY <2>1, <2>2
<1> QED
    BY <1>2, <1>3, Thinning

(* OneWorkerEach in every reachable state: a second worker on a report       *)
(* means that its job was taken back.                                       *)
THEOREM WorkersHold == Spec => []OneWorkerEach
<1>1. Init => Typed /\ Matched /\ Counted
    BY TypedInit, MatchedInit, CountedInit
<1>2. Typed /\ Matched /\ Counted /\ [Next]_vars => Typed' /\ Matched' /\ Counted'
    BY TypedStep, MatchedStep, CountedStep
<1>3. Typed /\ Counted => OneWorkerEach
    <2> SUFFICES ASSUME Typed, Counted, NEW x \in Reports
                 PROVE  Cardinality(Takers(x)) <= 1 + stalled[x]
        BY DEF OneWorkerEach, Takers
    <2>1. /\ Cardinality(Takers(x)) \in Nat /\ stalled[x] \in Nat /\ Room(x) \in Nat
          /\ Cardinality(Takers(x)) + Room(x) <= 1 + stalled[x]
        BY FS_CardinalityType, ReportsAssumption DEF Counted, Typed, TypeOK, Room
    <2> QED
        BY <2>1
<1> QED
    BY <1>1, <1>2, <1>3, PTL DEF Spec
------------------------------------------------------------------------------
(* Removals take the PDF along. *)

(* A removal that began when the job was settled finds it settled to its     *)
(* end: nothing sets the row's fileUrl or uploads the PDF again.            *)
Swept ==
    /\ \A x \in Reports \ early :
          status[x] = "removed" => Settled(x) /\ ~(fileUrl[x] /\ object[x])
    /\ \A p \in Procs : removal[p].next # "idle" /\ removal[p].report \notin early =>
          /\ Settled(removal[p].report)
          /\ removal[p].next # "object" => ~(fileUrl[removal[p].report] /\ object[removal[p].report])

LEMMA SweptInit == Init => Swept
BY DEF Init, Swept, Free

LEMMA SweptStep == Typed /\ Matched /\ Swept /\ [Next]_vars => Swept'
<1> SUFFICES ASSUME Typed /\ Matched /\ Swept, [Next]_vars PROVE Swept'
    OBVIOUS
<1> USE DEF Typed, TypeOK, Placed, Matched, Swept, Settled, Working, Steps, Free, At, Goto, HasRow, db, queue, history
<1>1. ASSUME NEW p \in Procs, NEW x \in Reports, CreateReport(p, x) PROVE Swept'
    BY <1>1 DEF CreateReport
<1>2. ASSUME NEW p \in Procs, NEW x \in Reports, TakeJob(p, x) PROVE Swept'
    BY <1>2 DEF TakeJob
<1>3. ASSUME NEW p \in Procs, NEW x \in Reports, FindReport(p, x) PROVE Swept'
    BY <1>3 DEF FindReport
<1>4. ASSUME NEW p \in Procs, ReadData(p) PROVE Swept'
    <2>1. PICK c \in {"upload", "mark"} : Goto(p, c)
        BY <1>4 DEF ReadData
    <2> QED
        BY <1>4, <2>1 DEF ReadData
<1>5. ASSUME NEW p \in Procs, UploadPdf(p) PROVE Swept'
    <2>1. PICK c \in {"complete", "mark"} : Goto(p, c)
        BY <1>5 DEF UploadPdf
    <2>2. \A x \in Reports : Settled(x)' <=> Settled(x)
        BY <1>5, <2>1 DEF UploadPdf
    <2>3. \A x \in Reports : Settled(x) => object'[x] = object[x]
        BY <1>5 DEF UploadPdf
    <2> HIDE DEF Settled, Working
    <2> QED
        BY <1>5, <2>2, <2>3 DEF UploadPdf
<1>6. ASSUME NEW p \in Procs, CompleteReport(p) PROVE Swept'
    <2>1. PICK c \in {"completed", "mark"} : Goto(p, c)
        BY <1>6 DEF CompleteReport
    <2>2. \A x \in Reports : Settled(x)' <=> Settled(x)
        BY <1>6, <2>1 DEF CompleteReport
    <2>3. \A x \in Reports : /\ Settled(x) => fileUrl'[x] = fileUrl[x]
                             /\ status'[x] = "removed" => status[x] = "removed"
        BY <1>6 DEF CompleteReport
    <2> HIDE DEF Settled, Working, HasRow
    <2> QED
        BY <1>6, <2>2, <2>3 DEF CompleteReport
<1>7. ASSUME NEW p \in Procs, MarkFailed(p) PROVE Swept'
    BY <1>7 DEF MarkFailed
<1>8. ASSUME NEW p \in Procs, SettleJob(p) PROVE Swept'
    <2>1. run' = [run EXCEPT ![p] = Free]
        BY <1>8 DEF SettleJob
    <2>2. \A x \in Reports : Settled(x) => Settled(x)'
        BY <1>8, <2>1, ReportsAssumption DEF SettleJob
    <2> QED
        BY <1>8, <2>2 DEF SettleJob
<1>9. ASSUME NEW p \in Procs, DeleteObject(p) PROVE Swept'
    BY <1>9 DEF DeleteObject
<1>10. ASSUME NEW p \in Procs, DeleteRow(p) PROVE Swept'
    BY <1>10 DEF DeleteRow
<1>11. ASSUME NEW p \in Procs, Crash(p) PROVE Swept'
    <2>1. run' = [run EXCEPT ![p] = Free]
        BY <1>11 DEF Crash
    <2>2. \A x \in Reports : Settled(x) => Settled(x)'
        BY <1>11, <2>1, ReportsAssumption DEF Crash
    <2>3. /\ UNCHANGED <<status, fileUrl, object, early>>
          /\ removal' = [removal EXCEPT ![p] = Free]
        BY <1>11 DEF Crash
    <2> HIDE DEF Settled, Working
    <2> QED
        BY <2>2, <2>3
<1>12. ASSUME NEW x \in Reports, Enqueue(x) PROVE Swept'
    BY <1>12 DEF Enqueue
<1>13. ASSUME NEW x \in Reports, TakeBack(x) PROVE Swept'
    BY <1>13 DEF TakeBack
<1>14. CASE DeleteProject
    BY <1>14 DEF DeleteProject
<1>15. CASE UNCHANGED vars
    BY <1>15 DEF vars
<1> QED
    BY <1>1, <1>2, <1>3, <1>4, <1>5, <1>6, <1>7, <1>8, <1>9, <1>10, <1>11, <1>12, <1>13, <1>14, <1>15
       DEF Next, WorkerStep, RemovalStep

(* OrphansAreEarly in every reachable state: a removed report leaves its PDF *)
(* behind only if it went with its project or was removed while its job was *)
(* unsettled.                                                               *)
THEOREM OrphansHold == Spec => []OrphansAreEarly
<1>1. Init => Typed /\ Matched /\ Swept
    BY TypedInit, MatchedInit, SweptInit
<1>2. Typed /\ Matched /\ Swept /\ [Next]_vars => Typed' /\ Matched' /\ Swept'
    BY TypedStep, MatchedStep, SweptStep
<1>3. Swept => OrphansAreEarly
    BY DEF Swept, OrphansAreEarly
<1> QED
    BY <1>1, <1>2, <1>3, PTL DEF Spec

------------------------------------------------------------------------------
(* The lifecycle a user is promised. *)

(* A report whose request was cut off never has a job, and one without a    *)
(* job is not settled; a settled one says how.                              *)
Told == /\ \A x \in cut : job[x] = "none" /\ request[x] = NoOne /\ status[x] # "none"
        /\ \A x \in Reports :
              /\ job[x] = "none" => status[x] \notin {"completed", "failed"}
              /\ status[x] = "completed" => fileUrl[x]
              /\ status[x] = "failed" => error[x]

LEMMA ToldInit == Init => Told
BY DEF Init, Told

LEMMA ToldStep == Typed /\ Matched /\ Told /\ [Next]_vars => Told'
<1> SUFFICES ASSUME Typed /\ Matched /\ Told, [Next]_vars PROVE Told'
    OBVIOUS
<1> USE DEF Typed, TypeOK, Placed, Matched, Told, Steps, Free, At, HasRow, db, queue, history
<1>1. ASSUME NEW p \in Procs, NEW x \in Reports, CreateReport(p, x) PROVE Told'
    BY <1>1, ReportsAssumption DEF CreateReport
<1>2. ASSUME NEW p \in Procs, NEW x \in Reports, TakeJob(p, x) PROVE Told'
    BY <1>2 DEF TakeJob
<1>3. ASSUME NEW p \in Procs, NEW x \in Reports, FindReport(p, x) PROVE Told'
    BY <1>3 DEF FindReport
<1>4. ASSUME NEW p \in Procs, ReadData(p) PROVE Told'
    BY <1>4 DEF ReadData
<1>5. ASSUME NEW p \in Procs, UploadPdf(p) PROVE Told'
    BY <1>5 DEF UploadPdf
<1>6. ASSUME NEW p \in Procs, CompleteReport(p) PROVE Told'
    BY <1>6 DEF CompleteReport
<1>7. ASSUME NEW p \in Procs, MarkFailed(p) PROVE Told'
    BY <1>7 DEF MarkFailed
<1>8. ASSUME NEW p \in Procs, SettleJob(p) PROVE Told'
    BY <1>8 DEF SettleJob
<1>9. ASSUME NEW p \in Procs, DeleteObject(p) PROVE Told'
    BY <1>9 DEF DeleteObject
<1>10. ASSUME NEW p \in Procs, DeleteRow(p) PROVE Told'
    BY <1>10 DEF DeleteRow
<1>11. ASSUME NEW p \in Procs, Crash(p) PROVE Told'
    BY <1>11, ReportsAssumption DEF Crash
<1>12. ASSUME NEW x \in Reports, Enqueue(x) PROVE Told'
    BY <1>12 DEF Enqueue
<1>13. ASSUME NEW x \in Reports, TakeBack(x) PROVE Told'
    BY <1>13 DEF TakeBack
<1>14. CASE DeleteProject
    BY <1>14 DEF DeleteProject
<1>15. CASE UNCHANGED vars
    BY <1>15 DEF vars
<1> QED
    BY <1>1, <1>2, <1>3, <1>4, <1>5, <1>6, <1>7, <1>8, <1>9, <1>10, <1>11, <1>12, <1>13, <1>14, <1>15
       DEF Next, WorkerStep, RemovalStep

(* What is stranded stays so. *)
LEMMA StrandedKept ==
    ASSUME Typed, Matched, Told, [Next]_vars
    PROVE  Stranded \subseteq Stranded'
<1> SUFFICES ASSUME NEW x \in Stranded PROVE x \in Stranded'
    OBVIOUS
<1> USE DEF Typed, TypeOK, Placed, Matched, Steps, Working, db, queue, history
<1>0. CASE x \in cut
    <2>1. cut \subseteq cut'
        BY DEF Next, WorkerStep, RemovalStep, CreateReport, Enqueue, TakeJob, ReadData, UploadPdf,
               CompleteReport, MarkFailed, SettleJob, TakeBack, FindReport, DeleteObject, DeleteRow,
               DeleteProject, Crash, vars
    <2> QED
        BY <1>0, <2>1 DEF Stranded
<1> SUFFICES ASSUME x \in Reports, job[x] = "failed", ~Working(x), ~error[x], ~fileUrl[x]
             PROVE  job'[x] = "failed" /\ ~Working(x)' /\ ~error'[x] /\ ~fileUrl'[x]
    BY <1>0 DEF Stranded
<1>a. ASSUME UNCHANGED <<job, fileUrl, error, run>>
      PROVE  job'[x] = "failed" /\ ~Working(x)' /\ ~error'[x] /\ ~fileUrl'[x]
    BY <1>a
<1>b. ASSUME NEW p \in Procs, run[p].next # "idle", NEW c, Goto(p, c), UNCHANGED job,
             \A y \in Reports \ {run[p].report} : error'[y] = error[y] /\ fileUrl'[y] = fileUrl[y]
      PROVE  job'[x] = "failed" /\ ~Working(x)' /\ ~error'[x] /\ ~fileUrl'[x]
    <2>1. \A q \in Procs : run'[q].report = run[q].report
        BY <1>b DEF Goto
    <2> QED
        BY <1>b, <2>1
<1>c. ASSUME NEW p \in Procs, run' = [run EXCEPT ![p] = Free], job'[x] = job[x], UNCHANGED <<error, fileUrl>>
      PROVE  job'[x] = "failed" /\ ~Working(x)' /\ ~error'[x] /\ ~fileUrl'[x]
    BY <1>c, ReportsAssumption DEF Free
<1> DEFINE Goal == job'[x] = "failed" /\ ~Working(x)' /\ ~error'[x] /\ ~fileUrl'[x]
<1>1. ASSUME NEW p \in Procs, NEW y \in Reports, CreateReport(p, y) PROVE Goal
    BY <1>1, <1>a DEF CreateReport
<1>2. ASSUME NEW p \in Procs, NEW y \in Reports, TakeJob(p, y) PROVE Goal
    <2>1. y # x /\ job'[x] = job[x] /\ \A q \in Procs : run'[q] \in {run[q], At(y, "read")}
        BY <1>2 DEF TakeJob
    <2> QED
        BY <1>2, <2>1 DEF TakeJob, At
<1>3. ASSUME NEW p \in Procs, NEW y \in Reports, FindReport(p, y) PROVE Goal
    BY <1>3, <1>a DEF FindReport
<1>4. ASSUME NEW p \in Procs, ReadData(p) \/ UploadPdf(p) PROVE Goal
    BY <1>4, <1>b DEF ReadData, UploadPdf
<1>5. ASSUME NEW p \in Procs, CompleteReport(p) \/ MarkFailed(p) PROVE Goal
    <2>1. /\ \A y \in Reports \ {run[p].report} : error'[y] = error[y] /\ fileUrl'[y] = fileUrl[y]
          /\ UNCHANGED job /\ run[p].next # "idle"
        BY <1>5 DEF CompleteReport, MarkFailed
    <2>2. PICK c \in {"completed", "mark", "failed"} : Goto(p, c)
        BY <1>5 DEF CompleteReport, MarkFailed
    <2> QED
        BY <2>1, <2>2, <1>b
<1>6. ASSUME NEW p \in Procs, SettleJob(p) PROVE Goal
    <2>1. run[p].report # x \/ run[p].next = "idle"
        BY <1>6
    <2>2. job'[x] = job[x]
        BY <1>6, <2>1 DEF SettleJob
    <2> QED
        BY <1>6, <2>2, <1>c DEF SettleJob
<1>7. ASSUME NEW p \in Procs, DeleteObject(p) \/ DeleteRow(p) PROVE Goal
    BY <1>7, <1>a DEF DeleteObject, DeleteRow
<1>8. ASSUME NEW p \in Procs, Crash(p) PROVE Goal
    BY <1>8, <1>c DEF Crash
<1>9. ASSUME NEW y \in Reports, Enqueue(y) PROVE Goal
    <2>1. y # x
        BY <1>9 DEF Enqueue
    <2> QED
        BY <1>9, <2>1 DEF Enqueue
<1>10. ASSUME NEW y \in Reports, TakeBack(y) PROVE Goal
    BY <1>10 DEF TakeBack
<1>11. CASE DeleteProject \/ UNCHANGED vars
    BY <1>11, <1>a DEF DeleteProject, vars
<1> QED
    BY <1>1, <1>2, <1>3, <1>4, <1>5, <1>6, <1>7, <1>8, <1>9, <1>10, <1>11
       DEF Next, WorkerStep, RemovalStep

(* A step that leaves the jobs, the cut requests and who works on what as   *)
(* they are strands no report.                                              *)
LEMMA NoneStranded ==
    ASSUME Typed, Matched, Told, [Next]_vars, UNCHANGED <<job, cut>>,
           \A p \in Procs : run'[p].report = run[p].report,
           \A x \in Reports : (error[x] => error'[x]) /\ (fileUrl[x] => fileUrl'[x])
    PROVE  Stranded' = Stranded
<1>1. \A x \in Reports : Working(x)' <=> Working(x)
    BY DEF Working
<1>2. Stranded' \subseteq Stranded
    <2> HIDE DEF Working
    <2> QED BY <1>1 DEF Stranded
<1> QED
    BY <1>2, StrandedKept

(* Every step is one of the lifecycle; a report that is newly stranded is   *)
(* pending or removed, and one that settles again has been reopened.        *)
LEMMA LifecycleStep ==
    ASSUME Typed, Matched, Told, Once, Typed', Matched', Told', [Next]_vars
    PROVE  [L!LifecycleNext]_(L!lifecycle)
<1>1. CASE UNCHANGED <<status, Reopened>>
    <2> DEFINE xs == Stranded' \ Stranded
    <2>0. Stranded' \subseteq Reports /\ \A x \in Stranded' : status'[x] \in {"pending", "removed"}
        BY DEF Typed, TypeOK, Matched, Told, Stranded
    <2>1. xs \in SUBSET Reports /\ Stranded' = Stranded \cup xs
        BY <2>0, StrandedKept
    <2>2. \A x \in xs : status[x] \in {"pending", "removed"}
        BY <1>1, <2>0
    <2>3. L!Strand(xs)
        <3> HIDE DEF xs
        <3> QED BY <1>1, <2>1, <2>2 DEF L!Strand
    <2> QED
        BY <2>1, <2>3 DEF L!LifecycleNext
<1>2. ASSUME NEW p \in Procs, NEW x \in Reports, CreateReport(p, x)
      PROVE  L!Request(x)
    <2>1. Stranded' = Stranded
        BY <1>2, NoneStranded DEF CreateReport, queue, history
    <2> QED
        BY <1>2, <2>1 DEF CreateReport, L!Request, L!Become, Reopened, queue, history
<1>3. ASSUME NEW p \in Procs, CompleteReport(p) \/ MarkFailed(p), ~UNCHANGED <<status, Reopened>>
      PROVE  L!Settle(run[p].report) \/ L!SettleAnew(run[p].report)
    <2> DEFINE x == run[p].report
    <2>1. /\ run[p].next \in {"complete", "mark"} /\ HasRow(x) /\ UNCHANGED <<job, stalled, cut>>
          /\ \/ status' = [status EXCEPT ![x] = "completed"] /\ unheard' \in {unheard, unheard \cup {x}}
             \/ status' = [status EXCEPT ![x] = "failed"] /\ UNCHANGED unheard
        BY <1>3 DEF CompleteReport, MarkFailed, Reopened, queue, history
    <2>2. x \in Reports /\ Working(x) /\ job[x] # "none"
        BY <2>1 DEF Working, Typed, Placed, Matched
    <2>3. \A q \in Procs : run'[q].report = run[q].report
        BY <1>3 DEF CompleteReport, MarkFailed, Goto, Typed, TypeOK, Steps
    <2>4. \A y \in Reports : (error[y] => error'[y]) /\ (fileUrl[y] => fileUrl'[y])
        BY <1>3 DEF CompleteReport, MarkFailed, Typed, TypeOK
    <2>5. Stranded' = Stranded
        BY <2>1, <2>3, <2>4, NoneStranded
    <2>6. x \notin Stranded
        BY <2>2 DEF Stranded, Told
    <2>7. (\E s \in L!Outcomes : L!Become(x, s)) \/ L!CompleteUnheard(x)
        <3>1. CASE UNCHANGED unheard
            <4>1. Reopened' = Reopened
                BY <2>1, <3>1 DEF Reopened
            <4> QED
                BY <2>1, <2>5, <4>1 DEF L!Outcomes, L!Become
        <3>2. CASE ~UNCHANGED unheard
            <4>1. Reopened' = Reopened \cup {x} /\ status' = [status EXCEPT ![x] = "completed"]
                BY <2>1, <3>2 DEF Reopened
            <4> QED
                BY <2>5, <4>1 DEF L!CompleteUnheard
        <3> QED
            BY <3>1, <3>2
    <2>8. CASE status[x] = "pending"
        BY <2>6, <2>7, <2>8 DEF L!Settle
    <2>9. CASE status[x] \in {"completed", "failed"}
        <3>1. x \in Reopened
            BY <2>1, <2>2, <2>9 DEF Once, Typed, TypeOK
        <3>2. Reopened' = Reopened
            BY <2>1, <3>1 DEF Reopened
        <3>3. \E s \in L!Outcomes : L!Become(x, s)
            BY <2>1, <2>5, <3>2 DEF L!Outcomes, L!Become
        <3> QED
            BY <2>9, <3>1, <3>3 DEF L!SettleAnew, L!Outcomes
    <2> QED
        BY <2>1, <2>8, <2>9 DEF HasRow
<1>4. ASSUME NEW x \in Reports, TakeBack(x), ~UNCHANGED stalled
      PROVE  L!Reopen(x)
    <2>1. /\ stalled' = [stalled EXCEPT ![x] = @ + 1] /\ job[x] = "active"
          /\ job' = [job EXCEPT ![x] = "waiting"]
          /\ UNCHANGED <<status, error, fileUrl, run, cut, unheard>>
        BY <1>4 DEF TakeBack, db, history
    <2>2. x \notin Stranded /\ status[x] # "none"
        BY <2>1 DEF Stranded, Told, Matched
    <2>3. Stranded' = Stranded
        BY <2>1 DEF Stranded, Working, Typed, TypeOK
    <2>4. {y \in Reports : stalled[y] > 0}' = {y \in Reports : stalled[y] > 0} \cup {x}
        BY <2>1, ReportsAssumption DEF Typed, TypeOK
    <2>5. Reopened' = Reopened \cup {x}
        BY <2>1, <2>4 DEF Reopened
    <2> QED
        BY <2>1, <2>2, <2>3, <2>5 DEF L!Reopen
<1>5. ASSUME NEW p \in Procs, DeleteRow(p), ~UNCHANGED status
      PROVE  \E xs \in SUBSET Reports : L!Remove(xs)
    <2> DEFINE x == removal[p].report
    <2>1. /\ x \in Reports /\ HasRow(x) /\ status' = [status EXCEPT ![x] = "removed"]
          /\ UNCHANGED <<stalled, unheard>>
        BY <1>5 DEF DeleteRow, queue, history, Typed, Placed
    <2>2. Stranded' = Stranded
        BY <1>5, NoneStranded DEF DeleteRow, queue, history
    <2>3. status' = [y \in Reports |-> IF y \in {x} THEN "removed" ELSE status[y]]
        BY <2>1 DEF Typed, TypeOK
    <2>4. L!Remove({x})
        BY <2>1, <2>2, <2>3 DEF L!Remove, L!Outcomes, HasRow, Reopened
    <2> QED
        BY <2>1, <2>4
<1>6. ASSUME DeleteProject, ~UNCHANGED status
      PROVE  \E xs \in SUBSET Reports : L!Remove(xs)
    <2> DEFINE xs == {x \in Reports : HasRow(x)}
    <2>1. /\ status' = [x \in Reports |-> IF x \in xs THEN "removed" ELSE status[x]]
          /\ UNCHANGED <<stalled, unheard>>
        BY <1>6 DEF DeleteProject, queue
    <2>2. Stranded' = Stranded
        BY <1>6, NoneStranded DEF DeleteProject, queue, history
    <2>3. xs # {}
        BY <1>6, <2>1 DEF Typed, TypeOK
    <2>4. L!Remove(xs)
        BY <2>1, <2>2, <2>3 DEF L!Remove, L!Outcomes, HasRow, Reopened
    <2> QED
        BY <2>4
<1>7. \/ UNCHANGED <<status, Reopened>>
      \/ \E p \in Procs, x \in Reports : CreateReport(p, x)
      \/ \E p \in Procs : (CompleteReport(p) \/ MarkFailed(p)) /\ ~UNCHANGED <<status, Reopened>>
      \/ \E x \in Reports : TakeBack(x) /\ ~UNCHANGED stalled
      \/ \E p \in Procs : DeleteRow(p) /\ ~UNCHANGED status
      \/ DeleteProject /\ ~UNCHANGED status
    BY DEF Next, WorkerStep, RemovalStep, CreateReport, Enqueue, TakeJob, ReadData, UploadPdf,
           CompleteReport, MarkFailed, SettleJob, TakeBack, FindReport, DeleteObject, DeleteRow,
           DeleteProject, Crash, Reopened, vars, db, queue, history
<1>8. ASSUME NEW p \in Procs, CompleteReport(p) \/ MarkFailed(p) PROVE run[p].report \in Reports
    BY <1>8 DEF CompleteReport, MarkFailed, Typed, Placed
<1> QED
    BY <1>1, <1>2, <1>3, <1>4, <1>5, <1>6, <1>7, <1>8 DEF L!LifecycleNext

(* The handlers implement the lifecycle a user is promised, but for its     *)
(* fairness.                                                                *)
THEOREM LifecycleRefinement == Spec => L!LifecycleInit /\ [][L!LifecycleNext]_(L!lifecycle)
<1>1. Init => L!LifecycleInit
    BY ReportsAssumption DEF Init, L!LifecycleInit, Stranded, Reopened
<1>2. Init => Typed /\ Matched /\ Once /\ Told
    BY TypedInit, MatchedInit, OnceInit, ToldInit
<1>3. Typed /\ Matched /\ Once /\ Told /\ [Next]_vars => Typed' /\ Matched' /\ Once' /\ Told'
    BY TypedStep, MatchedStep, OnceStep, ToldStep
<1>4. Typed /\ Matched /\ Once /\ Told /\ Typed' /\ Matched' /\ Told' /\ [Next]_vars
      => [L!LifecycleNext]_(L!lifecycle)
    BY LifecycleStep
<1> QED
    BY <1>1, <1>2, <1>3, <1>4, PTL DEF Spec

------------------------------------------------------------------------------
(* The deadline check: type correctness. *)

TaskRow == [state : {"open", "done"}, due : Days \cup {NoDate}, reminded : BOOLEAN]
Mail == [task : Tasks, due : Days]
Doing == [next : {"idle", "find", "mail", "mark"}, found : SUBSET Mail,
          task : Tasks \cup {NoTask}, second : BOOLEAN]

TaskTypes == /\ day \in Days
             /\ tasks \in [Tasks -> TaskRow \cup {NoRow, Gone}]
             /\ since \in [Tasks -> Days] /\ checked \subseteq 0 .. day
             /\ carried \subseteq Tasks

(* A worker holds tasks from its query on, and marks one of those.  *)
Formed(c) == /\ c.next \in {"idle", "find"} => c.found = {}
             /\ c.next = "mark" => \E m \in c.found : m.task = c.task

RunTypes == /\ fresh \in Nat /\ again \in Nat
            /\ checking \in [Workers -> Doing]
            /\ \A w \in Workers : Formed(checking[w])
            /\ mailed \subseteq Mail
            /\ exposed \subseteq Tasks /\ twice \subseteq Tasks

MailTyped == TaskTypes /\ RunTypes

Edited(t, row) ==
    /\ row \in TaskRow \cup {Gone} /\ UserEdits(t, row)
    /\ tasks[t] # Gone
    /\ row.reminded => tasks[t].reminded
    /\ tasks[t].reminded => row.reminded \/ row = Gone

LEMMA UserStepEdits ==
    ASSUME TaskTypes, UserStep
    PROVE  \E t \in Tasks : \E row : Edited(t, row)
<1>1. /\ tasks \in [Tasks -> TaskRow \cup {NoRow, Gone}]
      /\ NoRow.state = "none" /\ Gone.state = "gone" /\ ~NoRow.reminded /\ ~Gone.reminded
      /\ NoRow # Gone
  BY DEF TaskTypes, NoRow, Gone
<1>2. ASSUME NEW t \in Tasks, NEW due \in Days \cup {NoDate}, CreateTask(t, due)
      PROVE  \E row : Edited(t, row)
  <2> DEFINE row == [state |-> "open", due |-> due, reminded |-> FALSE]
  <2>1. row \in TaskRow /\ ~row.reminded
    BY DEF TaskRow
  <2>2. tasks[t] = NoRow /\ UserEdits(t, row)
    BY <1>2 DEF CreateTask
  <2> HIDE DEF row
  <2> QED BY <1>1, <2>1, <2>2 DEF Edited
<1>3. ASSUME NEW t \in Tasks, NEW due \in Days \cup {NoDate}, NEW state \in {"open", "done"},
             UpdateTask(t, due, state)
      PROVE  \E row : Edited(t, row)
  <2> DEFINE row == [tasks[t] EXCEPT !.state = state, !.due = IF due = NoDate THEN @ ELSE due]
  <2>1. tasks[t] \in TaskRow
    BY <1>1, <1>3 DEF UpdateTask, HasTask
  <2>2. row \in TaskRow /\ row.reminded = tasks[t].reminded /\ tasks[t] # Gone
    BY <1>1, <2>1 DEF TaskRow
  <2>3. UserEdits(t, row)
    BY <1>3 DEF UpdateTask
  <2> HIDE DEF row
  <2> QED BY <2>2, <2>3 DEF Edited
<1>4. ASSUME NEW t \in Tasks, RemoveTask(t)
      PROVE  \E row : Edited(t, row)
  <2>1. Edited(t, Gone)
    BY <1>1, <1>4 DEF RemoveTask, HasTask, Edited
  <2> QED BY <2>1
<1> QED BY <1>2, <1>3, <1>4 DEF UserStep

LEMMA EditTypes ==
    ASSUME TaskTypes, NEW t \in Tasks, NEW row, Edited(t, row)
    PROVE  TaskTypes'
<1>1. tasks' = [tasks EXCEPT ![t] = row] /\ since' = [since EXCEPT ![t] = day]
  BY DEF Edited, UserEdits
<1>2. carried' \in {carried, carried \cup {t}} /\ UNCHANGED <<day, checked>>
  BY DEF Edited, UserEdits
<1> QED BY <1>1, <1>2 DEF TaskTypes, Edited

(* What the steps of a worker make of its record. *)
LEMMA MarkTypes ==
    ASSUME MailTyped, NEW w \in Workers, Mark(w)
    PROVE  /\ checking[w].task \in Tasks /\ tasks[checking[w].task] \in TaskRow
           /\ tasks'[checking[w].task] \in TaskRow
           /\ tasks'[checking[w].task].reminded
           /\ tasks'[checking[w].task].state = tasks[checking[w].task].state
           /\ tasks'[checking[w].task].due = tasks[checking[w].task].due
           /\ \A t \in Tasks \ {checking[w].task} : tasks'[t] = tasks[t]
           /\ tasks' \in [Tasks -> TaskRow \cup {NoRow, Gone}]
<1> DEFINE x == checking[w].task
           row == [tasks[x] EXCEPT !.reminded = TRUE]
<1>1. checking[w] \in Doing /\ Formed(checking[w]) /\ checking[w].next = "mark" /\ HasTask(x)
  BY DEF MailTyped, RunTypes, Mark
<1>2. \E m \in checking[w].found : m.task = x /\ m \in Mail
  BY <1>1 DEF Formed, Doing
<1>3. x \in Tasks
  BY <1>2 DEF Mail
<1>4. tasks[x] \in TaskRow /\ tasks \in [Tasks -> TaskRow \cup {NoRow, Gone}]
  <2>1. NoRow.state = "none" /\ Gone.state = "gone"
    BY DEF NoRow, Gone
  <2>2. tasks \in [Tasks -> TaskRow \cup {NoRow, Gone}]
    BY DEF MailTyped, TaskTypes
  <2> QED BY <1>1, <1>3, <2>1, <2>2 DEF HasTask
<1>5. row \in TaskRow /\ row.reminded /\ row.state = tasks[x].state /\ row.due = tasks[x].due
  BY <1>4 DEF TaskRow
<1>6. tasks' = [tasks EXCEPT ![x] = row]
  BY DEF Mark
<1> HIDE DEF x, row
<1>7. /\ tasks'[x] = row /\ \A t \in Tasks \ {x} : tasks'[t] = tasks[t]
      /\ tasks' \in [Tasks -> TaskRow \cup {NoRow, Gone}]
  BY <1>3, <1>4, <1>5, <1>6
<1> QED BY <1>3, <1>4, <1>5, <1>7 DEF x

LEMMA TaskTypesStep == MailTyped /\ [RemindersNext]_remindersVars => TaskTypes'
<1> SUFFICES ASSUME MailTyped, [RemindersNext]_remindersVars PROVE TaskTypes'
  OBVIOUS
<1>0. TaskTypes /\ LastDay \in Nat
  BY RemindersAssumption DEF MailTyped
<1>1. CASE UserStep
  BY <1>0, <1>1, UserStepEdits, EditTypes
<1>2. ASSUME NEW n, NextMorning(n)
      PROVE  TaskTypes'
  BY <1>0, <1>2 DEF NextMorning, TaskTypes, Days
<1>3. CASE TriggerCheck \/ UNCHANGED remindersVars
  BY <1>0, <1>3 DEF TriggerCheck, TaskTypes, remindersVars
<1>4. ASSUME NEW w \in Workers, CheckStep(w), UNCHANGED <<day, since, carried>>
      PROVE  TaskTypes'
  <2>1. CASE Mark(w)
    BY <1>0, <1>4, <2>1, MarkTypes DEF Mark, TaskTypes
  <2>2. CASE ~Mark(w)
    <3>1. tasks' = tasks /\ checked' \in {checked, checked \cup {day}}
      BY <1>4, <2>2
      DEF CheckStep, TakeCheck, FindDue, SendMail, EndRun, CheckFails, Stall
    <3> QED BY <1>0, <1>4, <3>1 DEF TaskTypes, Days
  <2> QED BY <2>1, <2>2
<1> QED BY <1>1, <1>2, <1>3, <1>4 DEF RemindersNext, Cron

(* What a step of a worker does to its record, to the rows and to the mails. *)
Finds == {Letter(t, tasks[t].due) : t \in {x \in Tasks : Due(x)}}

Goes(w) ==
    \/ /\ checking[w] = Idle /\ checking'[w].next = "find"
       /\ UNCHANGED <<tasks, mailed, checked>>
    \/ /\ checking[w].next = "find" /\ checking'[w].next = "mail" /\ checking'[w].found = Finds
       /\ UNCHANGED <<tasks, mailed, checked>>
    \/ /\ checking[w].next = "mail" /\ checking'[w].next = "mark" /\ checking'[w].found = checking[w].found
       /\ \E m \in checking[w].found : mailed' = mailed \cup {m} /\ checking'[w].task = m.task
       /\ UNCHANGED <<tasks, checked>>
    \/ /\ Mark(w) /\ checking'[w].next = "mail"
       /\ checking'[w].found = {m \in checking[w].found : m.task # checking[w].task}
       /\ UNCHANGED <<mailed, checked>>
    \/ /\ checking[w].next = "mail" /\ checking[w].found = {} /\ checking'[w] = Idle
       /\ checked' = checked \cup {day} /\ UNCHANGED <<tasks, mailed>>
    \/ checking'[w] = Idle /\ UNCHANGED <<tasks, mailed, checked>>
    \/ /\ checking'[w].next = checking[w].next /\ checking'[w].found = checking[w].found
       /\ checking'[w].task = checking[w].task /\ UNCHANGED <<tasks, mailed, checked>>

LEMMA WorkerGoes ==
    ASSUME MailTyped, NEW w \in Workers, CheckStep(w)
    PROVE  /\ Goes(w) /\ mailed' \subseteq Mail
           /\ checking' \in [Workers -> Doing] /\ Formed(checking'[w])
           /\ \A v \in Workers \ {w} : checking'[v] = checking[v]
           /\ fresh' \in Nat /\ again' \in Nat
<1> DEFINE Goal == /\ Goes(w) /\ mailed' \subseteq Mail
                   /\ checking' \in [Workers -> Doing] /\ Formed(checking'[w])
                   /\ \A v \in Workers \ {w} : checking'[v] = checking[v]
                   /\ fresh' \in Nat /\ again' \in Nat
<1>0. /\ checking \in [Workers -> Doing] /\ checking[w] \in Doing /\ Formed(checking[w])
      /\ mailed \subseteq Mail /\ fresh \in Nat /\ again \in Nat
  BY DEF MailTyped, RunTypes
<1>a. ASSUME NEW c \in Doing, Formed(c), checking' = [checking EXCEPT ![w] = c]
      PROVE  /\ checking' \in [Workers -> Doing] /\ checking'[w] = c
             /\ \A v \in Workers \ {w} : checking'[v] = checking[v]
  BY <1>0, <1>a
<1>i. Idle \in Doing /\ Formed(Idle) /\ Idle.next = "idle" /\ Idle.found = {} /\ Idle.task = NoTask
  BY DEF Idle, Doing, Formed
<1>1. CASE TakeCheck(w)
  <2> DEFINE first == [Idle EXCEPT !.next = "find"]
             second == [Idle EXCEPT !.next = "find", !.second = TRUE]
  <2>1. /\ first \in Doing /\ first.next = "find" /\ first.found = {}
        /\ second \in Doing /\ second.next = "find" /\ second.found = {}
    BY <1>i DEF Doing
  <2>2. checking' = [checking EXCEPT ![w] = first] \/ checking' = [checking EXCEPT ![w] = second]
    BY <1>1 DEF TakeCheck
  <2>3. /\ checking[w] = Idle /\ UNCHANGED <<tasks, mailed, checked>>
        /\ fresh' \in Nat /\ again' \in Nat
    BY <1>0, <1>1 DEF TakeCheck
  <2> HIDE DEF first, second
  <2>4. PICK c \in {first, second} : checking' = [checking EXCEPT ![w] = c]
    BY <2>2
  <2>5. c \in Doing /\ c.next = "find" /\ Formed(c)
    BY <2>1 DEF Formed
  <2>6. checking'[w] = c
    BY <1>a, <2>4, <2>5
  <2> QED BY <1>0, <1>a, <2>3, <2>4, <2>5, <2>6 DEF Goes
<1>2. CASE FindDue(w)
  <2> DEFINE c == [checking[w] EXCEPT !.next = "mail", !.found = Finds]
  <2>1. Finds \subseteq Mail
    <3>1. ASSUME NEW t \in Tasks, Due(t)
          PROVE  tasks[t].due \in Days
      <4>1. tasks[t] \in TaskRow
        <5>1. NoRow.state = "none" /\ Gone.state = "gone"
          BY DEF NoRow, Gone
        <5> QED BY <3>1, <5>1 DEF Due, MailTyped, TaskTypes
      <4> QED BY <3>1, <4>1 DEF Due, InWindow, TaskRow
    <3> QED BY <3>1 DEF Finds, Letter, Mail
  <2>2. checking' = [checking EXCEPT ![w] = c]
    BY <1>0, <1>2 DEF FindDue, Finds, Doing
  <2>3. c.next = "mail" /\ c.found = Finds
    BY <1>0 DEF Doing
  <2>4. c \in Doing /\ Formed(c)
    BY <1>0, <2>1 DEF Doing, Formed
  <2>5. checking[w].next = "find" /\ UNCHANGED <<tasks, mailed, checked, fresh, again>>
    BY <1>2 DEF FindDue
  <2> HIDE DEF c
  <2>6. checking'[w] = c
    BY <1>a, <2>2, <2>4
  <2> QED BY <1>0, <1>a, <2>2, <2>3, <2>4, <2>5, <2>6 DEF Goes
<1>3. CASE SendMail(w)
  <2>1. PICK m \in checking[w].found :
             mailed' = mailed \cup {m} /\ checking' = [checking EXCEPT ![w].next = "mark", ![w].task = m.task]
    BY <1>3 DEF SendMail
  <2> DEFINE c == [checking[w] EXCEPT !.next = "mark", !.task = m.task]
  <2>2. m \in Mail /\ m.task \in Tasks
    BY <1>0 DEF Doing, Mail
  <2>3. checking' = [checking EXCEPT ![w] = c]
    BY <1>0, <2>1 DEF Doing
  <2>4. c \in Doing /\ Formed(c)
    BY <1>0, <2>2 DEF Doing, Formed
  <2>5. c.next = "mark" /\ c.found = checking[w].found /\ c.task = m.task
    BY <1>0 DEF Doing
  <2>6. checking[w].next = "mail" /\ UNCHANGED <<tasks, checked, fresh, again>>
    BY <1>3 DEF SendMail
  <2> HIDE DEF c
  <2>7. checking'[w] = c
    BY <1>a, <2>3, <2>4
  <2> QED BY <1>0, <1>a, <2>1, <2>2, <2>3, <2>4, <2>5, <2>6, <2>7 DEF Goes
<1>4. CASE Mark(w)
  <2> DEFINE rest == {m \in checking[w].found : m.task # checking[w].task}
             c == [checking[w] EXCEPT !.next = "mail", !.task = NoTask, !.found = rest]
  <2>1. checking' = [checking EXCEPT ![w] = c]
    BY <1>0, <1>4 DEF Mark, Doing
  <2>2. c \in Doing /\ Formed(c)
    BY <1>0 DEF Doing, Formed
  <2>3. c.next = "mail" /\ c.found = rest
    BY <1>0 DEF Doing
  <2>4. UNCHANGED <<mailed, checked, fresh, again>>
    BY <1>4 DEF Mark
  <2> HIDE DEF c
  <2>5. checking'[w] = c
    BY <1>a, <2>1, <2>2
  <2> QED BY <1>0, <1>4, <1>a, <2>1, <2>2, <2>3, <2>4, <2>5 DEF Goes
<1>5. CASE EndRun(w)
  <2>1. /\ checking' = [checking EXCEPT ![w] = Idle] /\ checking[w].next = "mail" /\ checking[w].found = {}
        /\ checked' = checked \cup {day} /\ UNCHANGED <<tasks, mailed, fresh, again>>
    BY <1>5 DEF EndRun
  <2>2. checking'[w] = Idle
    BY <1>a, <1>i, <2>1
  <2> QED BY <1>0, <1>a, <1>i, <2>1, <2>2 DEF Goes
<1>6. CASE CheckFails(w) \/ Stall(w, TRUE)
  <2>1. /\ checking' = [checking EXCEPT ![w] = Idle] /\ UNCHANGED <<tasks, mailed, checked>>
        /\ fresh' \in Nat /\ again' \in Nat
    BY <1>0, <1>6 DEF CheckFails, Stall
  <2>2. checking'[w] = Idle
    BY <1>a, <1>i, <2>1
  <2> QED BY <1>0, <1>a, <1>i, <2>1, <2>2 DEF Goes
<1>7. CASE Stall(w, FALSE)
  <2> DEFINE c == [next |-> checking[w].next, found |-> checking[w].found, task |-> checking[w].task,
                   second |-> TRUE]
  <2>1. checking' = [checking EXCEPT ![w] = c]
    BY <1>0, <1>7 DEF Stall, Doing
  <2>2. /\ c \in Doing /\ c.next = checking[w].next /\ c.found = checking[w].found
        /\ c.task = checking[w].task
    BY <1>0 DEF Doing
  <2>3. UNCHANGED <<tasks, mailed, checked>> /\ fresh' \in Nat /\ again' \in Nat
    BY <1>0, <1>7 DEF Stall
  <2> HIDE DEF c
  <2>4. Formed(c)
    BY <1>0, <2>2 DEF Formed
  <2>5. checking'[w] = c
    BY <1>a, <2>1, <2>2, <2>4
  <2> QED BY <1>0, <1>a, <2>1, <2>2, <2>3, <2>4, <2>5 DEF Goes
<1>8. CheckStep(w) <=> \/ TakeCheck(w) \/ FindDue(w) \/ SendMail(w) \/ Mark(w) \/ EndRun(w)
                       \/ CheckFails(w) \/ Stall(w, TRUE) \/ Stall(w, FALSE)
 BY DEF CheckStep
<1> QED BY <1>1, <1>2, <1>3, <1>4, <1>5, <1>6, <1>7, <1>8

LEMMA MailTypedStep == MailTyped /\ [RemindersNext]_remindersVars => MailTyped'
<1> SUFFICES ASSUME MailTyped, [RemindersNext]_remindersVars PROVE RunTypes'
  BY TaskTypesStep DEF MailTyped
<1>0. RunTypes
  BY DEF MailTyped
<1>1. exposed' \subseteq Tasks /\ twice' \subseteq Tasks
  <2>1. CASE RemindersNext
    <3>1. ASSUME NEW v \in Workers, checking[v].next = "mark" PROVE checking[v].task \in Tasks
      BY <1>0, <3>1 DEF RunTypes, Formed, Doing, Mail
    <3> QED BY <1>0, <2>1, <3>1 DEF RemindersNext, Observe, RunTypes
  <2>2. CASE UNCHANGED remindersVars
    BY <1>0, <2>2 DEF remindersVars, RunTypes
  <2> QED BY <2>1, <2>2
<1>2. CASE UserStep
  <2>1. UNCHANGED <<fresh, again, checking, mailed>>
    BY <1>2, UserStepEdits DEF MailTyped, Edited, UserEdits
  <2> QED BY <1>0, <1>1, <2>1 DEF RunTypes
<1>3. ASSUME NEW n \in 0 .. Cardinality(Workers), NextMorning(n)
      PROVE  RunTypes'
  <2>1. UNCHANGED <<again, checking, mailed>> /\ fresh' \in Nat
    BY <1>3 DEF NextMorning
  <2> QED BY <1>0, <1>1, <2>1 DEF RunTypes
<1>4. CASE TriggerCheck \/ UNCHANGED remindersVars
  <2>1. UNCHANGED <<again, checking, mailed>> /\ fresh' \in Nat
    BY <1>0, <1>4 DEF TriggerCheck, remindersVars, RunTypes
  <2> QED BY <1>0, <1>1, <2>1 DEF RunTypes
<1>5. ASSUME NEW w \in Workers, CheckStep(w)
      PROVE  RunTypes'
  BY <1>0, <1>1, <1>5, WorkerGoes DEF RunTypes
<1> QED BY <1>2, <1>3, <1>4, <1>5 DEF RemindersNext, Cron

LEMMA MailTypedInit == RemindersInit => MailTyped
<1> SUFFICES ASSUME RemindersInit PROVE MailTyped
  OBVIOUS
<1>1. 0 \in Days /\ LastDay \in Nat
  BY RemindersAssumption DEF Days
<1>2. TaskTypes
  BY <1>1 DEF RemindersInit, TaskTypes, Days
<1>3. Idle \in Doing /\ Formed(Idle)
  BY DEF Idle, Doing, Formed
<1>4. RunTypes
  BY <1>3 DEF RemindersInit, RunTypes
<1> QED BY <1>2, <1>4 DEF MailTyped

(* Tasks, jobs, workers and mails of the deadline check keep their types;  *)
(* tasks are rows with a date of the calendar or none.                      *)
THEOREM RemindersTyping == RemindersSpec => []RemindersTypeOK
<1>1. MailTyped => RemindersTypeOK
  BY RemindersAssumption DEF MailTyped, TaskTypes, RunTypes, RemindersTypeOK, TaskRow, Mail, Doing, Days
<1> QED BY <1>1, MailTypedInit, MailTypedStep, PTL DEF RemindersSpec

------------------------------------------------------------------------------
(* Mails and marks. *)

(* What a step is, as far as the mails are concerned. *)
LEMMA StepGoes ==
    ASSUME MailTyped, [RemindersNext]_remindersVars
    PROVE  \/ /\ UNCHANGED <<checking, mailed>> /\ checked' = checked
              /\ \/ \E t \in Tasks : \E row : Edited(t, row)
                 \/ /\ UNCHANGED <<tasks, since, carried>> /\ day <= day'
                    /\ day' # day => \A w \in Workers : checking[w] = Idle
           \/ /\ UNCHANGED <<day, since, carried>>
              /\ \E w \in Workers : Goes(w) /\ \A v \in Workers \ {w} : checking'[v] = checking[v]
<1>0. day \in Nat
  BY DEF MailTyped, TaskTypes, Days
<1>1. CASE UserStep
  <2>1. PICK t \in Tasks : \E row : Edited(t, row)
    BY <1>1, UserStepEdits DEF MailTyped
  <2> QED BY <2>1 DEF Edited, UserEdits
<1>2. ASSUME NEW n, NextMorning(n)
      PROVE  /\ UNCHANGED <<checking, mailed, checked, tasks, since, carried>> /\ day <= day'
             /\ \A w \in Workers : checking[w] = Idle
  BY <1>0, <1>2 DEF NextMorning, Resting
<1>3. CASE TriggerCheck \/ UNCHANGED remindersVars
  <2>1. UNCHANGED <<checking, mailed, checked, tasks, since, carried, day>>
    BY <1>3 DEF TriggerCheck, remindersVars
  <2> QED BY <1>0, <2>1
<1>4. CASE \E w \in Workers : CheckStep(w) /\ UNCHANGED <<day, since, carried>>
  BY <1>4, WorkerGoes
<1> QED BY <1>1, <1>2, <1>3, <1>4 DEF RemindersNext, Cron

(* A task that is being marked is held, and one of its mails is out. *)
Posted == \A w \in Workers :
             checking[w].next = "mark" => \E m \in checking[w].found : m.task = checking[w].task /\ m \in mailed

LEMMA IdleFacts == Idle.next = "idle" /\ Idle.found = {}
BY DEF Idle

LEMMA PostedStep == MailTyped /\ Posted /\ [RemindersNext]_remindersVars => Posted'
<1> SUFFICES ASSUME MailTyped, Posted, [RemindersNext]_remindersVars PROVE Posted'
  OBVIOUS
<1>1. CASE UNCHANGED <<checking, mailed>>
  BY <1>1 DEF Posted
<1>2. ASSUME NEW w \in Workers, Goes(w), \A v \in Workers \ {w} : checking'[v] = checking[v]
      PROVE  Posted'
  <2>1. mailed \subseteq mailed'
    BY <1>2 DEF Goes
  <2>2. checking'[w].next = "mark" => \E m \in checking'[w].found : m.task = checking'[w].task /\ m \in mailed'
    BY <1>2, <2>1, IdleFacts DEF Goes, Posted
  <2> QED BY <1>2, <2>1, <2>2 DEF Posted
<1> QED BY <1>1, <1>2, StepGoes

(* remindedAt is set only after a mail has gone out, whatever failed.       *)
THEOREM MarksHold == RemindersSpec => []RemindedWasMailed
<1>1. RemindersInit => Posted /\ RemindedWasMailed
  BY IdleFacts DEF RemindersInit, Posted, RemindedWasMailed, NoRow
<1>2. MailTyped /\ Posted /\ RemindedWasMailed /\ [RemindersNext]_remindersVars => RemindedWasMailed'
  <2> SUFFICES ASSUME MailTyped, Posted, RemindedWasMailed, [RemindersNext]_remindersVars,
                      NEW t \in Tasks, tasks'[t].reminded
               PROVE  \E m \in mailed' : m.task = t
    BY DEF RemindedWasMailed
  <2>1. CASE tasks'[t].reminded => tasks[t].reminded
    <3>1. mailed \subseteq mailed'
      BY StepGoes DEF Goes
    <3> QED BY <2>1, <3>1 DEF RemindedWasMailed
  <2>2. CASE ~tasks[t].reminded
    <3>1. ASSUME NEW x \in Tasks, NEW row, Edited(x, row)
          PROVE  FALSE
      BY <2>2, <3>1 DEF Edited, UserEdits, MailTyped, TaskTypes
    <3>2. PICK w \in Workers : Mark(w)
      BY <2>2, <3>1, StepGoes DEF Goes
    <3>3. checking[w].task = t
      BY <2>2, <3>2, MarkTypes
    <3> QED BY <3>2, <3>3 DEF Mark, Posted
  <2> QED BY <2>1, <2>2
<1> QED BY <1>1, <1>2, MailTypedInit, MailTypedStep, PostedStep, PTL DEF RemindersSpec

------------------------------------------------------------------------------
(* Doubles. *)

Marking(t) == \E w \in Workers : checking[w].next = "mark" /\ checking[w].task = t

(* A task that has been mailed about is marked, gone, about to be marked,   *)
(* or exposed; and so no worker holds a letter that has been sent already,  *)
(* but to mark its task.  What two workers hold is exposed.                 *)
Noted == \A m \in mailed : \/ m.task \in exposed \/ tasks[m.task].reminded
                           \/ tasks[m.task] = Gone \/ Marking(m.task)
Anew == \A w \in Workers : \A m \in checking[w].found :
           \/ m.task \in exposed \/ m \notin mailed
           \/ checking[w].next = "mark" /\ m.task = checking[w].task
Shared == \A v, w \in Workers : v # w => Held(v) \cap Held(w) \subseteq exposed

LEMMA ExposedStep ==
    ASSUME MailTyped, [RemindersNext]_remindersVars, Shared
    PROVE  /\ exposed \subseteq exposed' /\ Shared'
           /\ \A w \in Workers : checking[w].next = "mark" /\ checking'[w] = Idle => checking[w].task \in exposed'
<1>1. CASE RemindersNext
  <2>1. \A v, w \in Workers : \A t \in Tasks : v # w /\ t \in (Held(v) \cap Held(w))' => t \in exposed'
    BY <1>1 DEF RemindersNext, Observe
  <2>2. \A w \in Workers : (Held(w))' \subseteq Tasks
    BY MailTypedStep DEF MailTyped, RunTypes, Held, Doing, Mail
  <2>3. Shared'
    BY <2>1, <2>2 DEF Shared
  <2> QED BY <1>1, <2>3 DEF RemindersNext, Observe
<1>2. CASE UNCHANGED remindersVars
  <2>1. ~(\E w \in Workers : checking[w].next = "mark" /\ checking'[w] = Idle)
    BY <1>2, IdleFacts DEF remindersVars
  <2> QED BY <1>2, <2>1 DEF remindersVars, Shared, Held
<1> QED BY <1>1, <1>2

LEMMA NotedStep ==
    ASSUME MailTyped, [RemindersNext]_remindersVars, Shared, Noted
    PROVE  Noted'
<1> SUFFICES ASSUME NEW m \in mailed'
             PROVE  \/ m.task \in exposed' \/ tasks'[m.task].reminded
                    \/ tasks'[m.task] = Gone \/ Marking(m.task)'
  BY DEF Noted
<1>0. /\ exposed \subseteq exposed' /\ m.task \in Tasks
      /\ tasks \in [Tasks -> TaskRow \cup {NoRow, Gone}]
  BY ExposedStep, MailTypedStep DEF MailTyped, RunTypes, TaskTypes, Mail
<1>1. ASSUME NEW t \in Tasks, NEW row, Edited(t, row), UNCHANGED <<checking, mailed>>
      PROVE  \/ m.task \in exposed' \/ tasks'[m.task].reminded
             \/ tasks'[m.task] = Gone \/ Marking(m.task)'
  <2>1. tasks' = [tasks EXCEPT ![t] = row] /\ checking' = checking
    BY <1>1 DEF Edited, UserEdits
  <2>2. \/ m.task \in exposed' \/ tasks[m.task].reminded
        \/ tasks[m.task] = Gone \/ Marking(m.task)'
    BY <1>0, <1>1, <2>1 DEF Noted, Marking
  <2> QED BY <1>0, <1>1, <2>1, <2>2 DEF Edited
<1>2. CASE UNCHANGED <<checking, mailed, tasks>>
  BY <1>0, <1>2 DEF Noted, Marking
<1>3. ASSUME NEW w \in Workers, Goes(w), \A v \in Workers \ {w} : checking'[v] = checking[v]
      PROVE  \/ m.task \in exposed' \/ tasks'[m.task].reminded
             \/ tasks'[m.task] = Gone \/ Marking(m.task)'
  <2>1. CASE m \notin mailed
    <3>1. checking'[w].next = "mark" /\ checking'[w].task = m.task
      BY <1>3, <2>1 DEF Goes
    <3> QED BY <3>1 DEF Marking
  <2>2. CASE m \in mailed /\ (tasks[m.task].reminded \/ tasks[m.task] = Gone)
    <3>1. Mark(w) => tasks'[m.task].reminded \/ tasks'[m.task] = tasks[m.task]
      BY <1>0, MarkTypes
    <3>2. ~Mark(w) => tasks' = tasks
      BY <1>3 DEF Goes
    <3> QED BY <2>2, <3>1, <3>2
  <2>3. ASSUME NEW v \in Workers, checking[v].next = "mark", checking[v].task = m.task
        PROVE  \/ m.task \in exposed' \/ tasks'[m.task].reminded
               \/ tasks'[m.task] = Gone \/ Marking(m.task)'
    <3>1. CASE checking'[v].next = "mark" /\ checking'[v].task = checking[v].task
      BY <2>3, <3>1 DEF Marking
    <3>2. CASE v = w /\ Mark(w)
      BY <2>3, <3>2, MarkTypes
    <3>3. CASE checking'[v] = Idle
      BY <2>3, <3>3, ExposedStep
    <3> QED BY <1>3, <2>3, <3>1, <3>2, <3>3, IdleFacts DEF Goes
  <2> QED BY <1>0, <2>1, <2>2, <2>3 DEF Noted, Marking
<1> QED BY <1>1, <1>2, <1>3, StepGoes

LEMMA AnewStep ==
    ASSUME MailTyped, [RemindersNext]_remindersVars, Shared, Noted, Anew
    PROVE  Anew'
<1> SUFFICES ASSUME NEW w \in Workers, NEW m \in checking'[w].found,
                    m.task \notin exposed', m \in mailed'
             PROVE  checking'[w].next = "mark" /\ m.task = checking'[w].task
  BY DEF Anew
<1>0. m.task \notin exposed
  BY ExposedStep
<1>1. CASE UNCHANGED <<checking, mailed>>
  BY <1>0, <1>1 DEF Anew
<1>2. ASSUME NEW v \in Workers, Goes(v), \A x \in Workers \ {v} : checking'[x] = checking[x]
      PROVE  checking'[w].next = "mark" /\ m.task = checking'[w].task
  <2>1. CASE w # v
    <3>1. checking'[w] = checking[w]
      BY <1>2, <2>1
    <3>2. CASE m \in mailed
      BY <1>0, <3>1, <3>2 DEF Anew
    <3>3. CASE m \notin mailed
      <4>1. m \in checking'[v].found
        BY <1>2, <3>3 DEF Goes
      <4>2. m.task \in (Held(v) \cap Held(w))'
        BY <4>1 DEF Held
      <4> QED BY <2>1, <4>2, ExposedStep DEF Shared
    <3> QED BY <3>2, <3>3
  <2>2. CASE w = v
    <3>1. CASE m \in checking[w].found
      BY <1>0, <1>2, <2>2, <3>1, IdleFacts DEF Goes, Anew, Mark
    <3>2. CASE m \notin checking[w].found
      <4>1. /\ checking[w].next = "find" /\ checking'[w].next = "mail" /\ m \in Finds /\ mailed' = mailed
        BY <1>2, <2>2, <3>2, MailTypedStep, IdleFacts DEF Goes, MailTyped, RunTypes, Formed
      <4>2. Due(m.task) /\ m.task \in Tasks
        BY <4>1 DEF Finds, Letter
      <4>3. ~tasks[m.task].reminded /\ tasks[m.task] # Gone
        <5>1. Gone.state = "gone"
          BY DEF Gone, NoRow
        <5> QED BY <4>2, <5>1 DEF Due
      <4>4. PICK x \in Workers : checking[x].next = "mark" /\ checking[x].task = m.task
        BY <1>0, <4>1, <4>3 DEF Noted, Marking
      <4>5. x # w /\ checking'[x] = checking[x]
        BY <1>2, <2>2, <4>1, <4>4
      <4>6. m.task \in (Held(x) \cap Held(w))'
        BY <4>4, <4>5 DEF Held, MailTyped, RunTypes, Formed
      <4> QED BY <4>5, <4>6, ExposedStep DEF Shared
    <3> QED BY <3>1, <3>2
  <2> QED BY <2>1, <2>2
<1> QED BY <1>1, <1>2, StepGoes

(* Nobody gets two mails about one date, unless two runs held the task at   *)
(* once, or a run ended between a mail and its mark.                        *)
THEOREM OneMailHolds == RemindersSpec => []MailedOnce
<1>1. RemindersInit => Shared /\ Noted /\ Anew /\ MailedOnce
  BY IdleFacts DEF RemindersInit, Shared, Noted, Anew, MailedOnce, Held
<1>2. MailTyped /\ Shared /\ Anew /\ MailedOnce /\ [RemindersNext]_remindersVars => MailedOnce'
  <2> SUFFICES ASSUME MailTyped, Shared, Anew, MailedOnce, [RemindersNext]_remindersVars,
                      NEW t \in twice', t \notin exposed'
               PROVE  FALSE
    BY DEF MailedOnce
  <2>1. t \notin exposed /\ t \notin twice
    BY ExposedStep DEF MailedOnce
  <2>2. PICK w \in Workers : /\ checking[w].next = "mail" /\ checking'[w].next = "mark"
                             /\ checking'[w].task = t /\ mailed' = mailed
    BY <2>1 DEF RemindersNext, Observe, remindersVars
  <2>3. PICK m \in checking[w].found : m \in mailed' /\ m.task = t
    BY <2>2, StepGoes, IdleFacts DEF Goes, Mark
  <2> QED BY <2>1, <2>2, <2>3 DEF Anew
<1>3. MailTyped /\ Shared /\ [RemindersNext]_remindersVars => Shared'
  BY ExposedStep
<1>4. MailTyped /\ Shared /\ Noted /\ [RemindersNext]_remindersVars => Noted'
  BY NotedStep
<1>5. MailTyped /\ Shared /\ Noted /\ Anew /\ [RemindersNext]_remindersVars => Anew'
  BY AnewStep
<1> QED BY <1>1, <1>2, <1>3, <1>4, <1>5, MailTypedInit, MailTypedStep, PTL DEF RemindersSpec

------------------------------------------------------------------------------
(* Omissions. *)

(* A task that has not been given a date too late is reminded of the date   *)
(* it has, and held with it.                                                *)
DatedRow(t) == tasks[t].reminded => Letter(t, tasks[t].due) \in mailed
DatedIn(t, w) == \A m \in checking[w].found : m.task = t => m.due = tasks[t].due
Dated == \A t \in Tasks \ carried : DatedRow(t) /\ \A w \in Workers : DatedIn(t, w)

(* A run that has made its query misses no task that was due today. *)
Expected(t) == tasks[t].state = "open" /\ since[t] < day /\ InWindow(tasks[t].due, day)
Covered == \A w \in Workers : checking[w].next \in {"mail", "mark"} =>
              \A t \in Tasks \ carried :
                 Expected(t) => Letter(t, tasks[t].due) \in mailed \cup checking[w].found

LEMMA LetterFacts == \A m \in Mail : m = Letter(m.task, m.due)
BY DEF Mail, Letter

(* An edit touches nothing of the other tasks, and carries the task over if *)
(* it moves the date of a task that is held, or has been reminded of.       *)
LEMMA EditGoes ==
    ASSUME TaskTypes, NEW t \in Tasks, NEW row, Edited(t, row)
    PROVE  /\ UNCHANGED <<day, checking, mailed, checked>> /\ carried \subseteq carried'
           /\ tasks'[t] = row /\ since'[t] = day
           /\ \A x \in Tasks \ {t} : tasks'[x] = tasks[x] /\ since'[x] = since[x]
           /\ t \in carried' \/ row.due = tasks[t].due
              \/ (~tasks[t].reminded /\ \A w \in Workers : t \notin Held(w))
BY DEF Edited, UserEdits, TaskTypes

LEMMA DatedStep ==
    ASSUME MailTyped, [RemindersNext]_remindersVars, Posted, Dated
    PROVE  Dated'
<1> SUFFICES ASSUME NEW t \in Tasks, t \notin carried'
             PROVE  DatedRow(t)' /\ \A w \in Workers : DatedIn(t, w)'
  BY DEF Dated
<1>0. /\ TaskTypes /\ mailed \subseteq Mail /\ \A w \in Workers : checking[w].found \subseteq Mail
  BY DEF MailTyped, RunTypes, Doing
<1>1. ASSUME NEW x \in Tasks, NEW row, Edited(x, row)
      PROVE  DatedRow(t)' /\ \A w \in Workers : DatedIn(t, w)'
  <2>1. t \notin carried /\ UNCHANGED <<checking, mailed>>
    BY <1>0, <1>1, EditGoes
  <2>2. DatedRow(t) /\ \A w \in Workers : DatedIn(t, w)
    BY <2>1 DEF Dated
  <2>3. CASE tasks'[t].due = tasks[t].due /\ (tasks'[t].reminded => tasks[t].reminded)
    BY <2>1, <2>2, <2>3 DEF DatedRow, DatedIn
  <2>4. CASE ~tasks'[t].reminded /\ \A w \in Workers : t \notin Held(w)
    BY <2>1, <2>4 DEF DatedRow, DatedIn, Held
  <2> QED BY <1>0, <1>1, <2>3, <2>4, EditGoes DEF Edited
<1>2. CASE UNCHANGED <<checking, mailed, tasks, carried>>
  BY <1>2 DEF Dated, DatedRow, DatedIn
<1>3. ASSUME NEW w \in Workers, Goes(w), \A v \in Workers \ {w} : checking'[v] = checking[v],
             carried' = carried
      PROVE  DatedRow(t)' /\ \A v \in Workers : DatedIn(t, v)'
  <2>1. DatedRow(t) /\ \A v \in Workers : DatedIn(t, v)
    BY <1>3 DEF Dated
  <2>2. mailed \subseteq mailed'
    BY <1>3 DEF Goes
  <2>3. tasks'[t].due = tasks[t].due
    BY <1>3, MarkTypes DEF Goes
  <2>4. DatedRow(t)'
    <3>1. CASE tasks'[t].reminded => tasks[t].reminded
      BY <2>1, <2>2, <2>3, <3>1 DEF DatedRow
    <3>2. CASE Mark(w) /\ checking[w].task = t
      <4>1. PICK m \in checking[w].found : m.task = t /\ m \in mailed
        BY <3>2 DEF Mark, Posted
      <4>2. m = Letter(t, tasks[t].due)
        BY <1>0, <2>1, <4>1, LetterFacts DEF DatedIn
      <4> QED BY <2>2, <2>3, <4>1, <4>2 DEF DatedRow
    <3> QED BY <1>3, <3>1, <3>2, MarkTypes DEF Goes
  <2>5. ASSUME NEW v \in Workers, NEW m \in checking'[v].found, m.task = t
        PROVE  m.due = tasks[t].due
    <3>1. CASE m \in checking[v].found
      BY <2>1, <2>5, <3>1 DEF DatedIn
    <3>2. CASE m \in Finds
      BY <2>5, <3>2 DEF Finds, Letter
    <3> QED BY <1>3, <2>5, <3>1, <3>2, IdleFacts, MailTypedStep DEF Goes, MailTyped, RunTypes, Formed
  <2> QED BY <2>3, <2>4, <2>5 DEF DatedIn
<1> QED BY <1>1, <1>2, <1>3, StepGoes

LEMMA CoveredStep ==
    ASSUME MailTyped, [RemindersNext]_remindersVars, Posted, Dated, Covered
    PROVE  Covered'
<1> SUFFICES ASSUME NEW w \in Workers, checking'[w].next \in {"mail", "mark"},
                    NEW t \in Tasks, t \notin carried', Expected(t)'
             PROVE  Letter(t, tasks'[t].due) \in mailed' \cup checking'[w].found
  BY DEF Covered
<1>0. /\ TaskTypes /\ mailed \subseteq Mail /\ \A v \in Workers : checking[v].found \subseteq Mail
      /\ day \in Nat /\ since[t] \in Nat
  BY DEF MailTyped, TaskTypes, RunTypes, Doing, Days
<1>1. ASSUME NEW x \in Tasks, NEW row, Edited(x, row)
      PROVE  Letter(t, tasks'[t].due) \in mailed' \cup checking'[w].found
  <2>1. x # t
    BY <1>0, <1>1, EditGoes DEF Expected
  <2>2. t \notin carried /\ UNCHANGED <<checking, mailed, day>> /\ tasks'[t] = tasks[t] /\ since'[t] = since[t]
    BY <1>0, <1>1, <2>1, EditGoes
  <2> QED BY <2>2 DEF Covered, Expected
<1>2. ASSUME UNCHANGED <<checking, mailed, tasks, since, carried>>,
             day' # day => \A v \in Workers : checking[v] = Idle
      PROVE  Letter(t, tasks'[t].due) \in mailed' \cup checking'[w].found
  BY <1>2, IdleFacts DEF Covered, Expected
<1>3. ASSUME NEW u \in Workers, Goes(u), \A v \in Workers \ {u} : checking'[v] = checking[v],
             UNCHANGED <<day, since, carried>>
      PROVE  Letter(t, tasks'[t].due) \in mailed' \cup checking'[w].found
  <2>1. mailed \subseteq mailed'
    BY <1>3 DEF Goes
  <2>2. tasks'[t].due = tasks[t].due /\ tasks'[t].state = tasks[t].state
    BY <1>3, MarkTypes DEF Goes
  <2>3. Expected(t) /\ t \notin carried
    BY <1>3, <2>2 DEF Expected
  <2>4. CASE checking[w].next \in {"mail", "mark"}
    <3>1. Letter(t, tasks[t].due) \in mailed \cup checking[w].found
      BY <2>3, <2>4 DEF Covered
    <3>2. CASE w = u /\ Mark(w) /\ checking[w].task = t
      <4>1. PICK m \in checking[w].found : m.task = t /\ m \in mailed
        BY <3>2 DEF Mark, Posted
      <4>2. m = Letter(t, tasks[t].due)
        BY <1>0, <2>3, <4>1, LetterFacts DEF Dated, DatedIn
      <4> QED BY <2>1, <2>2, <4>1, <4>2
    <3>3. CASE ~(w = u /\ Mark(w) /\ checking[w].task = t)
      <4>1. Letter(t, tasks[t].due).task = t
        BY DEF Letter
      <4> QED BY <1>3, <2>1, <2>2, <2>4, <3>1, <3>3, <4>1, IdleFacts DEF Goes
    <3> QED BY <3>2, <3>3
  <2>5. CASE checking[w].next \notin {"mail", "mark"}
    <3>1. u = w /\ checking'[w].found = Finds
      BY <1>3, <2>5, IdleFacts DEF Goes, Mark
    <3>2. CASE tasks[t].reminded
      BY <2>1, <2>2, <2>3, <3>2 DEF Dated, DatedRow
    <3>3. CASE ~tasks[t].reminded
      BY <2>2, <2>3, <3>1, <3>3 DEF Finds, Due, Expected
    <3> QED BY <3>2, <3>3
  <2> QED BY <2>4, <2>5
<1> QED BY <1>1, <1>2, <1>3, StepGoes

(* A run that goes to its end leaves no task out that was due and has not   *)
(* been changed since the day before, unless it got its date when it had a  *)
(* reminder or was held.                                                    *)
THEOREM RemindersHold == RemindersSpec => []NobodyForgotten
<1>1. RemindersInit => Posted /\ Dated /\ Covered /\ NobodyForgotten
  BY IdleFacts
     DEF RemindersInit, Posted, Dated, DatedRow, DatedIn, Covered, NobodyForgotten, Remembered, NoRow
<1>2. MailTyped /\ Dated /\ Covered /\ NobodyForgotten /\ [RemindersNext]_remindersVars => NobodyForgotten'
  <2> SUFFICES ASSUME MailTyped, Dated, Covered, NobodyForgotten, [RemindersNext]_remindersVars,
                      NEW t \in Tasks, t \notin carried', NEW d \in checked',
                      tasks'[t].state = "open", since'[t] < d, InWindow(tasks'[t].due, d)
               PROVE  Letter(t, tasks'[t].due) \in mailed'
    BY DEF NobodyForgotten, Remembered
  <2>0. /\ TaskTypes /\ checked \subseteq 0 .. day /\ day \in Nat
        /\ \A x \in Tasks : since[x] \in Nat
    BY DEF MailTyped, TaskTypes, Days
  <2>1. ASSUME t \notin carried, d \in checked, tasks'[t].due = tasks[t].due,
               tasks'[t].state = tasks[t].state, since'[t] = since[t], mailed \subseteq mailed'
        PROVE  Letter(t, tasks'[t].due) \in mailed'
    BY <2>1 DEF NobodyForgotten, Remembered
  <2>2. ASSUME NEW x \in Tasks, NEW row, Edited(x, row)
        PROVE  Letter(t, tasks'[t].due) \in mailed'
    <3>0. checked' = checked
      BY <2>0, <2>2, EditGoes
    <3>1. d \in checked /\ d \in 0 .. day
      BY <2>0, <3>0
    <3>2. x # t
      BY <2>0, <2>2, <3>1, EditGoes
    <3> QED BY <2>0, <2>1, <2>2, <3>1, <3>2, EditGoes
  <2>3. CASE UNCHANGED <<mailed, tasks, since, carried, checked>>
    BY <2>1, <2>3
  <2>4. ASSUME NEW w \in Workers, Goes(w), UNCHANGED <<day, since, carried>>
        PROVE  Letter(t, tasks'[t].due) \in mailed'
    <3>1. mailed \subseteq mailed'
      BY <2>4 DEF Goes
    <3>2. tasks'[t].due = tasks[t].due /\ tasks'[t].state = tasks[t].state
      BY <2>4, MarkTypes DEF Goes
    <3>3. CASE d \in checked
      BY <2>1, <2>4, <3>1, <3>2, <3>3
    <3>4. CASE d \notin checked
      <4>1. d = day /\ checking[w].next = "mail" /\ checking[w].found = {}
        BY <2>4, <3>4 DEF Goes
      <4>2. Expected(t) /\ t \notin carried
        BY <2>4, <3>2, <4>1 DEF Expected
      <4>3. Letter(t, tasks[t].due) \in mailed
        BY <4>1, <4>2 DEF Covered
      <4> QED BY <3>1, <3>2, <4>3
    <3> QED BY <3>3, <3>4
  <2> QED BY <2>2, <2>3, <2>4, StepGoes
<1>3. MailTyped /\ Posted /\ Dated /\ [RemindersNext]_remindersVars => Dated'
  BY DatedStep
<1>4. MailTyped /\ Posted /\ Dated /\ Covered /\ [RemindersNext]_remindersVars => Covered'
  BY CoveredStep
<1> QED BY <1>1, <1>2, <1>3, <1>4, MailTypedInit, MailTypedStep, PostedStep, PTL DEF RemindersSpec

------------------------------------------------------------------------------
(* The benchmark statistics. *)

(* Records keep their fields. *)
IsRun(c) == c \in [at : {"idle", "upsert", "delete"}, todo : {c.todo}, wrote : BOOLEAN]
IsReader(c) == c \in [at : {"idle", "find", "set"}, rows : {c.rows}, late : BOOLEAN]

Shaped == /\ writer = [r \in Runs |-> writer[r]] /\ \A r \in Runs : IsRun(writer[r])
          /\ reader = [q \in Readers |-> reader[q]] /\ \A q \in Readers : IsReader(reader[q])

(* A recomputation that has ended has written nothing. *)
Quiet == \A r \in Runs : writer[r].at = "idle" => ~writer[r].wrote

(* What a reader holds is what the table publishes, until a bucket is written. *)
Current == \A q \in Readers : reader[q].at = "set" /\ ~reader[q].late => reader[q].rows = Published

Followed == Shaped /\ Quiet /\ Current /\ CacheFollowsTable

LEMMA RunGoes ==
    ASSUME Shaped, NEW r \in Runs, NEW c, IsRun(c), writer' = [writer EXCEPT ![r] = c]
    PROVE  /\ writer' = [x \in Runs |-> writer'[x]] /\ writer'[r] = c
           /\ \A x \in Runs : IsRun(writer'[x]) /\ (x # r => writer'[x] = writer[x])
<1>1. writer'[r] = c /\ \A x \in Runs : x # r => writer'[x] = writer[x]
  BY DEF Shaped
<1> QED BY <1>1 DEF Shaped

LEMMA ReaderGoes ==
    ASSUME Shaped, NEW q \in Readers, NEW c, IsReader(c), reader' = [reader EXCEPT ![q] = c]
    PROVE  /\ reader' = [x \in Readers |-> reader'[x]] /\ reader'[q] = c
           /\ \A x \in Readers : IsReader(reader'[x]) /\ (x # q => reader'[x] = reader[x])
<1>1. reader'[q] = c /\ \A x \in Readers : x # q => reader'[x] = reader[x]
  BY DEF Shaped
<1> QED BY <1>1 DEF Shaped

LEMMA FreeFacts == IsRun(NoRun) /\ NoRun.at = "idle" /\ ~NoRun.wrote /\ IsReader(NoReader) /\ NoReader.at = "idle"
BY DEF IsRun, IsReader, NoRun, NoReader

(* A recomputation takes a step that writes nothing to the table. *)
LEMMA QuietRunStep ==
    ASSUME Followed, NEW r \in Runs, NEW c, IsRun(c), writer' = [writer EXCEPT ![r] = c],
           UNCHANGED <<table, reader>>, c.at = "idle" => ~c.wrote,
           cache' = {} \/ /\ UNCHANGED <<cache, overtaken>>
                          /\ (abandoned \/ (writer[r].wrote /\ ~c.wrote /\ cache # {})) => abandoned'
    PROVE  Followed'
<1>1. Shaped' /\ Quiet'
  BY RunGoes DEF Followed, Shaped, Quiet
<1>2. Published' = Published
  BY DEF Published
<1>3. Current'
  BY <1>2 DEF Followed, Current
<1>4. CacheFollowsTable'
  <2> SUFFICES ASSUME NEW rows \in cache'
               PROVE  rows = Published \/ (\E x \in Runs : writer'[x].wrote) \/ overtaken' \/ abandoned'
    BY <1>2 DEF CacheFollowsTable
  <2>1. /\ rows \in cache /\ overtaken' = overtaken
        /\ (abandoned \/ (writer[r].wrote /\ ~c.wrote)) => abandoned'
    OBVIOUS
  <2>2. CASE \E x \in Runs : writer[x].wrote
    <3>1. PICK x \in Runs : writer[x].wrote
      BY <2>2
    <3> QED BY <2>1, <3>1, RunGoes DEF Followed
  <2> QED BY <2>1, <2>2 DEF Followed, CacheFollowsTable
<1> QED BY <1>1, <1>3, <1>4 DEF Followed

LEMMA ReaderStep ==
    ASSUME Followed, NEW q \in Readers, NEW c, IsReader(c), reader' = [reader EXCEPT ![q] = c],
           UNCHANGED <<table, writer>>, c.at = "set" => c.rows = Published,
           UNCHANGED <<cache, overtaken, abandoned>>
           \/ (cache' = {reader[q].rows} /\ reader[q].at = "set" /\ overtaken' = reader[q].late)
    PROVE  Followed'
<1>1. Shaped' /\ Quiet'
  BY ReaderGoes DEF Followed, Shaped, Quiet
<1>2. Published' = Published
  BY DEF Published
<1>3. Current'
  BY <1>2, ReaderGoes DEF Followed, Current
<1>4. CacheFollowsTable'
  BY <1>2 DEF Followed, CacheFollowsTable, Current
<1> QED BY <1>1, <1>3, <1>4 DEF Followed

LEMMA WriteStep ==
    ASSUME Followed, NEW r \in Runs, NEW key, NEW rows, Write(r, key, rows)
    PROVE  Followed'
<1> DEFINE rest == [k \in DOMAIN writer[r].todo \ {key} |-> writer[r].todo[k]]
           c == [writer[r] EXCEPT !.todo = rest, !.wrote = TRUE]
           d(q) == [reader[q] EXCEPT !.late = reader[q].late \/ reader[q].at = "set"]
<1>1. writer' = [writer EXCEPT ![r] = c] /\ writer[r].at = "upsert"
  <2>1. writer[r] \in [at : {"idle", "upsert", "delete"}, todo : {writer[r].todo}, wrote : BOOLEAN]
    BY DEF Followed, Shaped, IsRun
  <2>2. writer = [x \in Runs |-> writer[x]]
    BY DEF Followed, Shaped
  <2>3. /\ writer' = [writer EXCEPT ![r].todo = rest, ![r].wrote = TRUE] /\ writer[r].at = "upsert"
    BY <2>1, <2>2 DEF Write
  <2> HIDE DEF rest
  <2> QED BY <2>1, <2>2, <2>3
<1>2. reader' = [q \in Readers |-> d(q)]
  BY DEF Write, Overtake
<1>3. IsRun(c) /\ c.at = writer[r].at /\ c.wrote
  <2> HIDE DEF rest
  <2> QED BY DEF Followed, Shaped, IsRun
<1>4. \A q \in Readers : IsReader(d(q)) /\ (d(q).at = "set" => d(q).late)
  BY DEF Followed, Shaped, IsReader
<1> HIDE DEF c, d
<1>5. Shaped' /\ Quiet'
  BY <1>1, <1>2, <1>3, <1>4, RunGoes DEF Followed, Shaped, Quiet
<1>6. Current'
  BY <1>2, <1>4 DEF Current
<1>7. writer'[r].wrote
  BY <1>1, <1>3, RunGoes DEF Followed
<1> QED BY <1>5, <1>6, <1>7 DEF Followed, CacheFollowsTable

LEMMA FollowedStep == Followed /\ [BenchmarkNext]_benchmarkVars => Followed'
<1> SUFFICES ASSUME Followed, [BenchmarkNext]_benchmarkVars PROVE Followed'
  OBVIOUS
<1>0. /\ Shaped /\ \A r \in Runs : IsRun(writer[r])
      /\ \A q \in Readers : IsReader(reader[q])
  BY DEF Followed, Shaped
<1>1. CASE Edit \/ Expire \/ UNCHANGED benchmarkVars
  <2>1. UNCHANGED <<table, writer, reader>> /\ (UNCHANGED <<cache, overtaken, abandoned>> \/ cache' = {})
    BY <1>1 DEF Edit, Expire, benchmarkVars
  <2>2. Published' = Published
    BY <2>1 DEF Published
  <2>3. Shaped' /\ Quiet' /\ Current'
    BY <2>1, <2>2 DEF Followed, Shaped, Quiet, Current
  <2>4. CacheFollowsTable'
    BY <2>1, <2>2 DEF Followed, CacheFollowsTable
  <2> QED BY <2>3, <2>4 DEF Followed
<1>2. ASSUME NEW r \in Runs, Start(r)
      PROVE  Followed'
  <2> DEFINE c == [at |-> "upsert", todo |-> Buckets, wrote |-> FALSE]
  <2>1. IsRun(c) /\ c.at = "upsert" /\ ~c.wrote
    BY DEF IsRun
  <2>2. writer' = [writer EXCEPT ![r] = c] /\ UNCHANGED <<table, cache, reader, overtaken, abandoned>>
    BY <1>2 DEF Start
  <2>3. ~writer[r].wrote
    BY <1>2 DEF Start, Followed, Quiet
  <2> HIDE DEF c
  <2> QED BY <2>1, <2>2, <2>3, QuietRunStep
<1>3. ASSUME NEW r \in Runs, Upsert(r)
      PROVE  Followed'
  BY <1>3, WriteStep DEF Upsert
<1>4. ASSUME NEW r \in Runs, Written(r)
      PROVE  Followed'
  <2> DEFINE c == [writer[r] EXCEPT !.at = "delete"]
  <2>1. IsRun(c) /\ c.at = "delete" /\ c.wrote = writer[r].wrote
    BY <1>0 DEF IsRun
  <2>2. writer' = [writer EXCEPT ![r] = c] /\ UNCHANGED <<table, cache, reader, overtaken, abandoned>>
    BY <1>0, <1>4 DEF Written, Shaped, IsRun
  <2> HIDE DEF c
  <2> QED BY <2>1, <2>2, QuietRunStep
<1>5. ASSUME NEW r \in Runs, DeleteCache(r) \/ RunFails(r)
      PROVE  Followed'
  <2>1. /\ writer' = [writer EXCEPT ![r] = NoRun] /\ UNCHANGED <<table, reader>>
        /\ cache' = {} \/ /\ UNCHANGED <<cache, overtaken>>
                          /\ abandoned' = (abandoned \/ (writer[r].wrote /\ cache # {}))
    BY <1>5 DEF DeleteCache, RunFails
  <2> QED BY <2>1, FreeFacts, QuietRunStep
<1>6. ASSUME NEW q \in Readers, Get(q)
      PROVE  Followed'
  <2> DEFINE c == [reader[q] EXCEPT !.at = "find"]
  <2>1. IsReader(c) /\ c.at = "find"
    BY <1>0 DEF IsReader
  <2>2. reader' = [reader EXCEPT ![q] = c] /\ UNCHANGED <<table, writer, cache, overtaken, abandoned>>
    BY <1>0, <1>6 DEF Get, Shaped, IsReader
  <2> HIDE DEF c
  <2> QED BY <2>1, <2>2, ReaderStep
<1>7. ASSUME NEW q \in Readers, Find(q)
      PROVE  Followed'
  <2> DEFINE c == [at |-> "set", rows |-> Published, late |-> FALSE]
  <2>1. IsReader(c) /\ c.rows = Published
    BY DEF IsReader
  <2>2. reader' = [reader EXCEPT ![q] = c] /\ UNCHANGED <<table, writer, cache, overtaken, abandoned>>
    BY <1>7 DEF Find
  <2> HIDE DEF c
  <2> QED BY <2>1, <2>2, ReaderStep
<1>8. ASSUME NEW q \in Readers, Set(q) \/ ReadFails(q)
      PROVE  Followed'
  <2>1. /\ reader' = [reader EXCEPT ![q] = NoReader] /\ UNCHANGED <<table, writer>>
        /\ \/ UNCHANGED <<cache, overtaken, abandoned>>
           \/ cache' = {reader[q].rows} /\ reader[q].at = "set" /\ overtaken' = reader[q].late
    BY <1>8 DEF Set, ReadFails
  <2> QED BY <2>1, FreeFacts, ReaderStep
<1> QED BY <1>1, <1>2, <1>3, <1>4, <1>5, <1>6, <1>7, <1>8 DEF BenchmarkNext, Recompute, Read

(* CacheFollowsTable in every reachable state: what is cached is what the    *)
(* table publishes, but while a recomputation writes, after one that failed *)
(* halfway, or when a reader was overtaken by a write.                      *)
THEOREM CacheHolds == BenchmarkSpec => []CacheFollowsTable
<1>1. BenchmarkInit => Followed
  BY FreeFacts DEF BenchmarkInit, Followed, Shaped, Quiet, Current, CacheFollowsTable
<1>2. Followed => CacheFollowsTable
  BY DEF Followed
<1> QED BY <1>1, <1>2, FollowedStep, PTL DEF BenchmarkSpec
==============================================================================
