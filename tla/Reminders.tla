------------------------------ MODULE Reminders ------------------------------
(***************************************************************************)
(* The deadline check (apps/api/src/notifications).  A job is added every  *)
(* day at 8 o'clock and on demand; a worker finds the tasks that are due   *)
(* in the next days and not yet reminded of, and for one after the other   *)
(* sends a mail and sets remindedAt.  Meanwhile TasksService edits tasks.  *)
(* A job whose worker died or lost its lock is run a second time, once.    *)
(***************************************************************************)
EXTENDS Naturals, FiniteSets

CONSTANTS Tasks,      \* uuids of TaskItem rows
          Workers,    \* API processes, each with one worker
          LastDay,    \* bound: the days are 0 .. LastDay
          Window,     \* DEADLINE_REMINDER_WINDOW_DAYS
          MaxJobs,    \* bound: jobs in the queue once one is triggered
          NoDate,     \* null, and a dueDate that a body leaves out
          NoTask

ASSUME RemindersAssumption == /\ LastDay \in Nat /\ Window \in Nat \ {0}
                              /\ MaxJobs \in Nat /\ NoDate \notin Nat
                              /\ NoTask \notin Tasks

VARIABLES day,      \* today; dates are midnights, the check runs at 8
          tasks,    \* the TaskItem rows
          fresh,    \* jobs that wait for their first run
          again,    \* jobs that wait for their second run
          checking, \* what each worker is doing
          mailed,   \* the mails sent: about which task and which date
          since,    \* history: the day each task was last changed by a user
          carried,  \* history: tasks given a date while reminded of, or in a run
          exposed,  \* history: tasks held by two runs, or mailed and not marked
          twice,    \* history: tasks mailed about twice for the same date
          checked   \* history: days on which a run went to its end

remindersVars == <<day, tasks, fresh, again, checking, mailed, since, carried, exposed, twice, checked>>

------------------------------------------------------------------------------
Days == 0 .. LastDay
NoRow == [state |-> "none", due |-> NoDate, reminded |-> FALSE]
Gone == [NoRow EXCEPT !.state = "gone"]
HasTask(t) == tasks[t].state \in {"open", "done"}

Idle == [next |-> "idle", found |-> {}, task |-> NoTask, second |-> FALSE]
Letter(t, d) == [task |-> t, due |-> d]
Held(w) == {m.task : m \in checking[w].found}

(* dueDate between now and windowEnd, for a check run on day d.  The        *)
(* midnight of today is past at 8 o'clock.                                 *)
InWindow(due, d) == due # NoDate /\ d < due /\ due <= d + Window

(* Two mistakes in the where clause: lt for lte, counted in whole days; and *)
(* remindedAt forgotten.                                                   *)
Due_tooSoon(t) == /\ tasks[t].state = "open" /\ ~tasks[t].reminded
                  /\ InWindow(tasks[t].due, day) /\ tasks[t].due # day + Window
Due_anew(t) == tasks[t].state = "open" /\ InWindow(tasks[t].due, day)

(* done: false, remindedAt: null, and a dueDate in the window. *)
Due(t) == tasks[t].state = "open" /\ ~tasks[t].reminded /\ InWindow(tasks[t].due, day)

RemindersInit == /\ day = 0
                 /\ tasks = [t \in Tasks |-> NoRow]
                 /\ fresh = 0 /\ again = 0
                 /\ checking = [w \in Workers |-> Idle]
                 /\ mailed = {}
                 /\ since = [t \in Tasks |-> 0]
                 /\ carried = {} /\ exposed = {} /\ twice = {} /\ checked = {}

------------------------------------------------------------------------------
(* Plausible mistakes, each in place of the definition named before "_".   *)

(* All found tasks are marked at once, before the first mail. *)
FindDue_marksAll(w) ==
    /\ checking[w].next = "find"
    /\ checking' = [checking EXCEPT ![w].next = "mail",
                                    ![w].found = {Letter(t, tasks[t].due) : t \in {x \in Tasks : Due(x)}}]
    /\ tasks' = [t \in Tasks |-> IF Due(t) THEN [tasks[t] EXCEPT !.reminded = TRUE]
                                           ELSE tasks[t]]
    /\ UNCHANGED <<fresh, again, mailed, checked>>

------------------------------------------------------------------------------
(* TasksService: create, update and remove, seen at their write.           *)

UserEdits(t, row) ==
    /\ tasks' = [tasks EXCEPT ![t] = row]
    /\ since' = [since EXCEPT ![t] = day]
    /\ carried' = IF row.due # tasks[t].due
                     /\ (tasks[t].reminded \/ \E w \in Workers : t \in Held(w))
                  THEN carried \cup {t} ELSE carried
    /\ UNCHANGED <<day, fresh, again, checking, mailed, checked>>

CreateTask(t, due) ==
    /\ tasks[t] = NoRow
    /\ UserEdits(t, [state |-> "open", due |-> due, reminded |-> FALSE])

(* A PATCH cannot clear the date, and it never touches remindedAt. *)
UpdateTask(t, due, state) ==
    /\ HasTask(t)
    /\ UserEdits(t, [tasks[t] EXCEPT !.state = state,
                                     !.due = IF due = NoDate THEN @ ELSE due])

RemoveTask(t) == HasTask(t) /\ UserEdits(t, Gone)

------------------------------------------------------------------------------
(* NotificationsService: the cron job and the manual trigger.              *)

Resting == fresh = 0 /\ again = 0 /\ \A w \in Workers : checking[w] = Idle

(* A check is over long before the next morning.  At 8 every API process   *)
(* that is up adds a job.                                                  *)
NextMorning(n) ==
    /\ Resting /\ day < LastDay
    /\ day' = day + 1
    /\ fresh' = n
    /\ UNCHANGED <<tasks, again, checking, mailed, since, carried, checked>>

Load == fresh + again + Cardinality({w \in Workers : checking[w] # Idle})
TriggerCheck ==
    /\ Load < MaxJobs
    /\ fresh' = fresh + 1
    /\ UNCHANGED <<day, tasks, again, checking, mailed, since, carried, checked>>

------------------------------------------------------------------------------
(* NotificationsProcessor.process. *)

TakeCheck(w) ==
    /\ checking[w] = Idle
    /\ \/ fresh > 0 /\ fresh' = fresh - 1 /\ UNCHANGED again
          /\ checking' = [checking EXCEPT ![w] = [Idle EXCEPT !.next = "find"]]
       \/ again > 0 /\ again' = again - 1 /\ UNCHANGED fresh
          /\ checking' = [checking EXCEPT ![w] = [Idle EXCEPT !.next = "find", !.second = TRUE]]
    /\ UNCHANGED <<tasks, mailed, checked>>

FindDue(w) ==
    /\ checking[w].next = "find"
    /\ checking' = [checking EXCEPT ![w].next = "mail",
                                    ![w].found = {Letter(t, tasks[t].due) : t \in {x \in Tasks : Due(x)}}]
    /\ UNCHANGED <<tasks, fresh, again, mailed, checked>>

(* The loop goes through what findMany returned, in no promised order.     *)
SendMail(w) ==
    /\ checking[w].next = "mail"
    /\ \E m \in checking[w].found :
          /\ mailed' = mailed \cup {m}
          /\ checking' = [checking EXCEPT ![w].next = "mark", ![w].task = m.task]
    /\ UNCHANGED <<tasks, fresh, again, checked>>

Mark(w) ==
    /\ checking[w].next = "mark" /\ HasTask(checking[w].task)
    /\ tasks' = [tasks EXCEPT ![checking[w].task].reminded = TRUE]
    /\ checking' = [checking EXCEPT ![w].next = "mail", ![w].task = NoTask,
                                    ![w].found = {m \in @ : m.task # checking[w].task}]
    /\ UNCHANGED <<fresh, again, mailed, checked>>

EndRun(w) ==
    /\ checking[w].next = "mail" /\ checking[w].found = {}
    /\ checking' = [checking EXCEPT ![w] = Idle]
    /\ checked' = checked \cup {day}
    /\ UNCHANGED <<tasks, fresh, again, mailed>>

(* A query or a mail rejects (as does marking a task that is gone): the     *)
(* rest of the loop is skipped, and the job, with one attempt, has failed.  *)
CheckFails(w) ==
    /\ checking[w].next # "idle"
    /\ checking' = [checking EXCEPT ![w] = Idle]
    /\ UNCHANGED <<tasks, fresh, again, mailed, checked>>

(* BullMQ hands the job of a worker that is gone, or seems so, to another. *)
Stall(w, crashed) ==
    /\ checking[w].next # "idle" /\ ~checking[w].second
    /\ again' = again + 1
    /\ checking' = [checking EXCEPT ![w] = IF crashed THEN Idle ELSE [@ EXCEPT !.second = TRUE]]
    /\ UNCHANGED <<tasks, fresh, mailed, checked>>

------------------------------------------------------------------------------
CheckStep(w) == \/ TakeCheck(w) \/ FindDue(w) \/ SendMail(w) \/ Mark(w)
                \/ EndRun(w) \/ CheckFails(w)
                \/ \E crashed \in BOOLEAN : Stall(w, crashed)

UserStep == \E t \in Tasks :
               \/ \E due \in Days \cup {NoDate} : CreateTask(t, due)
               \/ \E due \in Days \cup {NoDate}, state \in {"open", "done"} :
                     UpdateTask(t, due, state)
               \/ RemoveTask(t)

Cron == \/ \E n \in 0 .. Cardinality(Workers) : NextMorning(n)
        \/ TriggerCheck

(* The history variables of the mails. *)
Observe ==
    /\ exposed' = exposed
          \cup {t \in Tasks : \E v, w \in Workers : v # w /\ (t \in Held(v) \cap Held(w))'}
          \cup {checking[w].task : w \in {v \in Workers : checking'[v] = Idle /\ checking[v].next = "mark"}}
    /\ twice' = twice \cup {t \in Tasks : \E w \in Workers :
                   /\ checking[w].next = "mail" /\ checking'[w].next = "mark"
                   /\ checking'[w].task = t /\ mailed' = mailed}

RemindersNext == /\ \/ UserStep \/ Cron
                    \/ \E w \in Workers : CheckStep(w) /\ UNCHANGED <<day, since, carried>>
                 /\ Observe

RemindersSpec == RemindersInit /\ [][RemindersNext]_remindersVars

------------------------------------------------------------------------------
(* Properties. *)

(* Types of the rows, the queue and the workers; a row that is gone holds  *)
(* nothing.                                                                *)
RemindersTypeOK ==
    /\ day \in Days
    /\ \A t \in Tasks : tasks[t] \in {NoRow, Gone} \/
          tasks[t] \in [state : {"open", "done"}, due : Days \cup {NoDate}, reminded : BOOLEAN]
    /\ fresh \in Nat /\ again \in Nat
    /\ checking \in [Workers -> [next : {"idle", "find", "mail", "mark"},
                            found : SUBSET [task : Tasks, due : Days],
                            task : Tasks \cup {NoTask}, second : BOOLEAN]]
    /\ mailed \subseteq [task : Tasks, due : Days]
    /\ since \in [Tasks -> Days] /\ checked \subseteq Days
    /\ carried \subseteq Tasks /\ exposed \subseteq Tasks /\ twice \subseteq Tasks

(* remindedAt is set only after a mail has gone out, whatever failed.      *)
RemindedWasMailed ==
    \A t \in Tasks : tasks[t].reminded => \E m \in mailed : m.task = t

(* Nobody gets two mails about one date, unless two runs had found the     *)
(* task at the same time (a trigger next to the cron job, two processes,   *)
(* a lost lock), or a run ended between a mail and its mark.               *)
MailedOnce == twice \subseteq exposed

(* A run that goes to its end leaves no task out: one that was due in the   *)
(* window, and has not been changed since the day before, has been mailed   *)
(* about.  Except for a task that got its date when it already had a        *)
(* reminder, or while a run was holding it: remindedAt is never reset.      *)
Remembered(t) ==
    \A d \in checked :
       tasks[t].state = "open" /\ since[t] < d /\ InWindow(tasks[t].due, d)
          => Letter(t, tasks[t].due) \in mailed
NobodyForgotten == \A t \in Tasks : t \in carried \/ Remembered(t)

(* "daily deadline check [...] emails a reminder for tasks due within       *)
(* 3 days": every task, whatever date it had before (tasks.service.ts 49).  *)
EveryDateReminded == \A t \in Tasks : Remembered(t)
==============================================================================
