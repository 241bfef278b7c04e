------------------------------ MODULE Workspace ------------------------------
(***************************************************************************)
(* What a team keeps in a project: stages, and the expenses, tasks and     *)
(* diary entries that may belong to one (StagesService, ExpensesService,   *)
(* TasksService, DiaryService), and the budget summary over them.  The     *)
(* team itself is Teams, which Projects implements.  Every handler repeats *)
(* findOwned and its own checks, one query at a time, and then writes.     *)
(***************************************************************************)
EXTENDS Teams, Naturals, Sequences, FiniteSets, FiniteSetsExt

CONSTANTS RowIds,      \* uuids of Stage, Expense, TaskItem and DiaryEntry rows
          ItemKinds,   \* the item tables in play, of "expense", "task", "diary"
          Ops,         \* the operations in play
          Amounts,     \* Expense.amount (the DTO asks for a positive number)
          Requests,    \* slots for requests in flight at the same time
          Undefined,   \* a field that a PATCH body leaves out
          GuessIds     \* may clients name uuids no reply has shown?

ASSUME WorkspaceAssumption ==
          /\ NoOne \notin RowIds /\ Undefined \notin RowIds \cup {NoOne}
          /\ ItemKinds \subseteq {"expense", "task", "diary"}
          /\ Ops \subseteq {"create", "update", "remove", "summary"}
          /\ GuessIds \in BOOLEAN
          /\ Amounts \subseteq Nat \ {0} /\ Undefined \notin Nat

VARIABLES rows,     \* rows of the four tables
          issued,   \* ids given to a row so far
          call,     \* the request each slot serves, NoCall when free
          todo,     \* its checks still to run
          seen,     \* what getSummary has read
          moved     \* history: did the stages change between its two reads?

handler == <<call, todo, seen>>
vars == <<teamVars, rows, issued, handler, moved>>

------------------------------------------------------------------------------
(* The tables. *)

Kinds == ItemKinds \cup {"stage"}
Row == [id : RowIds, kind : Kinds, project : ProjectIds,
        stage : RowIds \cup {NoOne}, amount : Nat]

IsMember(u, p) == owner[p] = u \/ u \in editors[p]
Live(p) == owner[p] # NoOne
Has(id, kind, p) == \E x \in rows : x.id = id /\ x.kind = kind /\ x.project = p
StageExists(s) == \E x \in rows : x.id = s /\ x.kind = "stage"
RowsOf(kind, p) == {x \in rows : x.kind = kind /\ x.project = p}
Spent(expenses) == MapThenSumSet(LAMBDA x : x.amount, expenses)

------------------------------------------------------------------------------
(* The requests. *)

AllOps == {"create", "update", "remove", "summary"}
Call == [op : AllOps, kind : Kinds,
         user : Users, project : ProjectIds, id : RowIds \cup {NoOne},
         stage : RowIds \cup {NoOne, Undefined},
         amount : Amounts \cup {0, Undefined}]

(* A stage has no stage, only an expense has an amount, a PATCH may leave *)
(* out either, and the diary has no PATCH.                                *)
StageArgs(kind) == IF kind = "stage" THEN {} ELSE RowIds \cup {NoOne}
AmountArgs(kind) == IF kind = "expense" THEN Amounts ELSE {}
OrNone(args, none) == IF args = {} THEN {none} ELSE args

Inputs == {c \in Call : c.op \in Ops /\
    CASE c.op = "create" -> /\ c.id = NoOne
                            /\ c.stage \in OrNone(StageArgs(c.kind), NoOne)
                            /\ c.amount \in OrNone(AmountArgs(c.kind), 0)
      [] c.op = "update" -> /\ c.kind # "diary" /\ c.id # NoOne
                            /\ c.stage \in StageArgs(c.kind) \cup {Undefined}
                            /\ c.amount \in AmountArgs(c.kind) \cup {Undefined}
      [] c.op = "remove" -> /\ c.id # NoOne
                            /\ c.stage = NoOne /\ c.amount = 0
      [] c.op = "summary" -> /\ c.kind = "stage" /\ c.id = NoOne
                             /\ c.stage = NoOne /\ c.amount = 0}

NoCall == [op |-> "none"]
NothingSeen == [stages |-> {}, expenses |-> {}, read |-> {}]
Running(r) == call[r] # NoCall

(* Plausible mistakes, each in place of the definition named before "_".   *)

(* The stage a body names is not looked up. *)
Checks_stageUnchecked(c) ==
    <<"project", "membership">>
    \o (IF c.op \in {"update", "remove"} THEN <<"row">> ELSE <<>>)

(* The row is found by id without comparing its project. *)
Passes_anyProject(c, check) ==
    \/ check = "project" /\ Live(c.project)
    \/ check = "membership" /\ IsMember(c.user, c.project)
    \/ check = "row" /\ \E x \in rows : x.id = c.id /\ x.kind = c.kind
    \/ check = "stage" /\ Has(c.stage, "stage", c.project)

(* The queries a handler checks before it writes: ProjectsService's        *)
(* findOwned, its own findOwned, then StagesService's findOwned (which     *)
(* runs the first again) when the body names a stage.                      *)
OnProject == <<"project", "membership">>
Checks(c) == OnProject
             \o (IF c.op \in {"update", "remove"} THEN <<"row">> ELSE <<>>)
             \o (IF c.stage \in RowIds THEN OnProject \o <<"stage">> ELSE <<>>)

Passes(c, check) ==
    \/ check = "project" /\ Live(c.project)
    \/ check = "membership" /\ IsMember(c.user, c.project)
    \/ check = "row" /\ Has(c.id, c.kind, c.project)
    \/ check = "stage" /\ Has(c.stage, "stage", c.project)

Finish(r) == /\ call' = [call EXCEPT ![r] = NoCall]
             /\ todo' = [todo EXCEPT ![r] = <<>>]
             /\ seen' = [seen EXCEPT ![r] = NothingSeen]

(* The stage goes without its expenses being told. *)
RemoveRow_keepsLinks(r) ==
    /\ todo[r] = <<>> /\ call[r].op = "remove"
    /\ rows' = {x \in rows : x.id # call[r].id}
    /\ Finish(r)
    /\ UNCHANGED issued

(* The stage takes its expenses with it (onDelete: Cascade). *)
RemoveRow_cascades(r) ==
    /\ todo[r] = <<>> /\ call[r].op = "remove"
    /\ rows' = {x \in rows : call[r].id \notin {x.id, x.stage}}
    /\ Finish(r)
    /\ UNCHANGED issued

Init == /\ TeamInit
        /\ rows = {}
        /\ issued = {}
        /\ call = [r \in Requests |-> NoCall]
        /\ todo = [r \in Requests |-> <<>>]
        /\ seen = [r \in Requests |-> NothingSeen]
        /\ moved = [r \in Requests |-> FALSE]

(* Ids are uuids: a client names a row after a reply has shown it. *)
Known(c) == /\ c.project \in founded
            /\ c.id \in issued \cup {NoOne}
            /\ c.stage \in issued \cup {NoOne, Undefined}

Start(r, c) == /\ ~Running(r)
               /\ GuessIds \/ Known(c)
               /\ call' = [call EXCEPT ![r] = c]
               /\ todo' = [todo EXCEPT ![r] = Checks(c)]
               /\ UNCHANGED <<seen, rows, issued>>

(* A failed check answers 404; a query that rejects answers 500. *)
Check(r) == /\ todo[r] # <<>>
            /\ IF Passes(call[r], Head(todo[r]))
               THEN /\ todo' = [todo EXCEPT ![r] = Tail(@)]
                    /\ UNCHANGED <<call, seen>>
               ELSE Finish(r)
            /\ UNCHANGED <<rows, issued>>

QueryFails(r) == /\ Running(r)
                 /\ Finish(r)
                 /\ UNCHANGED <<rows, issued>>

Checked(r, op) == todo[r] = <<>> /\ call[r].op = op

------------------------------------------------------------------------------
(* The writes.  A foreign key refuses a row for a project or a stage that  *)
(* is gone, and Prisma a row that is gone: 500, nothing written.           *)

CreateRow(r) ==
    /\ Checked(r, "create")
    /\ LET c == call[r]
       IN  IF Live(c.project) /\ (c.stage = NoOne \/ StageExists(c.stage))
           THEN \E id \in RowIds \ issued :
                   /\ rows' = rows \cup {[id |-> id, kind |-> c.kind,
                                          project |-> c.project,
                                          stage |-> c.stage,
                                          amount |-> c.amount]}
                   /\ issued' = issued \cup {id}
           ELSE UNCHANGED <<rows, issued>>
    /\ Finish(r)

UpdateRow(r) ==
    /\ Checked(r, "update")
    /\ LET c == call[r]
           new(x) == [x EXCEPT !.stage = IF c.stage = Undefined THEN @
                                                                ELSE c.stage,
                               !.amount = IF c.amount = Undefined THEN @
                                                                  ELSE c.amount]
       IN  rows' = IF c.stage \in {NoOne, Undefined} \/ StageExists(c.stage)
                   THEN {IF x.id = c.id THEN new(x) ELSE x : x \in rows}
                   ELSE rows
    /\ Finish(r)
    /\ UNCHANGED issued

(* onDelete: SetNull, Prisma's default for the optional stageId. *)
RemoveRow(r) ==
    /\ Checked(r, "remove")
    /\ LET id == call[r].id
       IN  rows' = {IF x.stage = id THEN [x EXCEPT !.stage = NoOne] ELSE x :
                       x \in {y \in rows : y.id # id}}
    /\ Finish(r)
    /\ UNCHANGED issued

(* getSummary: Promise.all issues the two queries together; the pool runs  *)
(* them in either order, with writes of others in between.                 *)
ReadStages(r) ==
    /\ Checked(r, "summary")
    /\ "stages" \notin seen[r].read
    /\ seen' = [seen EXCEPT ![r].stages = RowsOf("stage", call[r].project),
                            ![r].read = @ \cup {"stages"}]
    /\ UNCHANGED <<call, todo, rows, issued>>

ReadExpenses(r) ==
    /\ Checked(r, "summary")
    /\ "expenses" \notin seen[r].read
    /\ seen' = [seen EXCEPT ![r].expenses = RowsOf("expense", call[r].project),
                            ![r].read = @ \cup {"expenses"}]
    /\ UNCHANGED <<call, todo, rows, issued>>

TotalSpent(s) == Spent(s.expenses)
StageSpent(s, st) == Spent({x \in s.expenses : x.stage = st.id})
UnassignedSpent(s) == Spent({x \in s.expenses : x.stage = NoOne})
AllStagesSpent(s) == MapThenSumSet(LAMBDA st : StageSpent(s, st), s.stages)

AnswerSummary(r) == /\ seen[r].read = {"stages", "expenses"}
                    /\ Finish(r)
                    /\ UNCHANGED <<rows, issued>>

------------------------------------------------------------------------------
(* The team changes as Teams promises; a dissolved project takes all its   *)
(* rows with it (onDelete: Cascade).                                       *)
TeamStep == /\ TeamNext
            /\ rows' = {x \in rows : owner'[x.project] # NoOne}
            /\ UNCHANGED <<issued, handler>>

RequestStep(r) == \/ \E c \in Inputs : Start(r, c)
                  \/ Check(r) \/ QueryFails(r)
                  \/ CreateRow(r) \/ UpdateRow(r) \/ RemoveRow(r)
                  \/ ReadStages(r) \/ ReadExpenses(r) \/ AnswerSummary(r)

(* The history variable of getSummary. *)
StagesMove(r) == RowsOf("stage", call[r].project)' # RowsOf("stage", call[r].project)
Observe == moved' = [r \in Requests |->
              /\ seen'[r].read # {}
              /\ moved[r] \/ (Cardinality(seen[r].read) = 1 /\ StagesMove(r))]

Next == /\ \/ TeamStep
           \/ \E r \in Requests : RequestStep(r) /\ UNCHANGED teamVars
        /\ Observe

Spec == Init /\ [][Next]_vars

------------------------------------------------------------------------------
(* Properties. *)

(* Types of the tables and of the requests. *)
TypeOK == /\ owner \in [ProjectIds -> Users \cup {NoOne}]
          /\ editors \in [ProjectIds -> SUBSET Users]
          /\ founded \subseteq ProjectIds
          /\ rows \subseteq Row
          /\ issued \subseteq RowIds
          /\ call \in [Requests -> Call \cup {NoCall}]
          /\ todo \in [Requests -> Seq({"project", "membership", "row", "stage"})]
          /\ \A r \in Requests : /\ seen[r].stages \subseteq Row
                                 /\ seen[r].expenses \subseteq Row
                                 /\ seen[r].read \subseteq {"stages", "expenses"}
          /\ moved \in [Requests -> BOOLEAN]

(* The stage of an expense, a task or a diary entry is a stage of the same *)
(* project, and every row belongs to a project that exists.  The foreign   *)
(* keys know neither; the checks run several queries before the write.     *)
ReferencesIntact ==
    /\ \A x \in rows : Live(x.project)
    /\ \A x \in rows : x.stage # NoOne => Has(x.stage, "stage", x.project)
    /\ \A x, y \in rows : x.id = y.id => x = y

(* getSummary reads stages and expenses outside a transaction.  What its   *)
(* stages spent and what is unassigned add up to totalSpent, unless a      *)
(* stage of the project came or went between the two reads.                *)
AddsUp(s) == TotalSpent(s) = AllStagesSpent(s) + UnassignedSpent(s)
SummaryAddsUp ==
    \A r \in Requests :
       seen[r].read = {"stages", "expenses"} /\ ~moved[r] => AddsUp(seen[r])

(* Deleting a stage deletes no money: an expense disappears only with its  *)
(* project, or because a request for that very expense removes it.         *)
SpendingKept ==
    [][\A x \in rows :
          x.kind = "expense" /\ (\A y \in rows' : y.id # x.id) =>
             \/ owner'[x.project] = NoOne
             \/ \E r \in Requests : /\ call[r].op = "remove" /\ call[r].kind = "expense"
                                    /\ call[r].id = x.id
                                    /\ call'[r] = NoCall]_vars

(* A row that a request is about to write belongs to the project whose     *)
(* membership the request has checked, however long ago it looked.         *)
WritesStayInside ==
    \A r \in Requests, x \in rows :
       /\ Running(r) /\ todo[r] = <<>>
       /\ \/ x.id = call[r].id
          \/ x.id = call[r].stage
       => x.project = call[r].project
==============================================================================
