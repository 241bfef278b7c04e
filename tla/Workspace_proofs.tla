-------------------------- MODULE Workspace_proofs ---------------------------
(***************************************************************************)
(* Theorems about Workspace, for every set of users, projects, rows and    *)
(* requests: references stay inside their project and so do writes, no     *)
(* expense goes with its stage, and what a summary tells adds up.          *)
(***************************************************************************)
EXTENDS Workspace, SequenceTheorems, FiniteSetTheorems, TLAPS

------------------------------------------------------------------------------
(* Requests: what a call looks like and which checks it still owes. *)

CheckNames == {"project", "membership", "row", "stage"}
Owed(s) == {s[i] : i \in 1 .. Len(s)}

Called == /\ call \in [Requests -> Inputs \cup {NoCall}]
          /\ todo \in [Requests -> Seq(CheckNames)]

(* An update or a removal names a row and a summary does not; only what is   *)
(* not a stage names a stage, and a PATCH may leave it out.                 *)
LEMMA InputShape ==
    ASSUME NEW c \in Inputs
    PROVE  /\ c \in Call /\ c.op # "none"
           /\ c.op \in {"update", "remove"} <=> c.id \in RowIds
           /\ c.op \in {"create", "summary"} => c.id = NoOne
           /\ c.op = "create" => c.stage \in RowIds \cup {NoOne} /\ c.amount \in Nat
           /\ c.op = "update" => c.amount \in Nat \cup {Undefined}
           /\ c.op \in {"remove", "summary"} => c.stage = NoOne
           /\ c.stage \in RowIds => c.op \in {"create", "update"} /\ c.kind # "stage"
<1>1. /\ c \in Call /\ c.op \in AllOps
      /\ c.kind \in Kinds /\ c.id \in RowIds \cup {NoOne}
      /\ c.stage \in RowIds \cup {NoOne, Undefined} /\ c.amount \in Amounts \cup {0, Undefined}
    BY DEF Inputs, Call
<1>2. NoOne \notin RowIds /\ Undefined \notin RowIds \cup {NoOne} /\ Amounts \subseteq Nat
    BY WorkspaceAssumption
<1>3. CASE c.op = "create"
    <2>1. c.id = NoOne /\ c.stage \in OrNone(StageArgs(c.kind), NoOne)
          /\ c.amount \in OrNone(AmountArgs(c.kind), 0)
        BY <1>3 DEF Inputs
    <2>2. c.stage = NoOne \/ c.stage \in StageArgs(c.kind)
        BY <2>1 DEF OrNone
    <2>3. c.amount = 0 \/ c.amount \in AmountArgs(c.kind)
        BY <2>1 DEF OrNone
    <2>4. /\ c.kind = "stage" => c.stage = NoOne
          /\ c.stage \in RowIds \cup {NoOne}
        BY <2>2 DEF StageArgs
    <2>5. c.amount \in Nat
        <3>1. AmountArgs(c.kind) \subseteq Nat /\ 0 \in Nat
            BY <1>2 DEF AmountArgs
        <3> QED
            BY <2>3, <3>1
    <2> QED
        BY <1>1, <1>2, <1>3, <2>1, <2>4, <2>5
<1>4. CASE c.op = "update"
    <2>1. c.id # NoOne /\ c.stage \in StageArgs(c.kind) \cup {Undefined}
          /\ c.amount \in AmountArgs(c.kind) \cup {Undefined}
        BY <1>4 DEF Inputs
    <2> QED
        BY <1>1, <1>2, <1>4, <2>1 DEF StageArgs, AmountArgs
<1>5. CASE c.op = "remove"
    <2>1. c.id # NoOne /\ c.stage = NoOne
        BY <1>5 DEF Inputs
    <2> QED
        BY <1>1, <1>2, <1>5, <2>1
<1>6. CASE c.op = "summary"
    <2>1. c.id = NoOne /\ c.stage = NoOne
        BY <1>6 DEF Inputs
    <2> QED
        BY <1>1, <1>2, <1>6, <2>1
<1> QED
    BY <1>1, <1>3, <1>4, <1>5, <1>6 DEF AllOps

LEMMA OwedConcat ==
    ASSUME NEW s \in Seq(CheckNames), NEW t \in Seq(CheckNames)
    PROVE  Owed(s) \subseteq Owed(s \o t) /\ Owed(t) \subseteq Owed(s \o t)
<1>1. /\ Len(s \o t) = Len(s) + Len(t) /\ Len(s) \in Nat /\ Len(t) \in Nat
      /\ \A i \in 1 .. Len(s) : (s \o t)[i] = s[i]
      /\ \A i \in 1 .. Len(t) : (s \o t)[Len(s) + i] = t[i]
    OBVIOUS
<1>2. \A i \in 1 .. Len(t) : Len(s) + i \in 1 .. Len(s \o t)
    BY <1>1
<1>3. 1 .. Len(s) \subseteq 1 .. Len(s \o t)
    BY <1>1
<1> QED
    BY <1>1, <1>2, <1>3 DEF Owed

(* A call starts out owing the check of each row it names. *)
LEMMA ChecksComplete ==
    ASSUME NEW c \in Inputs
    PROVE  /\ Checks(c) \in Seq(CheckNames)
           /\ c.op \in {"update", "remove"} => "row" \in Owed(Checks(c))
           /\ c.stage \in RowIds => "stage" \in Owed(Checks(c))
<1> DEFINE R == IF c.op \in {"update", "remove"} THEN <<"row">> ELSE <<>>
           S == IF c.stage \in RowIds THEN OnProject \o <<"stage">> ELSE <<>>
<1>1. OnProject \in Seq(CheckNames)
    BY DEF OnProject, CheckNames
<1>2. R \in Seq(CheckNames) /\ <<"stage">> \in Seq(CheckNames)
    <2>1. <<"row">> \in Seq(CheckNames) /\ <<"stage">> \in Seq(CheckNames)
        BY DEF CheckNames
    <2>2. <<>> \in Seq(CheckNames)
        OBVIOUS
    <2> QED
        BY <2>1, <2>2
<1>3. S \in Seq(CheckNames)
    BY <1>1, <1>2, ConcatProperties
<1>4. Checks(c) = (OnProject \o R) \o S
    BY DEF Checks
<1> HIDE DEF R, S
<1>5. Checks(c) \in Seq(CheckNames)
    BY <1>1, <1>2, <1>3, <1>4, ConcatProperties
<1>6. Owed(R) \subseteq Owed(Checks(c)) /\ Owed(S) \subseteq Owed(Checks(c))
    <2>1. OnProject \o R \in Seq(CheckNames)
        BY <1>1, <1>2, ConcatProperties
    <2>2. Owed(R) \subseteq Owed(OnProject \o R)
        BY <1>1, <1>2, OwedConcat
    <2> QED
        BY <1>3, <1>4, <2>1, <2>2, OwedConcat
<1>7. c.op \in {"update", "remove"} => "row" \in Owed(R)
    BY DEF R, Owed
<1>8. c.stage \in RowIds => "stage" \in Owed(S)
    <2>1. "stage" \in Owed(<<"stage">>)
        BY DEF Owed
    <2> QED
        BY <1>1, <1>2, <2>1, OwedConcat DEF S
<1> QED
    BY <1>5, <1>6, <1>7, <1>8

LEMMA OwedTail ==
    ASSUME NEW s \in Seq(CheckNames), s # <<>>
    PROVE  /\ Tail(s) \in Seq(CheckNames) /\ Head(s) \in CheckNames
           /\ Owed(s) \subseteq {Head(s)} \cup Owed(Tail(s))
BY DEF Owed

LEMMA CalledInit == Init => Called
BY DEF Init, Called

(* The steps of a request: it starts, passes a check, reads, or ends. *)
Begins(r, c) == /\ call' = [call EXCEPT ![r] = c]
                /\ todo' = [todo EXCEPT ![r] = Checks(c)]
Advances(r) == /\ todo[r] # <<>> /\ Passes(call[r], Head(todo[r]))
               /\ UNCHANGED call
               /\ todo' = [todo EXCEPT ![r] = Tail(@)]
Ends(r) == /\ call' = [call EXCEPT ![r] = NoCall]
           /\ todo' = [todo EXCEPT ![r] = <<>>]

LEMMA RequestSteps ==
    ASSUME [Next]_vars
    PROVE  \/ UNCHANGED <<call, todo>>
           \/ \E r \in Requests : /\ UNCHANGED <<rows, issued>>
                                  /\ Advances(r) \/ \E c \in Inputs : Begins(r, c)
           \/ \E r \in Requests : Ends(r)
BY DEF Next, TeamStep, RequestStep, Start, Check, QueryFails, CreateRow, UpdateRow, RemoveRow,
       ReadStages, ReadExpenses, AnswerSummary, Finish, Begins, Advances, Ends, handler, vars

LEMMA CalledStep == Called /\ [Next]_vars => Called'
<1> SUFFICES ASSUME Called, [Next]_vars PROVE Called'
    OBVIOUS
<1>1. CASE UNCHANGED <<call, todo>>
    BY <1>1 DEF Called
<1>2. ASSUME NEW r \in Requests, Advances(r) PROVE Called'
    BY <1>2, OwedTail DEF Called, Advances
<1>3. ASSUME NEW r \in Requests, NEW c \in Inputs, Begins(r, c) PROVE Called'
    BY <1>3, ChecksComplete DEF Called, Begins
<1>4. ASSUME NEW r \in Requests, Ends(r) PROVE Called'
    BY <1>4 DEF Called, Ends
<1> QED
    BY <1>1, <1>2, <1>3, <1>4, RequestSteps
------------------------------------------------------------------------------
(* Rows keep their id, kind and project. *)

Rowed == /\ rows \subseteq Row
         /\ issued \subseteq RowIds
         /\ \A x \in rows : x.id \in issued
         /\ \A x, y \in rows : x.id = y.id => x = y

(* What a step may do to the rows: change what a row says of its stage and  *)
(* amount, and add a row under an id never issued.                          *)
RowsStep == /\ issued \subseteq issued'
            /\ \A x \in rows' :
                  \/ \E y \in rows : /\ x.id = y.id /\ x.kind = y.kind
                                     /\ x.project = y.project
                  \/ x.id \notin issued

(* The calls of the requests that write. *)
LEMMA Writers ==
    ASSUME Called, NEW r \in Requests
    PROVE  /\ CreateRow(r) => call[r] \in Inputs
           /\ UpdateRow(r) => call[r] \in Inputs
           /\ RemoveRow(r) => call[r] \in Inputs
<1>1. NoCall.op = "none"
    BY DEF NoCall
<1>2. call[r] \in Inputs \/ call[r].op = "none"
    BY <1>1 DEF Called
<1> QED
    BY <1>2 DEF CreateRow, UpdateRow, RemoveRow, Checked

LEMMA RowedInit == Init => Rowed
BY DEF Init, Rowed

LEMMA RowedStep == Called /\ Rowed /\ [Next]_vars => Rowed' /\ RowsStep
<1> SUFFICES ASSUME Called, Rowed, [Next]_vars PROVE Rowed' /\ RowsStep
    OBVIOUS
<1>1. ASSUME rows' \subseteq rows, UNCHANGED issued PROVE Rowed' /\ RowsStep
    BY <1>1 DEF Rowed, RowsStep
<1>2. ASSUME NEW r \in Requests, CreateRow(r) PROVE Rowed' /\ RowsStep
    <2> DEFINE c == call[r]
    <2>1. CASE UNCHANGED <<rows, issued>>
        BY <1>1, <2>1
    <2>2. ASSUME NEW id \in RowIds \ issued,
                 rows' = rows \cup {[id |-> id, kind |-> c.kind, project |-> c.project,
                                     stage |-> c.stage, amount |-> c.amount]},
                 issued' = issued \cup {id}
          PROVE  Rowed' /\ RowsStep
        <3>1. /\ c \in Inputs /\ c.op = "create"
            BY <1>2, Writers DEF CreateRow, Checked
        <3>2. /\ c.kind \in Kinds /\ c.project \in ProjectIds
              /\ c.stage \in RowIds \cup {NoOne} /\ c.amount \in Nat
            BY <3>1, InputShape DEF Call
        <3> HIDE DEF c
        <3> QED
            BY <2>2, <3>2 DEF Rowed, RowsStep, Row
    <2> QED
        BY <1>2, <2>1, <2>2 DEF CreateRow
<1>3. ASSUME NEW r \in Requests, UpdateRow(r) PROVE Rowed' /\ RowsStep
    <2> DEFINE c == call[r]
               new(x) == [x EXCEPT !.stage = IF c.stage = Undefined THEN @ ELSE c.stage,
                                   !.amount = IF c.amount = Undefined THEN @ ELSE c.amount]
    <2>1. CASE UNCHANGED <<rows, issued>>
        BY <1>1, <2>1
    <2>2. CASE rows' = {IF x.id = c.id THEN new(x) ELSE x : x \in rows} /\ UNCHANGED issued
        <3>1. c \in Inputs /\ c.op = "update"
            BY <1>3, Writers DEF UpdateRow, Checked
        <3>2. c.stage \in RowIds \cup {NoOne, Undefined} /\ c.amount \in Nat \cup {Undefined}
            BY <3>1, InputShape DEF Call
        <3>3. ASSUME NEW x \in Row
              PROVE  /\ new(x) \in Row /\ new(x).id = x.id
                     /\ new(x).kind = x.kind /\ new(x).project = x.project
            <4> HIDE DEF c
            <4> QED
                BY <3>2 DEF Row
        <3> HIDE DEF c, new
        <3> QED
            BY <2>2, <3>3 DEF Rowed, RowsStep
    <2> QED
        BY <1>3, <2>1, <2>2 DEF UpdateRow
<1>4. ASSUME NEW r \in Requests, RemoveRow(r) PROVE Rowed' /\ RowsStep
    <2>1. ASSUME NEW x \in Row
          PROVE  LET n == [x EXCEPT !.stage = NoOne]
                 IN  n \in Row /\ n.id = x.id /\ n.kind = x.kind /\ n.project = x.project
        BY DEF Row
    <2> DEFINE cut(x) == IF x.stage = call[r].id THEN [x EXCEPT !.stage = NoOne] ELSE x
    <2>2. ASSUME NEW x \in Row
          PROVE  /\ cut(x) \in Row /\ cut(x).id = x.id
                 /\ cut(x).kind = x.kind /\ cut(x).project = x.project
        BY <2>1
    <2>3. rows' = {cut(x) : x \in {y \in rows : y.id # call[r].id}} /\ UNCHANGED issued
        BY <1>4 DEF RemoveRow
    <2> HIDE DEF cut
    <2> QED
        BY <2>2, <2>3 DEF Rowed, RowsStep
<1>5. CASE TeamStep
    BY <1>1, <1>5 DEF TeamStep
<1>6. CASE UNCHANGED <<rows, issued>>
    BY <1>1, <1>6
<1> QED
    BY <1>2, <1>3, <1>4, <1>5, <1>6 DEF Next, RequestStep, Start, Check, QueryFails, ReadStages,
        ReadExpenses, AnswerSummary, vars

------------------------------------------------------------------------------
(* What a check has found out stays true. *)

(* Whatever row has this id, it is of that kind and in that project. *)
About(id, kind, p) == /\ id \in issued
                      /\ \A x \in rows : x.id = id => x.kind = kind /\ x.project = p

RowVetted(c, s) == c.id \in RowIds /\ "row" \notin Owed(s) => About(c.id, c.kind, c.project)
StageVetted(c, s) ==
    c.stage \in RowIds /\ "stage" \notin Owed(s) => About(c.stage, "stage", c.project)
Vetted == \A r \in Requests :
             call[r] \in Inputs => RowVetted(call[r], todo[r]) /\ StageVetted(call[r], todo[r])

LEMMA HasAbout ==
    ASSUME Rowed, NEW id, NEW kind, NEW p, Has(id, kind, p)
    PROVE  About(id, kind, p)
BY DEF Rowed, Has, About

LEMMA AboutStays ==
    ASSUME RowsStep, NEW id, NEW kind, NEW p, About(id, kind, p)
    PROVE  About(id, kind, p)'
BY DEF RowsStep, About

LEMMA VettedInit == Init => Vetted
<1> SUFFICES ASSUME Init, NEW r \in Requests, call[r] \in Inputs PROVE FALSE
    BY DEF Vetted
<1> QED
    BY InputShape DEF Init, NoCall

LEMMA VettedStep == Called /\ Rowed /\ Vetted /\ [Next]_vars => Vetted'
<1> SUFFICES ASSUME Called, Rowed, Vetted, [Next]_vars,
                    NEW q \in Requests, call'[q] \in Inputs
             PROVE  RowVetted(call[q], todo[q])' /\ StageVetted(call[q], todo[q])'
    BY DEF Vetted
<1>0. RowsStep
    BY RowedStep
<1>1. CASE call'[q] = call[q] /\ todo'[q] = todo[q]
    BY <1>0, <1>1, AboutStays DEF Vetted, RowVetted, StageVetted, Owed
<1>2. ASSUME Advances(q), UNCHANGED <<rows, issued>>
      PROVE  RowVetted(call[q], todo[q])' /\ StageVetted(call[q], todo[q])'
    <2> DEFINE c == call[q]
    <2>1. /\ Owed(todo[q]) \subseteq {Head(todo[q])} \cup Owed(Tail(todo[q]))
          /\ todo'[q] = Tail(todo[q])
        BY <1>2, OwedTail DEF Advances, Called
    <2>2. Owed(todo[q])' = Owed(Tail(todo[q]))
        BY <2>1 DEF Owed
    <2>3. /\ Head(todo[q]) = "row" => About(c.id, c.kind, c.project)
          /\ Head(todo[q]) = "stage" => About(c.stage, "stage", c.project)
        BY <1>2, HasAbout DEF Advances, Passes
    <2>4. call' = call /\ RowVetted(c, todo[q]) /\ StageVetted(c, todo[q])
        BY <1>2 DEF Advances, Vetted
    <2>5. /\ About(c.id, c.kind, c.project) => About(c.id, c.kind, c.project)'
          /\ About(c.stage, "stage", c.project) => About(c.stage, "stage", c.project)'
        BY <1>0, <2>4, AboutStays
    <2> QED
        BY <2>1, <2>2, <2>3, <2>4, <2>5 DEF RowVetted, StageVetted
<1>3. ASSUME NEW c \in Inputs, Begins(q, c)
      PROVE  RowVetted(call[q], todo[q])' /\ StageVetted(call[q], todo[q])'
    <2>1. call'[q] = c /\ todo'[q] = Checks(c)
        BY <1>3 DEF Begins, Called
    <2>2. Owed(todo[q])' = Owed(Checks(c))
        BY <2>1 DEF Owed
    <2> QED
        BY <2>1, <2>2, ChecksComplete, InputShape DEF RowVetted, StageVetted
<1>4. CASE Ends(q)
    <2>1. call'[q] = NoCall
        BY <1>4 DEF Ends, Called
    <2> QED
        BY <2>1, InputShape DEF NoCall
<1>5. ASSUME NEW r \in Requests, r # q, Advances(r) \/ (\E c \in Inputs : Begins(r, c)) \/ Ends(r)
      PROVE  call'[q] = call[q] /\ todo'[q] = todo[q]
    BY <1>5 DEF Advances, Begins, Ends, Called
<1> QED
    BY <1>1, <1>2, <1>3, <1>4, <1>5, RequestSteps

------------------------------------------------------------------------------
(* Every row refers to its own project, and writes stay inside it. *)

(* What a handler knows of the rows it names once nothing is left to check. *)
LEMMA Cleared ==
    ASSUME Called, Vetted, NEW r \in Requests, call[r] \in Inputs, todo[r] = <<>>
    PROVE  /\ call[r].id \in RowIds => About(call[r].id, call[r].kind, call[r].project)
           /\ call[r].stage \in RowIds => About(call[r].stage, "stage", call[r].project)
<1>1. Owed(todo[r]) = {}
    BY DEF Owed
<1> QED
    BY <1>1 DEF Vetted, RowVetted, StageVetted

Grounded(x) == /\ Live(x.project)
               /\ x.stage # NoOne => Has(x.stage, "stage", x.project)
AllGrounded == \A x \in rows : Grounded(x)

(* The two ways a write rebuilds the table: every row is kept with its id,  *)
(* kind and project, or those of one id go and no row refers to it.         *)
LEMMA UpdateShape ==
    ASSUME Called, Rowed, NEW r \in Requests, UpdateRow(r)
    PROVE  \/ UNCHANGED rows
           \/ \E f \in [rows -> Row] :
                 /\ rows' = {f[x] : x \in rows}
                 /\ \A x \in rows :
                       /\ f[x].id = x.id /\ f[x].kind = x.kind /\ f[x].project = x.project
                       /\ \/ f[x].stage = x.stage
                          \/ f[x].stage = NoOne
                          \/ /\ x.id = call[r].id
                             /\ f[x].stage = call[r].stage /\ StageExists(call[r].stage)
<1> DEFINE c == call[r]
           new(x) == [x EXCEPT !.stage = IF c.stage = Undefined THEN @ ELSE c.stage,
                               !.amount = IF c.amount = Undefined THEN @ ELSE c.amount]
           g == [x \in rows |-> IF x.id = c.id THEN new(x) ELSE x]
<1>1. c \in Inputs /\ c.op = "update"
    BY Writers DEF UpdateRow, Checked
<1>2. c.stage \in RowIds \cup {NoOne, Undefined} /\ c.amount \in Nat \cup {Undefined}
    BY <1>1, InputShape DEF Call
<1>3. CASE rows' = {IF x.id = c.id THEN new(x) ELSE x : x \in rows}
           /\ (c.stage \in {NoOne, Undefined} \/ StageExists(c.stage))
    <2>1. ASSUME NEW x \in Row
          PROVE  /\ new(x) \in Row /\ new(x).id = x.id
                 /\ new(x).kind = x.kind /\ new(x).project = x.project
                 /\ new(x).stage = IF c.stage = Undefined THEN x.stage ELSE c.stage
        <3> HIDE DEF c
        <3> QED
            BY <1>2 DEF Row
    <2> HIDE DEF c, new
    <2>2. g \in [rows -> Row] /\ rows' = {g[x] : x \in rows}
        BY <1>3, <2>1 DEF Rowed
    <2>3. ASSUME NEW x \in rows
          PROVE  /\ g[x].id = x.id /\ g[x].kind = x.kind /\ g[x].project = x.project
                 /\ \/ g[x].stage = x.stage
                    \/ g[x].stage = NoOne
                    \/ x.id = c.id /\ g[x].stage = c.stage /\ StageExists(c.stage)
        <3>1. x \in Row
            BY DEF Rowed
        <3>2. g[x] = IF x.id = c.id THEN new(x) ELSE x
            OBVIOUS
        <3> QED
            BY <1>3, <2>1, <3>1, <3>2
    <2> QED
        BY <2>2, <2>3 DEF c
<1> QED
    BY <1>3 DEF UpdateRow

LEMMA RemoveShape ==
    ASSUME Called, Rowed, NEW r \in Requests, RemoveRow(r)
    PROVE  LET id == call[r].id
           IN  \E f \in [{x \in rows : x.id # id} -> Row] :
                 /\ rows' = {f[x] : x \in {y \in rows : y.id # id}}
                 /\ \A x \in rows : x.id # id =>
                       /\ f[x].id = x.id /\ f[x].kind = x.kind /\ f[x].project = x.project
                       /\ f[x].stage = IF x.stage = id THEN NoOne ELSE x.stage
<1> DEFINE id == call[r].id
           left == {y \in rows : y.id # id}
           cut(x) == IF x.stage = id THEN [x EXCEPT !.stage = NoOne] ELSE x
           g == [x \in left |-> cut(x)]
<1>1. ASSUME NEW x \in Row
      PROVE  LET n == [x EXCEPT !.stage = NoOne]
             IN  /\ n \in Row /\ n.id = x.id /\ n.kind = x.kind /\ n.project = x.project
                 /\ n.stage = NoOne
    BY DEF Row
<1>2. ASSUME NEW x \in Row
      PROVE  /\ cut(x) \in Row /\ cut(x).id = x.id
             /\ cut(x).kind = x.kind /\ cut(x).project = x.project
             /\ cut(x).stage = IF x.stage = id THEN NoOne ELSE x.stage
    BY <1>1
<1>3. rows' = {cut(x) : x \in left}
    BY DEF RemoveRow
<1> HIDE DEF cut, id
<1>4. g \in [left -> Row] /\ rows' = {g[x] : x \in left}
    BY <1>2, <1>3 DEF Rowed
<1>5. ASSUME NEW x \in rows, x.id # id
      PROVE  /\ g[x].id = x.id /\ g[x].kind = x.kind /\ g[x].project = x.project
             /\ g[x].stage = IF x.stage = id THEN NoOne ELSE x.stage
    <2>1. x \in Row /\ g[x] = cut(x)
        BY <1>5 DEF Rowed
    <2> QED
        BY <1>2, <2>1
<1> QED
    BY <1>4, <1>5 DEF id

LEMMA GroundedStep ==
    Called /\ Rowed /\ Vetted /\ AllGrounded /\ [Next]_vars => AllGrounded'
<1> SUFFICES ASSUME Called, Rowed, Vetted, AllGrounded, [Next]_vars PROVE AllGrounded'
    OBVIOUS
<1>1. CASE UNCHANGED <<rows, owner>>
    BY <1>1 DEF AllGrounded, Grounded, Live, Has
<1>2. CASE TeamStep
    BY <1>2 DEF TeamStep, AllGrounded, Grounded, Live, Has
<1>3. ASSUME NEW r \in Requests, CreateRow(r), UNCHANGED owner PROVE AllGrounded'
    <2> DEFINE c == call[r]
    <2>1. ASSUME NEW id \in RowIds \ issued, Live(c.project),
                 c.stage = NoOne \/ StageExists(c.stage),
                 rows' = rows \cup {[id |-> id, kind |-> c.kind, project |-> c.project,
                                     stage |-> c.stage, amount |-> c.amount]}
          PROVE  AllGrounded'
        <3>1. c \in Inputs /\ c.op = "create" /\ todo[r] = <<>>
            BY <1>3, Writers DEF CreateRow, Checked
        <3>2. c.stage = NoOne \/ c.stage \in RowIds
            BY <3>1, InputShape
        <3>3. c.stage # NoOne => Has(c.stage, "stage", c.project)
            BY <2>1, <3>1, <3>2, Cleared DEF StageExists, About, Has
        <3>4. \A i, k, p : Has(i, k, p) => Has(i, k, p)'
            BY <2>1 DEF Has
        <3>5. \A p : Live(p)' = Live(p)
            BY <1>3 DEF Live
        <3> HIDE DEF c
        <3> QED
            BY <2>1, <3>3, <3>4, <3>5 DEF AllGrounded, Grounded
    <2> QED
        BY <1>1, <1>3, <2>1 DEF CreateRow
<1>4. ASSUME NEW r \in Requests, UpdateRow(r), UNCHANGED owner PROVE AllGrounded'
    <2> DEFINE c == call[r]
    <2>1. ASSUME NEW f \in [rows -> Row], rows' = {f[x] : x \in rows},
                 \A x \in rows :
                       /\ f[x].id = x.id /\ f[x].kind = x.kind /\ f[x].project = x.project
                       /\ \/ f[x].stage = x.stage
                          \/ f[x].stage = NoOne
                          \/ x.id = c.id /\ f[x].stage = c.stage /\ StageExists(c.stage)
          PROVE  AllGrounded'
        <3>1. c \in Inputs /\ c.op = "update" /\ todo[r] = <<>>
            BY <1>4, Writers DEF UpdateRow, Checked
        <3>2. About(c.id, c.kind, c.project) /\ c.id \in RowIds
            BY <3>1, InputShape, Cleared
        <3>3. StageExists(c.stage) => Has(c.stage, "stage", c.project)
            <4>1. ASSUME NEW y \in rows, y.id = c.stage, y.kind = "stage"
                  PROVE  Has(c.stage, "stage", c.project)
                <5>1. c.stage \in RowIds
                    BY <4>1 DEF Rowed
                <5> QED
                    BY <3>1, <4>1, <5>1, Cleared DEF About, Has
            <4> QED
                BY <4>1 DEF StageExists
        <3>4. \A i, k, p : Has(i, k, p) => Has(i, k, p)'
            BY <2>1 DEF Has
        <3>5. \A p : Live(p)' = Live(p)
            BY <1>4 DEF Live
        <3> HIDE DEF c
        <3>6. ASSUME NEW x \in rows PROVE Grounded(f[x])'
            <4>1. Live(f[x].project)'
                BY <2>1, <3>5 DEF AllGrounded, Grounded
            <4>2. ASSUME f[x].stage # NoOne PROVE Has(f[x].stage, "stage", f[x].project)
                <5>1. CASE f[x].stage = x.stage
                    BY <2>1, <4>2, <5>1 DEF AllGrounded, Grounded
                <5>2. CASE x.id = c.id /\ f[x].stage = c.stage /\ StageExists(c.stage)
                    BY <2>1, <3>2, <3>3, <5>2 DEF About
                <5> QED
                    BY <2>1, <4>2, <5>1, <5>2
            <4> QED
                BY <3>4, <4>1, <4>2 DEF Grounded
        <3> QED
            BY <2>1, <3>6 DEF AllGrounded
    <2> QED
        BY <1>1, <1>4, <2>1, UpdateShape
<1>5. ASSUME NEW r \in Requests, RemoveRow(r), UNCHANGED owner PROVE AllGrounded'
    <2> DEFINE id == call[r].id
               left == {y \in rows : y.id # id}
    <2>1. PICK f \in [left -> Row] :
                 /\ rows' = {f[x] : x \in left}
                 /\ \A x \in rows : x.id # id =>
                       /\ f[x].id = x.id /\ f[x].kind = x.kind /\ f[x].project = x.project
                       /\ f[x].stage = IF x.stage = id THEN NoOne ELSE x.stage
        BY <1>5, RemoveShape
    <2> HIDE DEF id
    <2>2. \A i, k, p : i # id /\ Has(i, k, p) => Has(i, k, p)'
        BY <2>1 DEF Has
    <2>3. \A p : Live(p)' = Live(p)
        BY <1>5 DEF Live
    <2>4. ASSUME NEW x \in left PROVE Grounded(f[x])'
        BY <2>1, <2>2, <2>3 DEF AllGrounded, Grounded
    <2> QED
        BY <2>1, <2>4 DEF AllGrounded
<1> QED
    BY <1>1, <1>2, <1>3, <1>4, <1>5 DEF Next, RequestStep, Start, Check, QueryFails, ReadStages,
        ReadExpenses, AnswerSummary, vars, teamVars

------------------------------------------------------------------------------
(* Types of the team, of what getSummary has read, and of its history. *)

Reading == [stages : SUBSET Row, expenses : SUBSET Row, read : SUBSET {"stages", "expenses"}]
Typed == /\ owner \in [ProjectIds -> Users \cup {NoOne}]
         /\ editors \in [ProjectIds -> SUBSET Users]
         /\ founded \subseteq ProjectIds
         /\ seen \in [Requests -> Reading]
         /\ moved \in [Requests -> BOOLEAN]

LEMMA TypedInit == Init => Typed
BY DEF Init, TeamInit, Typed, Reading, NothingSeen

LEMMA TypedStep == Rowed /\ Typed /\ [Next]_vars => Typed'
<1> SUFFICES ASSUME Rowed, Typed, [Next]_vars PROVE Typed'
    OBVIOUS
<1>1. /\ owner' \in [ProjectIds -> Users \cup {NoOne}]
      /\ editors' \in [ProjectIds -> SUBSET Users]
      /\ founded' \subseteq ProjectIds
    <2>1. CASE TeamNext
        BY <2>1 DEF TeamNext, Found, Dissolve, Admit, Expel, Typed
    <2>2. CASE UNCHANGED teamVars
        BY <2>2 DEF teamVars, Typed
    <2> QED
        BY <2>1, <2>2 DEF Next, TeamStep, vars
<1>2. seen' \in [Requests -> Reading]
    <2>1. CASE UNCHANGED seen
        BY <2>1 DEF Typed
    <2>2. ASSUME NEW r \in Requests, seen' = [seen EXCEPT ![r] = NothingSeen]
          PROVE  seen' \in [Requests -> Reading]
        BY <2>2 DEF Typed, NothingSeen, Reading
    <2>3. \A kind, p : RowsOf(kind, p) \subseteq Row
        BY DEF RowsOf, Rowed
    <2>4. ASSUME NEW r \in Requests, ReadStages(r) PROVE seen' \in [Requests -> Reading]
        <3>1. seen[r] \in Reading
            BY DEF Typed
        <3>2. [seen[r] EXCEPT !.stages = RowsOf("stage", call[r].project),
                              !.read = @ \cup {"stages"}] \in Reading
            BY <2>3, <3>1 DEF Reading
        <3> QED
            BY <2>4, <3>2 DEF Typed, ReadStages
    <2>5. ASSUME NEW r \in Requests, ReadExpenses(r) PROVE seen' \in [Requests -> Reading]
        <3>1. seen[r] \in Reading
            BY DEF Typed
        <3>2. [seen[r] EXCEPT !.expenses = RowsOf("expense", call[r].project),
                              !.read = @ \cup {"expenses"}] \in Reading
            BY <2>3, <3>1 DEF Reading
        <3> QED
            BY <2>5, <3>2 DEF Typed, ReadExpenses
    <2> QED
        BY <2>1, <2>2, <2>4, <2>5 DEF Next, TeamStep, RequestStep, Start, Check, QueryFails,
            CreateRow, UpdateRow, RemoveRow, AnswerSummary, Finish, handler, vars
<1>3. moved' \in [Requests -> BOOLEAN]
    BY DEF Next, Observe, Typed, vars
<1> QED
    BY <1>1, <1>2, <1>3 DEF Typed

------------------------------------------------------------------------------
(* Sums over finite sets. *)

(* Induction over the subsets of a finite set, in terms of the set of those *)
(* that are good.                                                           *)
LEMMA SubsetInduction ==
    ASSUME NEW S, IsFiniteSet(S), NEW Good,
           \A T \in SUBSET S : (\A U \in SUBSET T : U # T => U \in Good) => T \in Good
    PROVE  \A T \in SUBSET S : T \in Good
<1> DEFINE Bad == {T \in SUBSET S : T \notin Good}
<1> SUFFICES ASSUME Bad # {} PROVE FALSE
    OBVIOUS
<1>1. IsWellFoundedOn(StrictSubsetOrdering(S), SUBSET S)
    <2>1. FiniteSubsetsOf(S) = SUBSET S
        BY FS_FiniteSubsetsOfFinite
    <2>2. IsWellFoundedOn(StrictSubsetOrdering(S), FiniteSubsetsOf(S))
        BY FS_StrictSubsetOrderingWellFounded
    <2> QED
        BY <2>1, <2>2
<1>2. PICK T \in Bad : \A U \in Bad : ~(<<U, T>> \in StrictSubsetOrdering(S))
    <2>1. Bad \subseteq SUBSET S
        OBVIOUS
    <2> HIDE DEF Bad
    <2> QED
        BY <1>1, <2>1, WFMin
<1>3. \A U \in SUBSET T : U # T => U \in Good
    BY <1>2 DEF StrictSubsetOrdering
<1> QED
    BY <1>2, <1>3


(* MapThenSumSet is defined by a recursive function on the subsets, which   *)
(* takes one element out at a time.  Adds says that g obeys this recursion, *)
(* w giving the summands.                                                   *)
Picked(s) == CHOOSE x \in s : TRUE
Adds(S, w, g) == \A s \in SUBSET S :
    g[s] = IF s = {} THEN 0 ELSE w[Picked(s)] + g[s \ {Picked(s)}]

LEMMA PickedIn == ASSUME NEW s, s # {} PROVE Picked(s) \in s
BY DEF Picked

(* Any two functions that obey the recursion agree on every subset, *)
LEMMA AddsUnique ==
    ASSUME NEW S, IsFiniteSet(S), NEW w, NEW g, NEW h, Adds(S, w, g), Adds(S, w, h)
    PROVE  \A s \in SUBSET S : g[s] = h[s]
<1> DEFINE Good == {s \in SUBSET S : g[s] = h[s]}
<1>1. ASSUME NEW T \in SUBSET S, \A U \in SUBSET T : U # T => U \in Good
      PROVE  T \in Good
    <2>1. CASE T = {}
        BY <2>1 DEF Adds
    <2>2. CASE T # {}
        <3>1. Picked(T) \in T
            BY <2>2, PickedIn
        <3>2. g[T \ {Picked(T)}] = h[T \ {Picked(T)}]
            BY <1>1, <3>1
        <3> QED
            BY <2>2, <3>2 DEF Adds
    <2> QED
        BY <2>1, <2>2
<1> HIDE DEF Good
<1>2. \A T \in SUBSET S : T \in Good
    BY <1>1, SubsetInduction
<1> QED
    BY <1>2 DEF Good

(* and there is one: it gives a set what the function for the rest of the    *)
(* set, which exists by induction, gives that rest.                         *)
LEMMA AddsExists ==
    ASSUME NEW S, IsFiniteSet(S), NEW w \in [S -> Nat]
    PROVE  \E g \in [SUBSET S -> Nat] : Adds(S, w, g)
<1> DEFINE Good == {T \in SUBSET S : \E g \in [SUBSET T -> Nat] : Adds(T, w, g)}
<1>1. ASSUME NEW T \in SUBSET S, \A U \in SUBSET T : U # T => U \in Good
      PROVE  T \in Good
    <2>1. PICK H : \A U \in SUBSET T : U # T =>
                      H[U] \in [SUBSET U -> Nat] /\ Adds(U, w, H[U])
        <3> DEFINE F == [U \in SUBSET T |->
                            CHOOSE g : g \in [SUBSET U -> Nat] /\ Adds(U, w, g)]
        <3>1. ASSUME NEW U \in SUBSET T, U # T
              PROVE  F[U] \in [SUBSET U -> Nat] /\ Adds(U, w, F[U])
            <4>1. \E g : g \in [SUBSET U -> Nat] /\ Adds(U, w, g)
                BY <1>1, <3>1
            <4>2. F[U] = CHOOSE g : g \in [SUBSET U -> Nat] /\ Adds(U, w, g)
                OBVIOUS
            <4> QED
                BY <4>1, <4>2
        <3> QED
            BY <3>1
    <2> DEFINE h == [s \in SUBSET T |->
                       IF s = {} THEN 0
                       ELSE w[Picked(s)] + H[s \ {Picked(s)}][s \ {Picked(s)}]]
    <2>2. ASSUME NEW s \in SUBSET T, s # {}
          PROVE  /\ Picked(s) \in s /\ s \ {Picked(s)} \in SUBSET T
                 /\ s \ {Picked(s)} # T
                 /\ H[s \ {Picked(s)}][s \ {Picked(s)}] \in Nat
        <3>1. Picked(s) \in s
            BY <2>2, PickedIn
        <3>2. s \ {Picked(s)} \in SUBSET T /\ s \ {Picked(s)} # T
            BY <3>1
        <3> QED
            BY <2>1, <3>1, <3>2
    <2>3. h \in [SUBSET T -> Nat]
        <3>1. \A s \in SUBSET T : s # {} => w[Picked(s)] \in Nat
            BY <2>2
        <3> QED
            BY <2>2, <3>1
    <2>4. ASSUME NEW s \in SUBSET T, s # T PROVE h[s] = H[s][s]
        <3>1. CASE s = {}
            BY <2>1, <2>4, <3>1 DEF Adds
        <3>2. CASE s # {}
            <4> DEFINE U == s \ {Picked(s)}
            <4>1. /\ H[s][s] = w[Picked(s)] + H[s][U]
                BY <2>1, <2>4, <3>2 DEF Adds
            <4>2. U \in SUBSET s /\ U \in SUBSET T /\ U # T
                BY <2>2, <3>2
            <4>3. Adds(U, w, H[U]) /\ Adds(U, w, H[s])
                BY <2>1, <2>4, <4>2 DEF Adds
            <4>4. IsFiniteSet(U)
                BY <4>2, FS_Subset
            <4>5. H[U][U] = H[s][U]
                <5> HIDE DEF U
                <5> QED
                    BY <4>3, <4>4, AddsUnique
            <4> QED
                BY <3>2, <4>1, <4>5
        <3> QED
            BY <3>1, <3>2
    <2>5. ASSUME NEW s \in SUBSET T, s # {}
          PROVE  h[s] = w[Picked(s)] + h[s \ {Picked(s)}]
        <3> DEFINE U == s \ {Picked(s)}
        <3>1. h[s] = w[Picked(s)] + H[U][U]
            BY <2>5
        <3>2. U \in SUBSET T /\ U # T
            BY <2>2, <2>5
        <3>3. h[U] = H[U][U]
            <4> HIDE DEF U, h
            <4> QED
                BY <2>4, <3>2
        <3> QED
            BY <3>1, <3>3
    <2>6. Adds(T, w, h)
        BY <2>5 DEF Adds
    <2> QED
        BY <2>3, <2>6
<1> HIDE DEF Good
<1>2. \A T \in SUBSET S : T \in Good
    BY <1>1, SubsetInduction
<1> QED
    BY <1>2 DEF Good

Sums(S, w, g) == /\ IsFiniteSet(S)
                 /\ w \in [S -> Nat]
                 /\ g \in [SUBSET S -> Nat]
                 /\ Adds(S, w, g)

(* Such a function may take any element out first, *)
LEMMA AddsAny ==
    ASSUME NEW S, NEW w, NEW g, Sums(S, w, g)
    PROVE  \A T \in SUBSET S : \A x \in T : g[T] = w[x] + g[T \ {x}]
<1> DEFINE Good == {T \in SUBSET S : \A x \in T : g[T] = w[x] + g[T \ {x}]}
<1>1. ASSUME NEW T \in SUBSET S, \A U \in SUBSET T : U # T => U \in Good
      PROVE  T \in Good
    <2> SUFFICES ASSUME NEW x \in T PROVE g[T] = w[x] + g[T \ {x}]
        OBVIOUS
    <2> DEFINE p == Picked(T)
    <2>1. p \in T /\ g[T] = w[p] + g[T \ {p}]
        BY PickedIn DEF Sums, Adds
    <2> HIDE DEF p
    <2>2. CASE x = p
        BY <2>1, <2>2
    <2>3. CASE x # p
        <3>1. g[T \ {p}] = w[x] + g[(T \ {p}) \ {x}]
            BY <1>1, <2>1, <2>3
        <3>2. g[T \ {x}] = w[p] + g[(T \ {x}) \ {p}]
            BY <1>1, <2>1, <2>3
        <3>3. (T \ {p}) \ {x} = (T \ {x}) \ {p} /\ (T \ {x}) \ {p} \in SUBSET S
            OBVIOUS
        <3> DEFINE rest == g[(T \ {x}) \ {p}]
        <3>4. w[x] \in Nat /\ w[p] \in Nat /\ rest \in Nat
            BY <2>1, <3>3 DEF Sums
        <3>5. g[T] = w[p] + (w[x] + rest) /\ g[T \ {x}] = w[p] + rest
            BY <2>1, <3>1, <3>2, <3>3
        <3> HIDE DEF rest
        <3> QED
            BY <3>4, <3>5
    <2> QED
        BY <2>2, <2>3
<1> HIDE DEF Good
<1>2. \A T \in SUBSET S : T \in Good
    BY <1>1, SubsetInduction DEF Sums
<1> QED
    BY <1>2 DEF Good

(* and adds up over disjoint sets. *)
LEMMA AddsDisjoint ==
    ASSUME NEW S, NEW w, NEW g, Sums(S, w, g),
           NEW A \in SUBSET S, NEW B \in SUBSET S, A \cap B = {}
    PROVE  g[A \cup B] = g[A] + g[B]
<1> DEFINE Good == {T \in SUBSET B : g[A \cup T] = g[A] + g[T]}
<1>0. ASSUME NEW T \in SUBSET S, NEW x \in T PROVE g[T] = w[x] + g[T \ {x}]
    BY AddsAny
<1>1. ASSUME NEW T \in SUBSET B, \A U \in SUBSET T : U # T => U \in Good
      PROVE  T \in Good
    <2>1. CASE T = {}
        <3>1. g[{}] = 0 /\ A \cup {} = A /\ g[A] \in Nat
            BY DEF Sums, Adds
        <3> QED
            BY <2>1, <3>1
    <2>2. CASE T # {}
        <3>1. PICK x \in T : TRUE
            BY <2>2
        <3>2. g[T] = w[x] + g[T \ {x}]
            BY <1>0
        <3>3. g[A \cup T] = w[x] + g[(A \cup T) \ {x}]
            <4>1. A \cup T \in SUBSET S /\ x \in A \cup T
                OBVIOUS
            <4> QED
                BY <1>0, <4>1
        <3>4. (A \cup T) \ {x} = A \cup (T \ {x})
            OBVIOUS
        <3>5. g[A \cup (T \ {x})] = g[A] + g[T \ {x}]
            BY <1>1
        <3> DEFINE rest == g[T \ {x}]
        <3>6. w[x] \in Nat /\ g[A] \in Nat /\ rest \in Nat
            BY DEF Sums
        <3>7. g[A \cup T] = w[x] + (g[A] + rest) /\ g[T] = w[x] + rest
            BY <3>2, <3>3, <3>4, <3>5
        <3> HIDE DEF rest
        <3>8. g[A \cup T] = g[A] + g[T]
            BY <3>6, <3>7
        <3> QED
            BY <3>8
    <2> QED
        BY <2>1, <2>2
<1> HIDE DEF Good
<1>2. IsFiniteSet(B)
    BY FS_Subset DEF Sums
<1>3. \A T \in SUBSET B : T \in Good
    BY <1>1, <1>2, SubsetInduction
<1> QED
    BY <1>3 DEF Good

(* The two sums of a summary are values of such functions: CHOOSE finds one, *)
(* for there is one.                                                        *)
LEMMA SpentAdds ==
    ASSUME NEW S \in SUBSET Row, IsFiniteSet(S), NEW g, Adds(S, [x \in S |-> x.amount], g)
    PROVE  Spent(S) = g[S]
<1> DEFINE w == [x \in S |-> x.amount]
           Rec(f) == f = [s \in SUBSET S |->
                             IF s = {} THEN 0
                             ELSE LET x == CHOOSE x \in s : TRUE
                                  IN  x.amount + f[s \ {x}]]
           iter == CHOOSE f : Rec(f)
<1>1. Spent(S) = iter[S]
    BY DEF Spent, MapThenSumSet, MapThenFoldSet
<1>2. \A s \in SUBSET S : s # {} => w[Picked(s)] = Picked(s).amount
    BY PickedIn
<1>3. w \in [S -> Nat]
    BY DEF Row
<1>4. PICK h \in [SUBSET S -> Nat] : Adds(S, w, h)
    <2> HIDE DEF w
    <2> QED
        BY <1>3, AddsExists
<1>5. Rec(h)
    <2>1. \A s \in SUBSET S : h[s] = IF s = {} THEN 0
                                     ELSE Picked(s).amount + h[s \ {Picked(s)}]
        BY <1>2, <1>4 DEF Adds
    <2>2. h = [s \in SUBSET S |-> IF s = {} THEN 0
                                  ELSE Picked(s).amount + h[s \ {Picked(s)}]]
        BY <2>1
    <2> QED
        BY <2>2 DEF Picked
<1>6. Rec(iter)
    <2> HIDE DEF Rec
    <2> QED
        BY <1>5
<1>7. Adds(S, w, iter)
    <2> HIDE DEF iter
    <2> QED
        BY <1>2, <1>6 DEF Adds, Picked
<1>8. iter[S] = g[S]
    <2> HIDE DEF iter, w
    <2> QED
        BY <1>7, AddsUnique DEF w
<1> QED
    BY <1>1, <1>8

LEMMA StagesAdd ==
    ASSUME NEW s, IsFiniteSet(s.stages), \A st \in s.stages : StageSpent(s, st) \in Nat,
           NEW g, Adds(s.stages, [st \in s.stages |-> StageSpent(s, st)], g)
    PROVE  AllStagesSpent(s) = g[s.stages]
<1> DEFINE S == s.stages
           w == [st \in S |-> StageSpent(s, st)]
           Rec(f) == f = [u \in SUBSET S |->
                             IF u = {} THEN 0
                             ELSE LET x == CHOOSE x \in u : TRUE
                                  IN  StageSpent(s, x) + f[u \ {x}]]
           iter == CHOOSE f : Rec(f)
<1>1. AllStagesSpent(s) = iter[S]
    BY DEF AllStagesSpent, MapThenSumSet, MapThenFoldSet
<1>2. \A u \in SUBSET S : u # {} => w[Picked(u)] = StageSpent(s, Picked(u))
    BY PickedIn
<1>3. w \in [S -> Nat]
    OBVIOUS
<1>4. PICK h \in [SUBSET S -> Nat] : Adds(S, w, h)
    <2> HIDE DEF w
    <2> QED
        BY <1>3, AddsExists
<1>5. Rec(h)
    <2>1. \A u \in SUBSET S : h[u] = IF u = {} THEN 0
                                     ELSE StageSpent(s, Picked(u)) + h[u \ {Picked(u)}]
        BY <1>2, <1>4 DEF Adds
    <2>2. h = [u \in SUBSET S |-> IF u = {} THEN 0
                                  ELSE StageSpent(s, Picked(u)) + h[u \ {Picked(u)}]]
        BY <2>1
    <2> QED
        BY <2>2 DEF Picked
<1>6. Rec(iter)
    <2> HIDE DEF Rec
    <2> QED
        BY <1>5
<1>7. Adds(S, w, iter)
    <2> HIDE DEF iter
    <2> QED
        BY <1>2, <1>6 DEF Adds, Picked
<1>8. iter[S] = g[S]
    <2> HIDE DEF iter, w
    <2> QED
        BY <1>7, AddsUnique DEF w
<1> QED
    BY <1>1, <1>8

(* Every expense a summary has read is under no stage or under one it has   *)
(* read, and its stages have distinct ids.                                  *)
Accounted(s) ==
    /\ \A x \in s.expenses : x.stage = NoOne \/ \E st \in s.stages : x.stage = st.id
    /\ \A st, o \in s.stages : st.id = o.id => st = o

(* Then each expense is in one of the parts, and in no other. *)
LEMMA AccountedAddsUp ==
    ASSUME NEW s, s.stages \in SUBSET Row, s.expenses \in SUBSET Row,
           IsFiniteSet(s.stages), IsFiniteSet(s.expenses), Accounted(s)
    PROVE  AddsUp(s)
<1> DEFINE E == s.expenses
           S == s.stages
           w == [x \in E |-> x.amount]
           v == [st \in S |-> StageSpent(s, st)]
           Of(T) == {x \in E : \E st \in T : x.stage = st.id}
           Free == {x \in E : x.stage = NoOne}
<1>1. w \in [E -> Nat]
    BY DEF Row
<1>2. PICK g : Sums(E, w, g)
    <2> HIDE DEF w
    <2> QED
        BY <1>1, AddsExists DEF Sums
<1>3. ASSUME NEW T \in SUBSET E PROVE Spent(T) = g[T] /\ g[T] \in Nat
    <2>1. IsFiniteSet(T) /\ T \in SUBSET Row
        BY FS_Subset
    <2>2. \A u \in SUBSET T : u # {} => Picked(u) \in T
        BY PickedIn
    <2>3. Adds(T, [x \in T |-> x.amount], g)
        BY <1>2, <2>2 DEF Sums, Adds
    <2> QED
        BY <1>2, <2>1, <2>3, SpentAdds DEF Sums
<1>4. \A st \in S : StageSpent(s, st) = g[Of({st})] /\ StageSpent(s, st) \in Nat
    <2> SUFFICES ASSUME NEW st \in S
                 PROVE  StageSpent(s, st) = g[Of({st})] /\ StageSpent(s, st) \in Nat
        OBVIOUS
    <2>1. Of({st}) = {x \in E : x.stage = st.id} /\ Of({st}) \in SUBSET E
        OBVIOUS
    <2> HIDE DEF Of
    <2> QED
        BY <1>3, <2>1 DEF StageSpent
<1>5. v \in [S -> Nat]
    BY <1>4
<1>6. PICK h : Sums(S, v, h)
    <2> HIDE DEF v
    <2> QED
        BY <1>5, AddsExists DEF Sums
<1>7. AllStagesSpent(s) = h[S]
    BY <1>4, <1>6, StagesAdd DEF Sums
<1>8. h[S] = g[Of(S)]
    <2> DEFINE Good == {T \in SUBSET S : h[T] = g[Of(T)]}
    <2>1. ASSUME NEW T \in SUBSET S, \A U \in SUBSET T : U # T => U \in Good
          PROVE  T \in Good
        <3>1. CASE T = {}
            <4>1. Of({}) = {} /\ h[{}] = 0 /\ g[{}] = 0
                BY <1>2, <1>6 DEF Sums, Adds
            <4> QED
                BY <3>1, <4>1
        <3>2. CASE T # {}
            <4>1. PICK st \in T : TRUE
                BY <3>2
            <4>2. h[T] = v[st] + h[T \ {st}]
                BY <1>6, AddsAny
            <4>3. h[T \ {st}] = g[Of(T \ {st})]
                BY <2>1
            <4>4. v[st] = g[Of({st})]
                BY <1>4
            <4> DEFINE A == Of({st})
                       B == Of(T \ {st})
            <4>5. A \cap B = {} /\ A \cup B = Of(T) /\ A \in SUBSET E /\ B \in SUBSET E
                BY DEF Accounted
            <4>6. g[Of(T)] = g[A] + g[B]
                <5> HIDE DEF A, B, Of, w, E
                <5>1. g[A \cup B] = g[A] + g[B]
                    BY <1>2, <4>5, AddsDisjoint
                <5> QED
                    BY <4>5, <5>1
            <4> QED
                BY <4>2, <4>3, <4>4, <4>6
        <3> QED
            BY <3>1, <3>2
    <2> HIDE DEF Good
    <2>2. \A T \in SUBSET S : T \in Good
        BY <2>1, SubsetInduction
    <2> QED
        BY <2>2 DEF Good
<1>9. g[E] = g[Of(S)] + g[Free]
    <2>1. \A st \in S : st.id # NoOne
        BY WorkspaceAssumption DEF Row
    <2>2. /\ Of(S) \cap Free = {} /\ Of(S) \cup Free = E
          /\ Of(S) \in SUBSET E /\ Free \in SUBSET E
        BY <2>1 DEF Accounted
    <2> HIDE DEF Of, Free, w, E
    <2>3. g[Of(S) \cup Free] = g[Of(S)] + g[Free]
        BY <1>2, <2>2, AddsDisjoint
    <2> QED
        BY <2>2, <2>3
<1>10. TotalSpent(s) = g[E]
    BY <1>3 DEF TotalSpent
<1>11. UnassignedSpent(s) = g[Free]
    BY <1>3 DEF UnassignedSpent
<1> QED
    BY <1>7, <1>8, <1>9, <1>10, <1>11 DEF AddsUp

------------------------------------------------------------------------------
(* The theorems. *)

Inv == Called /\ Rowed /\ Vetted /\ AllGrounded

LEMMA InvHolds == Spec => []Inv
<1>1. Init => Inv
    BY CalledInit, RowedInit, VettedInit DEF Inv, Init, AllGrounded
<1>2. Inv /\ [Next]_vars => Inv'
    BY CalledStep, RowedStep, VettedStep, GroundedStep DEF Inv
<1> QED
    BY <1>1, <1>2, PTL DEF Spec

(* Every table and every request in flight keeps its type. *)
THEOREM Typing == Spec => []TypeOK
<1>1. Init => Typed
    BY TypedInit
<1>2. Inv /\ Typed /\ [Next]_vars => Typed'
    BY TypedStep DEF Inv
<1>3. Inv /\ Typed => TypeOK
    <2> SUFFICES ASSUME Inv, Typed PROVE TypeOK
        OBVIOUS
    <2>1. call \in [Requests -> Call \cup {NoCall}]
        <3>1. Inputs \subseteq Call
            BY DEF Inputs
        <3> QED
            BY <3>1 DEF Inv, Called
    <2>2. \A r \in Requests : /\ seen[r].stages \subseteq Row
                              /\ seen[r].expenses \subseteq Row
                              /\ seen[r].read \subseteq {"stages", "expenses"}
        BY DEF Typed, Reading
    <2> QED
        BY <2>1, <2>2 DEF Inv, Called, CheckNames, Rowed, Typed, TypeOK
<1> QED
    BY <1>1, <1>2, <1>3, InvHolds, PTL DEF Spec

(* However many requests run between its checks and its write, a handler    *)
(* leaves no row that names a stage of another project, or a stage or a     *)
(* project that is gone.                                                    *)
THEOREM ReferencesHold == Spec => []ReferencesIntact
<1>1. Inv => ReferencesIntact
    BY DEF Inv, Rowed, AllGrounded, Grounded, ReferencesIntact
<1> QED
    BY <1>1, InvHolds, PTL

(* A request that has run its checks writes only to rows of the project it  *)
(* has checked its caller's membership of.                                  *)
THEOREM WritesHold == Spec => []WritesStayInside
<1>1. Inv => WritesStayInside
    <2> SUFFICES ASSUME Inv, NEW r \in Requests, NEW x \in rows, Running(r), todo[r] = <<>>,
                        x.id = call[r].id \/ x.id = call[r].stage
                 PROVE  x.project = call[r].project
        BY DEF WritesStayInside
    <2>1. call[r] \in Inputs /\ x.id \in RowIds
        BY DEF Inv, Called, Rowed, Running
    <2> QED
        BY <2>1, Cleared DEF Inv, About
<1> QED
    BY <1>1, InvHolds, PTL

(* No write of another row, and no removal of a stage, takes an expense     *)
(* with it.                                                                 *)
THEOREM SpendingHolds == Spec => SpendingKept
<1> DEFINE Gone(x) == x.kind = "expense" /\ (\A y \in rows' : y.id # x.id)
           Asked(x) == \E r \in Requests : /\ call[r].op = "remove" /\ call[r].kind = "expense"
                                           /\ call[r].id = x.id
                                           /\ call'[r] = NoCall
<1>1. Inv /\ [Next]_vars =>
        \A x \in rows :
           x.kind = "expense" /\ (\A y \in rows' : y.id # x.id) =>
             \/ owner'[x.project] = NoOne
             \/ \E r \in Requests : /\ call[r].op = "remove" /\ call[r].kind = "expense"
                                    /\ call[r].id = x.id
                                    /\ call'[r] = NoCall
    <2> SUFFICES ASSUME Inv, [Next]_vars, NEW x \in rows, Gone(x)
                 PROVE  owner'[x.project] = NoOne \/ Asked(x)
        OBVIOUS
    <2>0. Called /\ Rowed /\ Vetted
        BY DEF Inv
    <2>1. x \notin rows'
        OBVIOUS
    <2>2. CASE TeamStep
        BY <2>1, <2>2 DEF TeamStep
    <2>3. ASSUME NEW r \in Requests, CreateRow(r) PROVE FALSE
        BY <2>1, <2>3 DEF CreateRow
    <2>4. ASSUME NEW r \in Requests, UpdateRow(r) PROVE FALSE
        BY <2>0, <2>1, <2>4, UpdateShape
    <2>5. ASSUME NEW r \in Requests, RemoveRow(r) PROVE Asked(x)
        <3>1. x.id = call[r].id
            <4>1. ASSUME x.id # call[r].id PROVE \E y \in rows' : y.id = x.id
                <5> DEFINE id == call[r].id
                <5>1. PICK f \in [{y \in rows : y.id # id} -> Row] :
                         /\ rows' = {f[y] : y \in {z \in rows : z.id # id}}
                         /\ \A y \in rows : y.id # id =>
                               /\ f[y].id = y.id /\ f[y].kind = y.kind
                               /\ f[y].project = y.project
                               /\ f[y].stage = IF y.stage = id THEN NoOne ELSE y.stage
                    BY <2>0, <2>5, RemoveShape
                <5>2. f[x] \in rows' /\ f[x].id = x.id
                    BY <4>1, <5>1
                <5> QED
                    BY <5>2
            <4> QED
                BY <4>1
        <3>2. call[r] \in Inputs /\ call[r].op = "remove" /\ todo[r] = <<>>
            BY <2>0, <2>5, Writers DEF RemoveRow, Checked
        <3>3. call[r].kind = "expense"
            BY <2>0, <3>1, <3>2, InputShape, Cleared DEF About
        <3>4. call'[r] = NoCall
            BY <2>0, <2>5 DEF RemoveRow, Finish, Called
        <3> QED
            BY <3>1, <3>2, <3>3, <3>4
    <2> QED
        BY <2>1, <2>2, <2>3, <2>4, <2>5 DEF Next, RequestStep, Start, Check, QueryFails,
            ReadStages, ReadExpenses, AnswerSummary, vars
<1> QED
    BY <1>1, InvHolds, PTL DEF Spec, SpendingKept

------------------------------------------------------------------------------
(* What a summary adds up. *)

(* What a summary that has seen no stage come or go has read.               *)
HalfRead(r) ==
    LET s == seen[r]
        p == call[r].project
    IN  /\ s.read = {"stages"} => s.stages = RowsOf("stage", p)
        /\ s.read = {"expenses"} =>
              \A x \in s.expenses : x.stage = NoOne \/ Has(x.stage, "stage", p)
        /\ s.read = {"stages", "expenses"} => Accounted(s)
SummaryRead(r) == /\ seen[r].read # {} => Running(r)
                  /\ IsFiniteSet(seen[r].stages) /\ IsFiniteSet(seen[r].expenses)
                  /\ ~moved[r] => HalfRead(r)
SummariesRead == \A r \in Requests : SummaryRead(r)

(* There are finitely many rows: a step adds one at most. *)
LEMMA FiniteStep == Called /\ Rowed /\ IsFiniteSet(rows) /\ [Next]_vars => IsFiniteSet(rows')
<1> SUFFICES ASSUME Called, Rowed, IsFiniteSet(rows), [Next]_vars PROVE IsFiniteSet(rows')
    OBVIOUS
<1>1. ASSUME rows' \subseteq rows PROVE IsFiniteSet(rows')
    BY <1>1, FS_Subset
<1>2. ASSUME NEW r \in Requests, CreateRow(r) PROVE IsFiniteSet(rows')
    <2>1. UNCHANGED rows \/ \E x : rows' = rows \cup {x}
        BY <1>2 DEF CreateRow
    <2> QED
        BY <1>1, <2>1, FS_AddElement
<1>3. ASSUME NEW S \in SUBSET rows, NEW f \in [S -> Row], rows' = {f[x] : x \in S}
      PROVE  IsFiniteSet(rows')
    <2>1. f \in Surjection(S, rows')
        BY <1>3 DEF Surjection
    <2>2. IsFiniteSet(S)
        BY FS_Subset
    <2> QED
        BY <2>1, <2>2, FS_Surjection
<1>4. ASSUME NEW r \in Requests, UpdateRow(r) PROVE IsFiniteSet(rows')
    <2>1. \/ UNCHANGED rows
          \/ \E f \in [rows -> Row] : rows' = {f[x] : x \in rows}
        BY <1>4, UpdateShape
    <2> QED
        BY <1>1, <1>3, <2>1
<1>5. ASSUME NEW r \in Requests, RemoveRow(r) PROVE IsFiniteSet(rows')
    <2> DEFINE S == {x \in rows : x.id # call[r].id}
    <2>1. \E f \in [S -> Row] : rows' = {f[x] : x \in S}
        BY <1>5, RemoveShape
    <2>2. S \in SUBSET rows
        OBVIOUS
    <2> HIDE DEF S
    <2> QED
        BY <1>3, <2>1, <2>2
<1> QED
    BY <1>1, <1>2, <1>4, <1>5 DEF Next, TeamStep, RequestStep, Start, Check, QueryFails,
        ReadStages, ReadExpenses, AnswerSummary, vars

(* The steps as one summary sees them. *)
LEMMA SeenSteps ==
    ASSUME Called, Typed, [Next]_vars, NEW r \in Requests
    PROVE  \/ seen'[r] = seen[r] /\ (call'[r] = call[r] \/ ~Running(r))
           \/ seen'[r] = NothingSeen
           \/ ReadStages(r)
           \/ ReadExpenses(r)
<1>1. CASE UNCHANGED handler
    BY <1>1 DEF handler
<1>2. ASSUME NEW q \in Requests, NEW c \in Inputs, Start(q, c)
      PROVE  seen'[r] = seen[r] /\ (call'[r] = call[r] \/ ~Running(r))
    BY <1>2 DEF Start, Called
<1>3. ASSUME NEW q \in Requests, Finish(q)
      PROVE  seen'[r] = NothingSeen \/ (seen'[r] = seen[r] /\ call'[r] = call[r])
    BY <1>3 DEF Finish, Called, Typed
<1>4. ASSUME NEW q \in Requests, UNCHANGED <<call, seen>>
      PROVE  seen'[r] = seen[r] /\ call'[r] = call[r]
    BY <1>4
<1>5. ASSUME NEW q \in Requests, ReadStages(q) \/ ReadExpenses(q)
      PROVE  \/ seen'[r] = seen[r] /\ call'[r] = call[r]
             \/ ReadStages(r)
             \/ ReadExpenses(r)
    BY <1>5 DEF ReadStages, ReadExpenses, Typed
<1> QED
    BY <1>1, <1>2, <1>3, <1>4, <1>5 DEF Next, TeamStep, RequestStep, Check, QueryFails,
        CreateRow, UpdateRow, RemoveRow, AnswerSummary, vars, handler

LEMMA SummariesInit == Init => SummariesRead /\ IsFiniteSet(rows)
<1> SUFFICES ASSUME Init PROVE SummariesRead /\ IsFiniteSet(rows)
    OBVIOUS
<1>1. \A r \in Requests : seen[r] = NothingSeen
    BY DEF Init
<1> QED
    BY <1>1, FS_EmptySet DEF Init, SummariesRead, SummaryRead, HalfRead, NothingSeen

(* A read takes what is there; in between, the history variable says whether *)
(* the stages are still those that were, or will be, read.                  *)
LEMMA SummariesStep ==
    Inv /\ Typed /\ IsFiniteSet(rows) /\ SummariesRead /\ [Next]_vars => SummariesRead'
<1> SUFFICES ASSUME Inv, Typed, IsFiniteSet(rows), SummariesRead, [Next]_vars,
                    NEW r \in Requests
             PROVE  SummaryRead(r)'
    BY DEF SummariesRead
<1> DEFINE p == call[r].project
<1>0. /\ Called /\ Rowed /\ AllGrounded
      /\ SummaryRead(r)
      /\ seen[r] \in Reading
    BY DEF Inv, SummariesRead, Typed
<1>1. CASE seen'[r] = NothingSeen
    BY <1>1, FS_EmptySet DEF SummaryRead, HalfRead, NothingSeen
<1>2. CASE seen'[r] = seen[r] /\ seen[r].read = {}
    BY <1>0, <1>2 DEF SummaryRead, HalfRead
<1>3. CASE seen'[r] = seen[r] /\ call'[r] = call[r]
    <2>1. Running(r)' <=> Running(r)
        BY <1>3 DEF Running
    <2>2. ASSUME seen[r].read # {}, ~moved'[r]
          PROVE  /\ ~moved[r]
                 /\ Cardinality(seen[r].read) = 1 => RowsOf("stage", p)' = RowsOf("stage", p)
        <3>1. CASE UNCHANGED vars
            BY <2>2, <3>1 DEF vars, handler, RowsOf
        <3>2. CASE Observe
            BY <1>3, <2>2, <3>2 DEF Observe, StagesMove
        <3> QED
            BY <3>1, <3>2 DEF Next
    <2>3. \A i, q : Has(i, "stage", q) <=> \E y \in RowsOf("stage", q) : y.id = i
        BY DEF Has, RowsOf
    <2>4. \A i, q : Has(i, "stage", q)' <=> \E y \in RowsOf("stage", q)' : y.id = i
        BY DEF Has, RowsOf
    <2>5. ASSUME ~moved'[r] PROVE HalfRead(r)'
        <3>1. CASE seen[r].read = {"stages"}
            <4>1. Cardinality(seen[r].read) = 1
                BY <3>1, FS_Singleton
            <4>2. ~moved[r] /\ RowsOf("stage", p)' = RowsOf("stage", p)
                BY <2>2, <2>5, <3>1, <4>1
            <4>3. seen[r].stages = RowsOf("stage", p)
                BY <1>0, <3>1, <4>2 DEF SummaryRead, HalfRead
            <4> QED
                BY <1>3, <3>1, <4>2, <4>3 DEF HalfRead
        <3>2. CASE seen[r].read = {"expenses"}
            <4>1. Cardinality(seen[r].read) = 1
                BY <3>2, FS_Singleton
            <4>2. ~moved[r] /\ RowsOf("stage", p)' = RowsOf("stage", p)
                BY <2>2, <2>5, <3>2, <4>1
            <4>3. \A x \in seen[r].expenses : x.stage = NoOne \/ Has(x.stage, "stage", p)
                BY <1>0, <3>2, <4>2 DEF SummaryRead, HalfRead
            <4>4. \A i : Has(i, "stage", p) => Has(i, "stage", p)'
                BY <2>3, <2>4, <4>2
            <4> QED
                BY <1>3, <3>2, <4>3, <4>4 DEF HalfRead
        <3>3. CASE seen[r].read = {"stages", "expenses"}
            BY <1>0, <1>3, <2>2, <2>5, <3>3 DEF SummaryRead, HalfRead
        <3>4. CASE seen[r].read = {}
            BY <1>3, <3>4 DEF HalfRead
        <3> QED
            BY <1>0, <3>1, <3>2, <3>3, <3>4 DEF Reading
    <2> QED
        BY <1>0, <1>3, <2>1, <2>5 DEF SummaryRead
<1>4. ASSUME ReadStages(r) \/ ReadExpenses(r)
      PROVE  /\ call' = call /\ rows' = rows /\ Running(r)'
             /\ ~moved'[r] => ~moved[r]
             /\ \A kind : IsFiniteSet(RowsOf(kind, p))
             /\ \A x, y \in RowsOf("stage", p) : x.id = y.id => x = y
    <2>1. call' = call /\ rows' = rows /\ call[r].op = "summary" /\ seen'[r].read # {}
        BY <1>0, <1>4 DEF ReadStages, ReadExpenses, Checked, Typed, Reading
    <2>2. Running(r)'
        BY <2>1 DEF Running, NoCall
    <2>3. ~moved'[r] => ~moved[r]
        BY <2>1 DEF Next, Observe, vars
    <2>4. ASSUME NEW kind PROVE IsFiniteSet(RowsOf(kind, p))
        <3>1. RowsOf(kind, p) \in SUBSET rows
            BY DEF RowsOf
        <3> QED
            BY <3>1, FS_Subset
    <2>5. \A x, y \in RowsOf("stage", p) : x.id = y.id => x = y
        BY <1>0 DEF Rowed, RowsOf
    <2> QED
        BY <2>1, <2>2, <2>3, <2>4, <2>5
<1>5. \A i : Has(i, "stage", p) => \E y \in RowsOf("stage", p) : i = y.id
    BY DEF Has, RowsOf
<1>6. CASE ReadStages(r)
    <2>1. seen'[r] = [seen[r] EXCEPT !.stages = RowsOf("stage", p),
                                     !.read = @ \cup {"stages"}]
        BY <1>0, <1>6 DEF ReadStages, Typed
    <2>2. /\ seen'[r].stages = RowsOf("stage", p) /\ seen'[r].expenses = seen[r].expenses
          /\ seen'[r].read = seen[r].read \cup {"stages"}
        BY <1>0, <2>1 DEF Reading
    <2>3. p' = p /\ RowsOf("stage", p)' = RowsOf("stage", p)
        BY <1>4, <1>6 DEF RowsOf
    <2>4. ASSUME ~moved'[r] PROVE HalfRead(r)'
        <3>1. seen'[r].read = {"stages", "expenses"} => seen[r].read = {"expenses"}
            BY <1>0, <1>6, <2>2 DEF ReadStages
        <3>2. seen[r].read = {"expenses"} => Accounted(seen'[r])
            BY <1>0, <1>4, <1>5, <1>6, <2>2, <2>4 DEF SummaryRead, HalfRead, Accounted
        <3>3. seen'[r].read # {"expenses"}
            BY <2>2
        <3> QED
            BY <2>2, <2>3, <3>1, <3>2, <3>3 DEF HalfRead, Accounted
    <2> QED
        BY <1>0, <1>4, <1>6, <2>2, <2>4 DEF SummaryRead
<1>7. CASE ReadExpenses(r)
    <2>1. seen'[r] = [seen[r] EXCEPT !.expenses = RowsOf("expense", p),
                                     !.read = @ \cup {"expenses"}]
        BY <1>0, <1>7 DEF ReadExpenses, Typed
    <2>2. /\ seen'[r].expenses = RowsOf("expense", p) /\ seen'[r].stages = seen[r].stages
          /\ seen'[r].read = seen[r].read \cup {"expenses"}
        BY <1>0, <2>1 DEF Reading
    <2>3. \A x \in RowsOf("expense", p) : x.stage = NoOne \/ Has(x.stage, "stage", p)
        BY <1>0 DEF AllGrounded, Grounded, RowsOf
    <2>4. \A i, q : Has(i, "stage", q)' <=> Has(i, "stage", q)
        BY <1>4, <1>7 DEF Has
    <2>5. ASSUME ~moved'[r] PROVE HalfRead(r)'
        <3>1. seen'[r].read = {"stages", "expenses"} => seen[r].read = {"stages"}
            BY <1>0, <1>7, <2>2 DEF ReadExpenses
        <3>2. seen[r].read = {"stages"} => Accounted(seen'[r])
            BY <1>0, <1>4, <1>5, <1>7, <2>2, <2>3, <2>5 DEF SummaryRead, HalfRead, Accounted
        <3>3. seen'[r].read # {"stages"}
            BY <2>2
        <3>4. p' = p
            BY <1>4, <1>7
        <3> QED
            BY <2>2, <2>3, <2>4, <3>1, <3>2, <3>3, <3>4 DEF HalfRead, Accounted
    <2> QED
        BY <1>0, <1>4, <1>7, <2>2, <2>5 DEF SummaryRead
<1>8. CASE seen'[r] = seen[r] /\ ~Running(r)
    BY <1>0, <1>2, <1>8 DEF SummaryRead
<1> QED
    BY <1>0, <1>1, <1>3, <1>6, <1>7, <1>8, SeenSteps

(* What getSummary's parts add up to is the total, unless a stage came or   *)
(* went between its two reads: then every expense it has read is under no   *)
(* stage or under one of the stages it has read, and counted there once.    *)
THEOREM SummaryHolds == Spec => []SummaryAddsUp
<1> DEFINE Read == SummariesRead /\ IsFiniteSet(rows)
<1>1. Init => Typed /\ Read
    BY TypedInit, SummariesInit
<1>2. Inv /\ Typed /\ Read /\ [Next]_vars => Typed' /\ Read'
    BY TypedStep, SummariesStep, FiniteStep DEF Inv
<1>3. Typed /\ Read => SummaryAddsUp
    <2> SUFFICES ASSUME Typed, Read, NEW r \in Requests,
                        seen[r].read = {"stages", "expenses"}, ~moved[r]
                 PROVE  AddsUp(seen[r])
        BY DEF SummaryAddsUp
    <2>1. /\ seen[r].stages \in SUBSET Row /\ seen[r].expenses \in SUBSET Row
          /\ IsFiniteSet(seen[r].stages) /\ IsFiniteSet(seen[r].expenses)
          /\ Accounted(seen[r])
        BY DEF Typed, Reading, SummariesRead, SummaryRead, HalfRead
    <2> QED
        BY <2>1, AccountedAddsUp
<1> QED
    BY <1>1, <1>2, <1>3, InvHolds, PTL DEF Spec
==============================================================================
