--------------------------- MODULE Projects_proofs ---------------------------
(* Theorems about Projects, for every value of its constants. *)
EXTENDS Projects, FiniteSetTheorems, TLAPS

------------------------------------------------------------------------------
(* Types. *)

HandlerOK == /\ pc \in [Requests -> Replies \cup Queries]
             /\ call \in [Requests -> Calls \cup {NoCall}]
             /\ seenPlan \in [Requests -> Plans \cup {NoOne}]

RowsOK == /\ owner \in [ProjectIds -> Users \cup {NoOne}]
          /\ content \in [ProjectIds -> Users \cup {NoOne}]
          /\ members \subseteq Member
          /\ issued \subseteq ProjectIds \cup MemberIds

(* Replying keeps the types of the request slots. *)
LEMMA ReplyType ==
    ASSUME HandlerOK, NEW r \in Requests, NEW status \in Replies,
           Reply(r, status)
    PROVE  HandlerOK'
BY DEF HandlerOK, Reply, Replies, Queries

(* Moving on to the next query keeps the types of the request slots. *)
LEMMA GotoType ==
    ASSUME HandlerOK, NEW r \in Requests, NEW q \in Queries, Goto(r, q)
    PROVE  HandlerOK'
BY DEF HandlerOK, Goto, Replies, Queries

(* The requests the API accepts are well-typed calls. *)
LEMMA AcceptType ==
    ASSUME HandlerOK, NEW r \in Requests, Start(r)
    PROVE  HandlerOK' /\ UNCHANGED rows
<1>1. PICK c \in Calls : Accept(r, c)
  <2>1. \A u \in Users : CreateRequest(u) \in Calls
    BY DEF CreateRequest, Calls
  <2>2. \A op \in ProjectOps, u \in Users, p \in ProjectIds,
           t \in Users \cup MemberIds \cup {NoOne} :
              ProjectRequest(op, u, p, t) \in Calls
    BY DEF ProjectRequest, Calls
  <2>3. MemberOps \cup {"remove", "invite", "removeMember"} \subseteq ProjectOps
    BY DEF ProjectOps, MemberOps, OwnerOps
  <2>. QED  BY <2>1, <2>2, <2>3 DEF Start
<1>. QED  BY <1>1 DEF Accept, HandlerOK, Replies, Queries

(* A request past its checks that the code can be in has a call that fits. *)
CallFits(r) ==
    /\ pc[r] \in {"plan", "count", "insert"} => call[r].op = "create"
    /\ pc[r] \in Queries \ {"plan", "count", "insert"} =>
          call[r].op \in ProjectOps /\ call[r].project \in ProjectIds
    /\ pc[r] \in Queries => call[r].user \in Users
    /\ pc[r] \in {"role", "delete", "invitee", "upsert", "member",
                  "deleteMember"} => call[r].op \in OwnerOps
    /\ pc[r] = "upsert" => call[r].target \in Users
    /\ pc[r] = "count" => seenPlan[r] \in Plans

CallsFit == \A r \in Requests : CallFits(r)

(* The operation decides the query that follows the checks. *)
LEMMA AfterChecksType ==
    /\ \A op \in MemberOps : AfterChecks(op) \in {"update", "list"}
    /\ \A op \in OwnerOps : AfterChecks(op) \in {"delete", "invitee", "member"}
BY DEF MemberOps, OwnerOps, AfterChecks

(* A request step moves one slot; the others keep their call. *)
OnlyMoves(r) == \A s \in Requests \ {r} :
                   pc'[s] = pc[s] /\ call'[s] = call[s] /\ seenPlan'[s] = seenPlan[s]

LEMMA StartMoves ==
    ASSUME HandlerOK, CallsFit, NEW r \in Requests, Start(r)
    PROVE  CallsFit' /\ OnlyMoves(r) /\ pc'[r] \in {"plan", "project"} /\ pc[r] \in Replies
<1>1. PICK u \in Users, c \in Calls :
          /\ Accept(r, c)
          /\ c.user = u
          /\ \/ c.op = "create"
             \/ c.op \in ProjectOps /\ c.op # "create" /\ c.project \in ProjectIds
  <2>1. ASSUME NEW u \in Users, Accept(r, CreateRequest(u))
        PROVE  /\ CreateRequest(u) \in Calls
               /\ CreateRequest(u).user = u
               /\ CreateRequest(u).op = "create"
    BY <2>1 DEF CreateRequest, Calls
  <2>2. ASSUME NEW op \in ProjectOps, NEW u \in Users, NEW p \in ProjectIds,
               NEW t \in Users \cup MemberIds \cup {NoOne}
        PROVE  LET c == ProjectRequest(op, u, p, t)
               IN  /\ c \in Calls
                   /\ c.user = u
                   /\ c.op \in ProjectOps
                   /\ c.op # "create"
                   /\ c.project \in ProjectIds
    BY DEF ProjectRequest, Calls, ProjectOps, OwnerOps, MemberOps
  <2>3. MemberOps \cup {"remove", "invite", "removeMember"} \subseteq ProjectOps
    BY DEF ProjectOps, MemberOps, OwnerOps
  <2>4. PICK u \in Users :
          \/ Accept(r, CreateRequest(u))
          \/ \E op \in ProjectOps, p \in ProjectIds,
                t \in Users \cup MemberIds \cup {NoOne} :
                   Accept(r, ProjectRequest(op, u, p, t))
    BY <2>3 DEF Start
  <2>5. CASE Accept(r, CreateRequest(u))
    BY <2>1, <2>5
  <2>6. CASE \E op \in ProjectOps, p \in ProjectIds,
                t \in Users \cup MemberIds \cup {NoOne} :
                   Accept(r, ProjectRequest(op, u, p, t))
    <3>1. PICK op \in ProjectOps, p \in ProjectIds,
                t \in Users \cup MemberIds \cup {NoOne} :
                   Accept(r, ProjectRequest(op, u, p, t))
      BY <2>6
    <3>. QED  BY <3>1, <2>2
  <2>. QED  BY <2>4, <2>5, <2>6
<1>2. /\ pc' = [pc EXCEPT ![r] = IF c.op = "create" THEN "plan" ELSE "project"]
      /\ call' = [call EXCEPT ![r] = c]
      /\ seenPlan' = seenPlan
      /\ pc[r] \in Replies
  BY <1>1 DEF Accept, Running
<1>3. pc'[r] \in {"plan", "project"} /\ OnlyMoves(r)
  BY <1>2 DEF OnlyMoves, HandlerOK
<1>4. \A s \in Requests \ {r} : CallFits(s)'
  BY <1>3 DEF OnlyMoves, CallsFit, CallFits
<1>5. CallFits(r)'
  BY <1>1, <1>2 DEF CallFits, HandlerOK, Queries
<1>. QED  BY <1>2, <1>3, <1>4, <1>5 DEF CallsFit

(* A reply leaves an empty slot behind. *)
LEMMA ReplyMoves ==
    ASSUME HandlerOK, CallsFit, NEW r \in Requests, NEW status \in Replies,
           Reply(r, status)
    PROVE  CallsFit' /\ OnlyMoves(r) /\ pc'[r] = status
<1>1. OnlyMoves(r) /\ pc'[r] = status
  BY DEF OnlyMoves, Reply, HandlerOK
<1>2. CallFits(r)'
  BY <1>1 DEF CallFits, Replies, Queries
<1>3. \A s \in Requests \ {r} : CallFits(s)'
  BY <1>1 DEF OnlyMoves, CallsFit, CallFits
<1>. QED  BY <1>1, <1>2, <1>3 DEF CallsFit

(* Moving on keeps the call; the new query has to fit it. *)
LEMMA GotoMoves ==
    ASSUME HandlerOK, CallsFit, NEW r \in Requests, NEW q \in Queries, Goto(r, q),
           CallFits(r)'
    PROVE  CallsFit' /\ OnlyMoves(r) /\ pc'[r] = q /\ UNCHANGED call
<1>1. OnlyMoves(r) /\ pc'[r] = q /\ UNCHANGED call
  BY DEF OnlyMoves, Goto, HandlerOK
<1>2. \A s \in Requests \ {r} : CallFits(s)'
  BY <1>1 DEF OnlyMoves, CallsFit, CallFits
<1>. QED  BY <1>1, <1>2 DEF CallsFit

(* Every step of a request keeps its slot well typed and its call fitting. *)
LEMMA HandlerStep ==
    ASSUME HandlerOK, CallsFit, plan \in [Users -> Plans],
           NEW r \in Requests, RequestStep(r)
    PROVE  HandlerOK' /\ CallsFit' /\ OnlyMoves(r)
<1>. USE DEF Queries, Replies
<1>1. CASE Start(r)
  BY <1>1, AcceptType, StartMoves
<1>2. ASSUME NEW status \in Replies, Reply(r, status)
      PROVE  HandlerOK' /\ CallsFit' /\ OnlyMoves(r)
  BY <1>2, ReplyType, ReplyMoves
<1>3. ASSUME NEW q \in Queries, Goto(r, q), CallFits(r)'
      PROVE  HandlerOK' /\ CallsFit' /\ OnlyMoves(r)
  BY <1>3, GotoType, GotoMoves
<1>4. \A q \in Queries : Goto(r, q) => pc'[r] = q /\ call'[r] = call[r]
                                         /\ seenPlan'[r] = seenPlan[r]
  BY DEF Goto, HandlerOK
<1>5. CallFits(r)
  BY DEF CallsFit
<1>6. CASE ReadPlan(r)
  <2>1. /\ pc[r] = "plan" /\ pc' = [pc EXCEPT ![r] = "count"]
        /\ seenPlan' = [seenPlan EXCEPT ![r] = plan[call[r].user]]
        /\ call' = call
    BY <1>6 DEF ReadPlan
  <2>2. call[r].user \in Users /\ call[r].op = "create"
    BY <2>1, <1>5 DEF CallFits
  <2>3. plan[call[r].user] \in Plans
    BY <2>2
  <2>4. HandlerOK' /\ OnlyMoves(r) /\ pc'[r] = "count" /\ seenPlan'[r] \in Plans
    BY <2>1, <2>3 DEF HandlerOK, OnlyMoves
  <2>5. CallFits(r)'
    BY <2>1, <2>2, <2>4 DEF CallFits
  <2>6. \A s \in Requests \ {r} : CallFits(s)'
    BY <2>4 DEF OnlyMoves, CallsFit, CallFits
  <2>. QED  BY <2>4, <2>5, <2>6 DEF CallsFit
<1>7. CASE CountProjects(r)
  <2>1. CASE Goto(r, "insert")
    <3>1. CallFits(r)'
      BY <1>4, <1>5, <1>7, <2>1 DEF CallFits, CountProjects
    <3>. QED  BY <1>3, <2>1, <3>1
  <2>. QED  BY <1>2, <1>7, <2>1 DEF CountProjects
<1>8. CASE ReadProject(r)
  <2>1. CASE Goto(r, "membership")
    <3>1. CallFits(r)'
      BY <1>4, <1>5, <1>8, <2>1 DEF CallFits, ReadProject
    <3>. QED  BY <1>3, <2>1, <3>1
  <2>. QED  BY <1>2, <1>8, <2>1 DEF ReadProject
<1>9. CASE ReadMembership(r)
  <2>1. CASE call[r].op \in OwnerOps /\ Goto(r, "role")
    <3>1. CallFits(r)'
      BY <1>4, <1>5, <1>9, <2>1 DEF CallFits, ReadMembership
    <3>. QED  BY <1>3, <2>1, <3>1
  <2>2. CASE call[r].op \notin OwnerOps /\ Goto(r, AfterChecks(call[r].op))
    <3>1. AfterChecks(call[r].op) \in {"update", "list"}
      BY <1>5, <1>9, <2>2, AfterChecksType
         DEF CallFits, ReadMembership, ProjectOps
    <3>2. CallFits(r)'
      BY <1>4, <1>5, <1>9, <2>2, <3>1 DEF CallFits, ReadMembership
    <3>. QED  BY <1>3, <2>2, <3>1, <3>2
  <2>. QED  BY <1>2, <1>9, <2>1, <2>2 DEF ReadMembership
<1>10. CASE ReadRole(r)
  <2>1. CASE Goto(r, AfterChecks(call[r].op))
    <3>1. AfterChecks(call[r].op) \in {"delete", "invitee", "member"}
      BY <1>5, <1>10, AfterChecksType DEF CallFits, ReadRole
    <3>2. CallFits(r)'
      BY <1>4, <1>5, <1>10, <2>1, <3>1 DEF CallFits, ReadRole
    <3>. QED  BY <1>3, <2>1, <3>1, <3>2
  <2>. QED  BY <1>2, <1>10, <2>1 DEF ReadRole
<1>11. CASE ReadInvitee(r)
  <2>1. CASE call[r].target \in Users /\ Goto(r, "upsert")
    <3>1. CallFits(r)'
      BY <1>4, <1>5, <1>11, <2>1 DEF CallFits, ReadInvitee
    <3>. QED  BY <1>3, <2>1, <3>1
  <2>. QED  BY <1>2, <1>11, <2>1 DEF ReadInvitee
<1>12. CASE ReadMember(r)
  <2>1. CASE Goto(r, "deleteMember")
    <3>1. CallFits(r)'
      BY <1>4, <1>5, <1>12, <2>1 DEF CallFits, ReadMember
    <3>. QED  BY <1>3, <2>1, <3>1
  <2>. QED  BY <1>2, <1>12, <2>1 DEF ReadMember
<1>13. CASE \/ InsertProject(r) \/ ListMembers(r) \/ UpdateProject(r)
            \/ DeleteProject(r) \/ UpsertMember(r) \/ DeleteMember(r)
            \/ QueryFails(r)
  BY <1>2, <1>13 DEF InsertProject, ListMembers, UpdateProject, DeleteProject,
                     UpsertMember, DeleteMember, QueryFails
<1>. QED
  BY <1>1, <1>6, <1>7, <1>8, <1>9, <1>10, <1>11, <1>12, <1>13
     DEF RequestStep, Handle

(* Every step of a request keeps the rows well typed. *)
LEMMA RowsStep ==
    ASSUME RowsOK, HandlerOK, CallsFit, NEW r \in Requests, RequestStep(r)
    PROVE  RowsOK'
<1>1. CASE UNCHANGED rows
  BY <1>1 DEF RowsOK, rows
<1>2. CallFits(r)
  BY DEF CallsFit
<1>3. CASE InsertProject(r)
  <2>1. call[r].user \in Users
    BY <1>2, <1>3 DEF CallFits, InsertProject, Queries
  <2>2. PICK p \in ProjectIds \ issued, m \in MemberIds \ issued :
          /\ owner' = [owner EXCEPT ![p] = call[r].user]
          /\ content' = [content EXCEPT ![p] = call[r].user]
          /\ members' = members \cup {[id |-> m, project |-> p,
                                       user |-> call[r].user,
                                       role |-> "owner"]}
          /\ issued' = issued \cup {p, m}
    BY <1>3 DEF InsertProject
  <2>3. [id |-> m, project |-> p, user |-> call[r].user, role |-> "owner"]
           \in Member
    BY <2>1, <2>2 DEF Member
  <2>. QED  BY <2>1, <2>2, <2>3 DEF RowsOK
<1>4. CASE UpdateProject(r)
  <2>1. call[r].user \in Users
    BY <1>2, <1>4 DEF CallFits, UpdateProject, Queries
  <2>. QED  BY <1>4, <2>1 DEF UpdateProject, RowsOK
<1>5. CASE DeleteProject(r)
  BY <1>5 DEF DeleteProject, RowsOK
<1>6. CASE UpsertMember(r)
  <2>1. call[r].target \in Users /\ call[r].project \in ProjectIds
    BY <1>2, <1>6 DEF CallFits, UpsertMember, Queries
  <2>2. CASE UNCHANGED <<members, issued>>
    BY <1>6, <2>2 DEF UpsertMember, RowsOK
  <2>3. CASE \E m \in MemberIds \ issued :
                /\ members' = members \cup {[id |-> m,
                                             project |-> call[r].project,
                                             user |-> call[r].target,
                                             role |-> "editor"]}
                /\ issued' = issued \cup {m}
    <3>1. \A m \in MemberIds : [id |-> m, project |-> call[r].project,
                                user |-> call[r].target, role |-> "editor"]
                                   \in Member
      BY <2>1 DEF Member
    <3>. QED  BY <1>6, <2>3, <3>1 DEF UpsertMember, RowsOK
  <2>. QED  BY <1>6, <2>2, <2>3 DEF UpsertMember
<1>7. CASE DeleteMember(r)
  BY <1>7 DEF DeleteMember, RowsOK
<1>8. CASE Start(r)
  BY <1>1, <1>8, AcceptType
<1>9. CASE \/ ReadPlan(r) \/ CountProjects(r) \/ ReadProject(r)
           \/ ReadMembership(r) \/ ReadRole(r) \/ ListMembers(r)
           \/ ReadInvitee(r) \/ ReadMember(r) \/ QueryFails(r)
  BY <1>1, <1>9 DEF ReadPlan, CountProjects, ReadProject, ReadMembership,
       ReadRole, ListMembers, ReadInvitee, ReadMember, QueryFails
<1>. QED
  BY <1>3, <1>4, <1>5, <1>6, <1>7, <1>8, <1>9 DEF RequestStep, Handle

(* The invariant behind the types: the call of a running request fits the *)
(* query it has reached.                                                  *)
TypeInv == TypeOK /\ CallsFit

LEMMA TypeParts == TypeOK <=> /\ plan \in [Users -> Plans]
                              /\ RowsOK
                              /\ HandlerOK
                              /\ entitled \in [Requests -> BOOLEAN]
                              /\ upgraded \subseteq Users
BY DEF TypeOK, RowsOK, HandlerOK

LEMMA TypeInit == Init => TypeInv
BY DEF Init, TypeInv, TypeOK, CallsFit, CallFits, Plans, Replies, Queries

LEMMA TypeStep == TypeInv /\ [Next]_vars => TypeInv'
<1>. SUFFICES ASSUME TypeInv, [Next]_vars PROVE TypeInv'
  OBVIOUS
<1>1. ASSUME NEW r \in Requests, RequestStep(r), UNCHANGED <<plan, upgraded>>,
             Observe
      PROVE  TypeInv'
  <2>1. HandlerOK' /\ CallsFit' /\ RowsOK'
    BY <1>1, HandlerStep, RowsStep, TypeParts DEF TypeInv
  <2>2. entitled' \in [Requests -> BOOLEAN]
    <3>1. \A s \in Requests :
             (Running(s)' /\ (entitled[s] \/ CallerIsMember(s)')) \in BOOLEAN
      OBVIOUS
    <3>. QED  BY <1>1, <3>1, Zenon DEF Observe
  <2>. QED  BY <1>1, <2>1, <2>2, TypeParts DEF TypeInv, TypeOK, RowsOK, HandlerOK
<1>2. ASSUME NEW u \in Subscribers, NEW pl \in Plans, SetPlan(u, pl), Observe
      PROVE  TypeInv'
  <2>1. plan' \in [Users -> Plans] /\ upgraded' \subseteq Users
    BY <1>2, ProjectsAssumption DEF SetPlan, TypeInv, TypeOK
  <2>2. entitled' \in [Requests -> BOOLEAN]
    <3>1. \A s \in Requests :
             (Running(s)' /\ (entitled[s] \/ CallerIsMember(s)')) \in BOOLEAN
      OBVIOUS
    <3>. QED  BY <1>2, <3>1, Zenon DEF Observe
  <2>. QED  BY <1>2, <2>1, <2>2
               DEF SetPlan, TypeInv, TypeOK, CallsFit, CallFits, rows, handler
<1>3. CASE UNCHANGED vars
  BY <1>3 DEF vars, rows, handler, TypeInv, TypeOK, CallsFit, CallFits
<1>. QED  BY <1>1, <1>2, <1>3 DEF Next

(* Every state of the service is well typed. *)
THEOREM Typing == Spec => []TypeOK
<1>1. Spec => []TypeInv
  BY TypeInit, TypeStep, PTL DEF Spec
<1>2. TypeInv => TypeOK
  BY DEF TypeInv
<1>. QED  BY <1>1, <1>2, PTL

------------------------------------------------------------------------------
(* Ownership. *)

PastOwnerCheck == {"delete", "invitee", "upsert", "member", "deleteMember"}

(* An id in use was issued, and no two member rows share one. *)
IdsInUse == /\ \A m \in members : m.id \in issued
            /\ \A p \in Live : p \in issued
            /\ \A m, n \in members : m.id = n.id => m = n

(* What a request relies on after its owner check holds a project and a    *)
(* member id that were issued, so that neither can come to mean another    *)
(* row: this is what makes the two checks that follow inductive.           *)
CheckedIdsIssued ==
    \A r \in Requests :
       /\ pc[r] \in PastOwnerCheck => call[r].project \in issued
       /\ pc[r] = "deleteMember" => call[r].target \in issued

RowsInv == IdsInUse /\ OwnershipIntact
RequestInv == CheckedIdsIssued /\ OwnerCheckNeverStale /\ OnlyEditorsRemoved
OwnershipInv == TypeInv /\ RowsInv /\ RequestInv

(* The four ways a request changes the rows. *)
MemberRow(m, p, u, role) == [id |-> m, project |-> p, user |-> u, role |-> role]

RowsFound(p, m, u) ==
    /\ p \notin issued /\ m \notin issued
    /\ owner' = [owner EXCEPT ![p] = u]
    /\ members' = members \cup {MemberRow(m, p, u, "owner")}
    /\ issued' = issued \cup {p, m}

RowsDissolve(p) ==
    /\ p \in Live
    /\ owner' = [owner EXCEPT ![p] = NoOne]
    /\ members' = {m \in members : m.project # p}
    /\ issued' = issued

RowsAdmit(p, m, u) ==
    /\ p \in Live /\ m \notin issued /\ ~IsMember(u, p)
    /\ members' = members \cup {MemberRow(m, p, u, "editor")}
    /\ issued' = issued \cup {m}
    /\ owner' = owner

RowsExpel(m) ==
    /\ m.role = "editor"
    /\ members' = members \ {m}
    /\ UNCHANGED <<owner, issued>>

RowsChange == \/ \E p \in ProjectIds, m \in MemberIds, u \in Users : RowsFound(p, m, u)
              \/ \E p \in ProjectIds : RowsDissolve(p)
              \/ \E p \in ProjectIds, m \in MemberIds, u \in Users : RowsAdmit(p, m, u)
              \/ \E m \in members : RowsExpel(m)
              \/ UNCHANGED <<owner, members, issued>>

LEMMA RequestChangesRows ==
    ASSUME OwnershipInv, NEW r \in Requests, RequestStep(r)
    PROVE  RowsChange
<1>1. HandlerOK /\ CallsFit /\ CallFits(r)
  BY TypeParts DEF OwnershipInv, TypeInv, CallsFit
<1>2. CASE InsertProject(r)
  <2>1. call[r].user \in Users
    BY <1>1, <1>2 DEF CallFits, InsertProject, Queries
  <2>. QED  BY <1>2, <2>1 DEF InsertProject, RowsChange, RowsFound, MemberRow
<1>3. CASE UpdateProject(r)
  BY <1>3 DEF UpdateProject, RowsChange
<1>4. CASE DeleteProject(r)
  BY <1>4 DEF DeleteProject, RowsChange, RowsDissolve, Live
<1>5. CASE UpsertMember(r)
  <2>1. call[r].target \in Users /\ call[r].project \in ProjectIds
    BY <1>1, <1>5 DEF CallFits, UpsertMember, Queries
  <2>. QED  BY <1>5, <2>1 DEF UpsertMember, RowsChange, RowsAdmit, MemberRow
<1>6. CASE DeleteMember(r)
  <2>1. CASE \A m \in members : m.id # call[r].target
    <3>1. members' = members
      BY <1>6, <2>1 DEF DeleteMember
    <3>. QED  BY <1>6, <3>1 DEF DeleteMember, RowsChange
  <2>2. CASE \E m \in members : m.id = call[r].target
    <3>1. PICK m \in members : m.id = call[r].target
      BY <2>2
    <3>2. m.role = "editor"
      BY <1>6, <3>1
         DEF DeleteMember, OwnershipInv, RequestInv, OnlyEditorsRemoved
    <3>3. members' = members \ {m}
      BY <1>6, <3>1 DEF DeleteMember, OwnershipInv, RowsInv, IdsInUse
    <3>. QED  BY <1>6, <3>2, <3>3 DEF DeleteMember, RowsChange, RowsExpel
  <2>. QED  BY <2>1, <2>2
<1>7. CASE Start(r)
  BY <1>1, <1>7, AcceptType DEF RowsChange, rows
<1>8. CASE \/ ReadPlan(r) \/ CountProjects(r) \/ ReadProject(r)
           \/ ReadMembership(r) \/ ReadRole(r) \/ ListMembers(r)
           \/ ReadInvitee(r) \/ ReadMember(r) \/ QueryFails(r)
  BY <1>8 DEF ReadPlan, CountProjects, ReadProject, ReadMembership,
       ReadRole, ListMembers, ReadInvitee, ReadMember, QueryFails, RowsChange, rows
<1>. QED
  BY <1>2, <1>3, <1>4, <1>5, <1>6, <1>7, <1>8 DEF RequestStep, Handle

(* Each of the four changes keeps the ids unique and the ownership intact. *)
LEMMA RowsKept ==
    ASSUME RowsOK, RowsInv, RowsChange
    PROVE  RowsInv'
<1>. USE DEF RowsInv, IdsInUse, OwnershipIntact, Live, HasRole, RowsOK, Member
<1>0. NoOne \notin Users
  BY ProjectsAssumption
<1>1. ASSUME NEW p \in ProjectIds, NEW m \in MemberIds, NEW u \in Users,
             RowsFound(p, m, u)
      PROVE  RowsInv'
  <2>. DEFINE row == MemberRow(m, p, u, "owner")
  <2>1. /\ row.id = m /\ row.project = p /\ row.user = u /\ row.role = "owner"
        /\ members' = members \cup {row}
        /\ issued' = issued \cup {p, m}
        /\ p \notin issued /\ m \notin issued
    BY <1>1 DEF RowsFound, MemberRow
  <2>2. \A q \in ProjectIds : owner'[q] = IF q = p THEN u ELSE owner[q]
    BY <1>1 DEF RowsFound
  <2>3. \A n \in members : n.project # p
    BY <2>1
  <2>. HIDE DEF row
  <2>4. IdsInUse'
    BY <2>1, <2>2
  <2>5. OwnershipIntact'
    BY <1>0, <2>1, <2>2, <2>3
  <2>. QED  BY <2>4, <2>5
<1>2. ASSUME NEW p \in ProjectIds, RowsDissolve(p)
      PROVE  RowsInv'
  <2>1. \A q \in ProjectIds : owner'[q] = IF q = p THEN NoOne ELSE owner[q]
    BY <1>2 DEF RowsDissolve
  <2>2. members' = {m \in members : m.project # p} /\ issued' = issued
    BY <1>2 DEF RowsDissolve
  <2>. QED  BY <1>0, <2>1, <2>2
<1>3. ASSUME NEW p \in ProjectIds, NEW m \in MemberIds, NEW u \in Users,
             RowsAdmit(p, m, u)
      PROVE  RowsInv'
  <2>. DEFINE row == MemberRow(m, p, u, "editor")
  <2>1. /\ row.id = m /\ row.project = p /\ row.user = u /\ row.role = "editor"
        /\ members' = members \cup {row}
        /\ issued' = issued \cup {m}
        /\ owner' = owner
        /\ p \in Live /\ m \notin issued /\ ~IsMember(u, p)
    BY <1>3 DEF RowsAdmit, MemberRow
  <2>2. \A n \in members : ~(n.project = p /\ n.user = u)
    BY <2>1 DEF IsMember
  <2>3. owner[p] # u
    BY <1>0, <2>2
  <2>. HIDE DEF row
  <2>4. IdsInUse'
    BY <2>1
  <2>5. OwnershipIntact'
    BY <2>1, <2>2, <2>3
  <2>. QED  BY <2>4, <2>5
<1>4. ASSUME NEW m \in members, RowsExpel(m)
      PROVE  RowsInv'
  BY <1>4 DEF RowsExpel
<1>5. CASE UNCHANGED <<owner, members, issued>>
  BY <1>5
<1>. QED  BY <1>1, <1>2, <1>3, <1>4, <1>5 DEF RowsChange

(* What no change of the rows does: give an id that was issued to another *)
(* row, or a project another owner.                                       *)
LEMMA IssuedStays ==
    ASSUME RowsOK, RowsChange
    PROVE  /\ issued \subseteq issued'
           /\ \A p \in issued \cap ProjectIds : owner'[p] \in {owner[p], NoOne}
           /\ \A m \in members' : m.id \in issued => m \in members
<1>. USE DEF RowsOK
<1>1. ASSUME NEW p \in ProjectIds, NEW m \in MemberIds, NEW u \in Users,
             RowsFound(p, m, u)
      PROVE  /\ issued \subseteq issued'
             /\ \A q \in issued \cap ProjectIds : owner'[q] \in {owner[q], NoOne}
             /\ \A n \in members' : n.id \in issued => n \in members
  BY <1>1 DEF RowsFound, MemberRow
<1>2. ASSUME NEW p \in ProjectIds, RowsDissolve(p)
      PROVE  /\ issued \subseteq issued'
             /\ \A q \in issued \cap ProjectIds : owner'[q] \in {owner[q], NoOne}
             /\ \A n \in members' : n.id \in issued => n \in members
  BY <1>2 DEF RowsDissolve
<1>3. ASSUME NEW p \in ProjectIds, NEW m \in MemberIds, NEW u \in Users,
             RowsAdmit(p, m, u)
      PROVE  /\ issued \subseteq issued'
             /\ \A q \in issued \cap ProjectIds : owner'[q] \in {owner[q], NoOne}
             /\ \A n \in members' : n.id \in issued => n \in members
  BY <1>3 DEF RowsAdmit, MemberRow
<1>4. ASSUME NEW m \in members, RowsExpel(m)
      PROVE  /\ issued \subseteq issued'
             /\ \A q \in issued \cap ProjectIds : owner'[q] \in {owner[q], NoOne}
             /\ \A n \in members' : n.id \in issued => n \in members
  BY <1>4 DEF RowsExpel
<1>. QED  BY <1>1, <1>2, <1>3, <1>4 DEF RowsChange

(* One request's share of RequestInv. *)
Relies(s) ==
    /\ pc[s] \in PastOwnerCheck =>
          /\ call[s].project \in issued
          /\ call[s].project \in Live => owner[call[s].project] = call[s].user
    /\ pc[s] = "deleteMember" =>
          /\ call[s].target \in issued
          /\ \A m \in members : m.id = call[s].target =>
                m.role = "editor" /\ m.project = call[s].project

LEMMA ReliesIsRequestInv == RequestInv <=> \A s \in Requests : Relies(s)
BY DEF RequestInv, Relies, CheckedIdsIssued, OwnerCheckNeverStale,
       OnlyEditorsRemoved, PastOwnerCheck

(* A request that waits keeps what it relies on while another one moves. *)
LEMMA ReliesWaiting ==
    ASSUME OwnershipInv, RowsChange, NEW s \in Requests,
           pc'[s] = pc[s], call'[s] = call[s]
    PROVE  Relies(s)'
<1>1. Relies(s) /\ RowsOK /\ CallFits(s)
  BY ReliesIsRequestInv, TypeParts DEF OwnershipInv, TypeInv, CallsFit
<1>2. pc[s] \in PastOwnerCheck => call[s].project \in ProjectIds
  BY <1>1 DEF CallFits, PastOwnerCheck, Queries
<1>. QED  BY <1>1, <1>2, IssuedStays, ProjectsAssumption DEF Relies, Live

(* The request that moves has checked what it goes on to rely on. *)
LEMMA ReliesMoving ==
    ASSUME OwnershipInv, NEW r \in Requests, RequestStep(r)
    PROVE  Relies(r)'
<1>1. HandlerOK /\ CallFits(r) /\ Relies(r)
  BY ReliesIsRequestInv, TypeParts DEF OwnershipInv, TypeInv, CallsFit
<1>. USE DEF PastOwnerCheck
<1>2. ASSUME NEW status \in Replies, Reply(r, status)
      PROVE  Relies(r)'
  BY <1>1, <1>2 DEF Reply, HandlerOK, Relies, Replies
<1>3. ASSUME NEW q \in Queries \ PastOwnerCheck, pc' = [pc EXCEPT ![r] = q]
      PROVE  Relies(r)'
  BY <1>1, <1>3 DEF HandlerOK, Relies
<1>4. CASE ReadRole(r)
  <2>1. CASE /\ HasRole(call[r].user, call[r].project, "owner")
             /\ Goto(r, AfterChecks(call[r].op))
    <3>1. AfterChecks(call[r].op) \in {"delete", "invitee", "member"}
      BY <1>1, <1>4, AfterChecksType DEF CallFits, ReadRole
    <3>2. /\ call[r].project \in Live
          /\ owner[call[r].project] = call[r].user
          /\ call[r].project \in issued
      BY <1>1, <1>4, <2>1
         DEF CallFits, ReadRole, Queries, HasRole, OwnershipInv, RowsInv,
             OwnershipIntact, IdsInUse, Live
    <3>. QED  BY <1>1, <1>4, <2>1, <3>1, <3>2
                 DEF ReadRole, Goto, rows, HandlerOK, Relies, Live
  <2>. QED  BY <1>2, <1>4, <2>1 DEF ReadRole, Replies
<1>5. CASE ReadInvitee(r)
  <2>1. CASE Goto(r, "upsert")
    BY <1>1, <1>5, <2>1 DEF ReadInvitee, Goto, rows, HandlerOK, Relies, Live
  <2>. QED  BY <1>2, <1>5, <2>1 DEF ReadInvitee, Replies
<1>6. CASE ReadMember(r)
  <2>1. CASE Goto(r, "deleteMember")
    <3>1. PICK m \in members : /\ m.id = call[r].target
                               /\ m.project = call[r].project
                               /\ m.role # "owner"
      BY <1>1, <1>6, <2>1 DEF ReadMember, Goto, Reply, HandlerOK
    <3>2. m.role = "editor" /\ m.id \in issued
      BY <3>1, TypeParts
         DEF OwnershipInv, TypeInv, RowsOK, Member, RowsInv, IdsInUse
    <3>3. \A n \in members : n.id = call[r].target => n = m
      BY <3>1 DEF OwnershipInv, RowsInv, IdsInUse
    <3>. QED  BY <1>1, <1>6, <2>1, <3>1, <3>2, <3>3
                 DEF ReadMember, Goto, rows, HandlerOK, Relies, Live
  <2>. QED  BY <1>2, <1>6, <2>1 DEF ReadMember, Replies
<1>7. CASE ReadMembership(r)
  <2>1. CASE call[r].op \in OwnerOps /\ Goto(r, "role")
    BY <1>3, <1>7, <2>1 DEF Goto, Queries
  <2>2. CASE call[r].op \notin OwnerOps /\ Goto(r, AfterChecks(call[r].op))
    <3>1. AfterChecks(call[r].op) \in {"update", "list"}
      BY <1>1, <1>7, <2>2, AfterChecksType
         DEF CallFits, ReadMembership, ProjectOps, Queries
    <3>. QED  BY <1>3, <2>2, <3>1 DEF Goto, Queries
  <2>. QED  BY <1>2, <1>7, <2>1, <2>2 DEF ReadMembership, Replies
<1>8. CASE ReadPlan(r) \/ CountProjects(r) \/ ReadProject(r)
  BY <1>2, <1>3, <1>8
     DEF ReadPlan, CountProjects, ReadProject, Goto, Queries, Replies
<1>9. CASE Start(r)
  <2>1. pc'[r] \in {"plan", "project"}
    BY <1>1, <1>9, StartMoves DEF OwnershipInv, TypeInv
  <2>. QED  BY <2>1 DEF Relies
<1>10. CASE \/ InsertProject(r) \/ ListMembers(r) \/ UpdateProject(r)
            \/ DeleteProject(r) \/ UpsertMember(r) \/ DeleteMember(r)
            \/ QueryFails(r)
  BY <1>2, <1>10 DEF InsertProject, ListMembers, UpdateProject, DeleteProject,
                     UpsertMember, DeleteMember, QueryFails, Replies
<1>. QED
  BY <1>4, <1>5, <1>6, <1>7, <1>8, <1>9, <1>10 DEF RequestStep, Handle

LEMMA OwnershipInit == Init => OwnershipInv
<1>. SUFFICES ASSUME Init PROVE OwnershipInv
  OBVIOUS
<1>1. TypeInv
  BY TypeInit
<1>2. RowsInv
  BY DEF Init, RowsInv, IdsInUse, OwnershipIntact, Live
<1>3. \A s \in Requests : Relies(s)
  BY DEF Init, Relies, PastOwnerCheck
<1>. QED  BY <1>1, <1>2, <1>3, ReliesIsRequestInv DEF OwnershipInv

LEMMA OwnershipStep == OwnershipInv /\ [Next]_vars => OwnershipInv'
<1>. SUFFICES ASSUME OwnershipInv, [Next]_vars PROVE OwnershipInv'
  OBVIOUS
<1>1. TypeInv' /\ RowsOK /\ HandlerOK /\ CallsFit
  BY TypeStep, TypeParts DEF OwnershipInv, TypeInv
<1>2. ASSUME NEW r \in Requests, RequestStep(r), UNCHANGED <<plan, upgraded>>
      PROVE  OwnershipInv'
  <2>1. RowsChange /\ RowsInv'
    BY <1>1, <1>2, RequestChangesRows, RowsKept DEF OwnershipInv
  <2>2. OnlyMoves(r)
    BY <1>1, <1>2, HandlerStep, TypeParts DEF OwnershipInv, TypeInv
  <2>3. \A s \in Requests : Relies(s)'
    BY <1>2, <2>1, <2>2, ReliesMoving, ReliesWaiting DEF OnlyMoves
  <2>4. RequestInv'
    BY <2>3 DEF RequestInv, Relies, CheckedIdsIssued, OwnerCheckNeverStale,
                OnlyEditorsRemoved, PastOwnerCheck
  <2>. QED  BY <1>1, <2>1, <2>4 DEF OwnershipInv
<1>3. CASE UNCHANGED <<rows, handler>>
  BY <1>1, <1>3 DEF rows, handler, OwnershipInv, RowsInv, IdsInUse, RequestInv,
        OwnershipIntact, Live, HasRole, CheckedIdsIssued, OwnerCheckNeverStale,
        OnlyEditorsRemoved
<1>. QED  BY <1>2, <1>3 DEF Next, SetPlan, vars, rows, handler

LEMMA OwnershipAlways == Spec => []OwnershipInv
BY OwnershipInit, OwnershipStep, PTL DEF Spec

(* The owner in Project.userId and the "owner" member row agree in every  *)
(* reachable state, whatever requests interleave.                         *)
THEOREM OwnershipHolds == Spec => []OwnershipIntact
<1>1. OwnershipInv => OwnershipIntact
  BY DEF OwnershipInv, RowsInv
<1>. QED  BY <1>1, OwnershipAlways, PTL

(* The answer of assertOwner stays valid until the handler uses it. *)
THEOREM OwnerCheckHolds == Spec => []OwnerCheckNeverStale
<1>1. OwnershipInv => OwnerCheckNeverStale
  BY DEF OwnershipInv, RequestInv
<1>. QED  BY <1>1, OwnershipAlways, PTL

(* removeMember deletes only an editor of the caller's own project. *)
THEOREM RemovalsHold == Spec => []OnlyEditorsRemoved
<1>1. OwnershipInv => OnlyEditorsRemoved
  BY DEF OwnershipInv, RequestInv
<1>. QED  BY <1>1, OwnershipAlways, PTL

------------------------------------------------------------------------------
(* Membership as seen from inside a request. *)

PastMembership == PastOwnerCheck \cup {"role", "update", "list"}

(* A request past findOwned was a member's at some moment. *)
EntitledInv == \A r \in Requests : pc[r] \in PastMembership => entitled[r]

LEMMA EntitledInit == Init => EntitledInv
BY DEF Init, EntitledInv, PastMembership, PastOwnerCheck

(* Only ReadMembership brings a request past findOwned. *)
LEMMA MembershipChecked ==
    ASSUME TypeInv, NEW r \in Requests, RequestStep(r),
           pc'[r] \in PastMembership
    PROVE  pc[r] \in PastMembership \/ CallerIsMember(r)'
<1>. USE DEF PastMembership, PastOwnerCheck
<1>1. HandlerOK /\ CallsFit
  BY TypeParts DEF TypeInv
<1>2. \A status \in Replies : ~Reply(r, status)
  BY <1>1 DEF Reply, HandlerOK, Replies
<1>3. CASE ReadMembership(r)
  BY <1>1, <1>2, <1>3
     DEF ReadMembership, Goto, rows, CallerIsMember, IsMember, Replies
<1>4. CASE ReadPlan(r) \/ CountProjects(r) \/ ReadProject(r)
  BY <1>1, <1>2, <1>4
     DEF ReadPlan, CountProjects, ReadProject, Goto, HandlerOK, Replies
<1>5. CASE Start(r)
  BY <1>1, <1>5, StartMoves
<1>6. CASE ReadRole(r) \/ ReadInvitee(r) \/ ReadMember(r)
  BY <1>6 DEF ReadRole, ReadInvitee, ReadMember
<1>7. CASE \/ InsertProject(r) \/ ListMembers(r) \/ UpdateProject(r)
           \/ DeleteProject(r) \/ UpsertMember(r) \/ DeleteMember(r)
           \/ QueryFails(r)
  BY <1>2, <1>7 DEF InsertProject, ListMembers, UpdateProject, DeleteProject,
                    UpsertMember, DeleteMember, QueryFails, Replies
<1>. QED
  BY <1>3, <1>4, <1>5, <1>6, <1>7 DEF RequestStep, Handle

LEMMA EntitledStep == TypeInv /\ EntitledInv /\ [Next]_vars => EntitledInv'
<1>. SUFFICES ASSUME TypeInv, EntitledInv, [Next]_vars PROVE EntitledInv'
  OBVIOUS
<1>1. ASSUME NEW r \in Requests, RequestStep(r), Observe
      PROVE  EntitledInv'
  <2>1. OnlyMoves(r)
    BY <1>1, HandlerStep, TypeParts DEF TypeInv
  <2>2. \A s \in Requests : pc'[s] \in PastMembership =>
                               pc[s] \in PastMembership \/ CallerIsMember(s)'
    BY <1>1, <2>1, MembershipChecked DEF OnlyMoves
  <2>3. \A s \in Requests : pc'[s] \in PastMembership => Running(s)'
    BY DEF Running, PastMembership, PastOwnerCheck, Replies
  <2>4. ASSUME NEW s \in Requests, pc'[s] \in PastMembership
        PROVE  entitled'[s]
    <3>1. entitled[s] \/ CallerIsMember(s)'
      BY <2>2, <2>4 DEF EntitledInv
    <3>2. Running(s)'
      BY <2>3, <2>4
    <3>3. entitled'[s] = (Running(s)' /\ (entitled[s] \/ CallerIsMember(s)'))
      BY <1>1, Zenon DEF Observe
    <3>. QED  BY <3>1, <3>2, <3>3, Zenon
  <2>. QED  BY <2>4 DEF EntitledInv
<1>2. ASSUME UNCHANGED handler, Observe
      PROVE  EntitledInv'
  <2>1. \A s \in Requests : pc'[s] \in PastMembership => Running(s)'
    BY DEF Running, PastMembership, PastOwnerCheck, Replies
  <2>2. \A s \in Requests :
          entitled'[s] = (Running(s)' /\ (entitled[s] \/ CallerIsMember(s)'))
    BY <1>2, Zenon DEF Observe
  <2>3. pc' = pc
    BY <1>2 DEF handler
  <2>. QED  BY <2>1, <2>2, <2>3, Zenon DEF EntitledInv
<1>3. CASE UNCHANGED vars
  BY <1>3 DEF vars, handler, EntitledInv
<1>. QED  BY <1>1, <1>2, <1>3 DEF Next, SetPlan

(* Only a request past findOwned answers anything but 404 or 500. *)
LEMMA AnswersAfterChecks ==
    ASSUME TypeInv, NEW r \in Requests, RequestStep(r),
           call[r].op \in ProjectOps, pc[r] \in Queries,
           pc'[r] \in {"ok", "402", "403"}
    PROVE  pc[r] \in PastMembership
<1>. USE DEF PastMembership, PastOwnerCheck
<1>1. HandlerOK /\ CallFits(r)
  BY TypeParts DEF TypeInv, CallsFit
<1>2. call[r].op # "create"
  BY DEF ProjectOps, OwnerOps, MemberOps
<1>3. CASE ReadMembership(r)
  <2>1. ~Reply(r, "404")
    BY <1>1 DEF Reply, HandlerOK
  <2>2. ~Goto(r, "role")
    BY <1>1 DEF Goto, HandlerOK
  <2>3. call[r].op \in MemberOps => ~Goto(r, AfterChecks(call[r].op))
    BY <1>1, AfterChecksType DEF Goto, HandlerOK
  <2>. QED  BY <1>3, <2>1, <2>2, <2>3 DEF ReadMembership, ProjectOps
<1>4. CASE ReadPlan(r) \/ CountProjects(r) \/ InsertProject(r)
  BY <1>1, <1>2, <1>4 DEF ReadPlan, CountProjects, InsertProject, CallFits
<1>5. CASE ReadProject(r) \/ QueryFails(r)
  BY <1>1, <1>5 DEF ReadProject, QueryFails, Reply, Goto, HandlerOK
<1>6. CASE Start(r)
  BY <1>1, <1>6, StartMoves DEF TypeInv
<1>7. CASE \/ ReadRole(r) \/ ReadInvitee(r) \/ ReadMember(r)
           \/ ListMembers(r) \/ UpdateProject(r)
           \/ DeleteProject(r) \/ UpsertMember(r) \/ DeleteMember(r)
  BY <1>7 DEF ReadRole, ReadInvitee, ReadMember, ListMembers, UpdateProject,
              DeleteProject, UpsertMember, DeleteMember
<1>. QED
  BY <1>3, <1>4, <1>5, <1>6, <1>7 DEF RequestStep, Handle

(* Who was never a member during a request learns nothing from its answer. *)
THEOREM StrangersHold == Spec => StrangersSee404
<1>1. TypeInv /\ EntitledInv /\ [Next]_vars =>
        [\A r \in Requests :
            /\ call[r].op \in ProjectOps
            /\ pc[r] \in Queries
            /\ pc'[r] \in {"ok", "402", "403"}
            => entitled[r]]_vars
  <2>. SUFFICES ASSUME TypeInv, EntitledInv, Next, NEW s \in Requests,
                       call[s].op \in ProjectOps, pc[s] \in Queries,
                       pc'[s] \in {"ok", "402", "403"}
                PROVE  entitled[s]
    OBVIOUS
  <2>1. pc'[s] # pc[s]
    BY DEF Queries
  <2>2. ASSUME NEW r \in Requests, RequestStep(r)
        PROVE  entitled[s]
    <3>1. OnlyMoves(r)
      BY <2>2, HandlerStep, TypeParts DEF TypeInv
    <3>2. s = r
      BY <2>1, <3>1 DEF OnlyMoves
    <3>. QED  BY <2>2, <3>2, AnswersAfterChecks DEF EntitledInv
  <2>. QED  BY <2>1, <2>2 DEF Next, SetPlan, handler
<1>. QED  BY <1>1, TypeInit, TypeStep, EntitledInit, EntitledStep, PTL
             DEF Spec, StrangersSee404

(* A project changes only through a request whose caller was its member. *)
THEOREM EditsHold == Spec => OnlyMembersEdit
<1>1. OwnershipInv /\ EntitledInv /\ [Next]_vars =>
        [\A p \in ProjectIds :
            owner[p] # NoOne /\ content'[p] # content[p] =>
               \E r \in Requests : call[r].project = p /\ entitled[r]]_vars
  <2>. SUFFICES ASSUME OwnershipInv, EntitledInv, Next, NEW p \in ProjectIds,
                       owner[p] # NoOne, content'[p] # content[p]
                PROVE  \E r \in Requests : call[r].project = p /\ entitled[r]
    OBVIOUS
  <2>1. PICK r \in Requests : RequestStep(r)
    BY DEF Next, SetPlan, rows
  <2>2. RowsOK /\ HandlerOK /\ p \in issued
    BY TypeParts DEF OwnershipInv, TypeInv, RowsInv, IdsInUse, Live
  <2>3. ~UNCHANGED content
    OBVIOUS
  <2>4. ~InsertProject(r)
    BY <2>2 DEF InsertProject, RowsOK
  <2>5. UpdateProject(r) \/ DeleteProject(r)
    BY <2>1, <2>2, <2>3, <2>4, AcceptType
       DEF RequestStep, Handle, ReadPlan, CountProjects, ReadProject,
           ReadMembership, ReadRole, ListMembers, ReadInvitee, UpsertMember,
           ReadMember, DeleteMember, QueryFails, rows
  <2>6. call[r].project = p /\ pc[r] \in PastMembership
    BY <2>2, <2>5 DEF UpdateProject, DeleteProject, RowsOK,
                      PastMembership, PastOwnerCheck
  <2>. QED  BY <2>6 DEF EntitledInv
<1>2. OwnershipInv => TypeInv
  BY DEF OwnershipInv
<1>. QED  BY <1>1, <1>2, OwnershipInit, OwnershipStep, EntitledInit,
             EntitledStep, PTL DEF Spec, OnlyMembersEdit

------------------------------------------------------------------------------
(* The handlers implement Teams. *)

EditorMap == [p \in ProjectIds |-> EditorsOf(p)]

LEMMA TeamInitMaps == Init => T!TeamInit
BY DEF Init, T!TeamInit, EditorsOf, HasRole

(* Each change of the rows is an atomic operation of Teams. *)
LEMMA RowsChangeMaps ==
    ASSUME OwnershipInv, RowsChange
    PROVE  T!TeamNext \/ UNCHANGED T!teamVars
<1>. DEFINE founded == issued \cap ProjectIds
<1>0. RowsOK /\ RowsInv
  BY TypeParts DEF OwnershipInv, TypeInv
<1>. USE <1>0 DEF RowsOK, Member
<1>1. ASSUME NEW p \in ProjectIds, NEW m \in MemberIds, NEW u \in Users,
             RowsFound(p, m, u)
      PROVE  T!Found(p, u)
  <2>. DEFINE row == MemberRow(m, p, u, "owner")
  <2>1. row.role = "owner" /\ members' = members \cup {row}
    BY <1>1 DEF RowsFound, MemberRow
  <2>. HIDE DEF row
  <2>2. EditorMap' = EditorMap
    BY <2>1 DEF EditorMap, EditorsOf, HasRole
  <2>3. founded' = founded \cup {p}
    BY <1>1, ProjectsAssumption DEF RowsFound
  <2>. QED  BY <1>1, <2>2, <2>3 DEF RowsFound, T!Found, EditorMap
<1>2. ASSUME NEW p \in ProjectIds, RowsDissolve(p)
      PROVE  T!Dissolve(p)
  <2>1. EditorMap' = [EditorMap EXCEPT ![p] = {}]
    BY <1>2 DEF RowsDissolve, EditorMap, EditorsOf, HasRole
  <2>. QED  BY <1>2, <2>1 DEF RowsDissolve, Live, T!Dissolve, EditorMap
<1>3. ASSUME NEW p \in ProjectIds, NEW m \in MemberIds, NEW u \in Users,
             RowsAdmit(p, m, u)
      PROVE  T!Admit(p, u)
  <2>. DEFINE row == MemberRow(m, p, u, "editor")
  <2>1. /\ row.project = p /\ row.user = u /\ row.role = "editor"
        /\ members' = members \cup {row}
    BY <1>3 DEF RowsAdmit, MemberRow
  <2>. HIDE DEF row
  <2>6. \A q \in ProjectIds :
           EditorMap'[q] = IF q = p THEN EditorMap[q] \cup {u} ELSE EditorMap[q]
    BY <2>1 DEF EditorMap, EditorsOf, HasRole
  <2>2. EditorMap' = [EditorMap EXCEPT ![p] = @ \cup {u}]
    BY <2>6 DEF EditorMap
  <2>3. ~IsMember(u, p) /\ owner[p] # NoOne
    BY <1>3 DEF RowsAdmit, Live
  <2>4. u \notin EditorMap[p] /\ owner[p] # u
    BY <2>3 DEF IsMember, EditorMap, EditorsOf, HasRole, RowsInv, OwnershipIntact
  <2>5. founded' = founded /\ owner' = owner
    BY <1>3, ProjectsAssumption DEF RowsAdmit
  <2>. QED  BY <2>2, <2>3, <2>4, <2>5 DEF T!Admit, EditorMap
<1>4. ASSUME NEW m \in members, RowsExpel(m)
      PROVE  T!Expel(m.project, m.user)
  <2>1. m.role = "editor" /\ members' = members \ {m}
    BY <1>4 DEF RowsExpel
  <2>2. \A n \in members : n.project = m.project /\ n.user = m.user => n = m
    BY DEF RowsInv, OwnershipIntact
  <2>3. \A p \in ProjectIds :
           EditorMap'[p] = IF p = m.project THEN EditorMap[p] \ {m.user}
                                            ELSE EditorMap[p]
    BY <2>1, <2>2 DEF EditorMap, EditorsOf, HasRole
  <2>4. EditorMap' = [EditorMap EXCEPT ![m.project] = @ \ {m.user}]
    BY <2>3 DEF EditorMap
  <2>5. m.user \in EditorMap[m.project]
    BY <2>1 DEF EditorMap, EditorsOf, HasRole
  <2>. QED  BY <1>4, <2>4, <2>5 DEF RowsExpel, T!Expel, EditorMap
<1>5. CASE UNCHANGED <<owner, members, issued>>
  BY <1>5 DEF T!teamVars, EditorsOf, HasRole
<1>6. \A m \in members : m.project \in ProjectIds /\ m.user \in Users
  OBVIOUS
<1>. QED  BY <1>1, <1>2, <1>3, <1>4, <1>5, <1>6 DEF RowsChange, T!TeamNext

(* Seen through the rows, every run of the handlers is a run of Teams: the *)
(* interleavings of their queries add no behaviour to the atomic spec.     *)
THEOREM Refinement == Spec => ImplementsTeams
<1>1. OwnershipInv /\ [Next]_vars => [T!TeamNext]_(T!teamVars)
  <2>. SUFFICES ASSUME OwnershipInv, [Next]_vars
                PROVE  T!TeamNext \/ UNCHANGED T!teamVars
    OBVIOUS
  <2>1. RowsChange
    BY RequestChangesRows DEF Next, SetPlan, vars, rows, RowsChange
  <2>. QED  BY <2>1, RowsChangeMaps
<1>. QED  BY <1>1, TeamInitMaps, OwnershipAlways, PTL
             DEF Spec, ImplementsTeams, T!TeamSpec

------------------------------------------------------------------------------
(* The free limit. *)

(* Who was never premium is on the free plan, and create() has read so. *)
FreeInv == \A u \in Users \ upgraded :
              /\ plan[u] = "free"
              /\ \A r \in Requests : pc[r] = "count" /\ call[r].user = u =>
                                        seenPlan[r] = "free"

LEMMA Finite == \A u : IsFiniteSet(Owned(u)) /\ IsFiniteSet(Inserting(u))
BY ProjectsAssumption, FS_Subset DEF Owned, Inserting

LEMMA FreeStep == TypeInv /\ FreeInv /\ [Next]_vars => FreeInv'
<1>. SUFFICES ASSUME TypeInv, FreeInv, [Next]_vars PROVE FreeInv'
  OBVIOUS
<1>1. ASSUME NEW r \in Requests, RequestStep(r), UNCHANGED <<plan, upgraded>>
      PROVE  FreeInv'
  <2>1. OnlyMoves(r) /\ HandlerOK /\ HandlerOK' /\ CallsFit
    BY <1>1, HandlerStep, TypeParts DEF TypeInv
  <2>2. ASSUME pc'[r] = "count" PROVE ReadPlan(r)
    <3>1. ~Start(r)
      BY <2>1, <2>2, StartMoves
    <3>2. \A status \in Replies : ~Reply(r, status)
      BY <2>1, <2>2 DEF Reply, HandlerOK, Replies
    <3>3. \A q \in Queries \ {"count"} : ~Goto(r, q)
      BY <2>1, <2>2 DEF Goto, HandlerOK
    <3>4. /\ \A op \in MemberOps : AfterChecks(op) \in Queries \ {"count"}
          /\ \A op \in OwnerOps : AfterChecks(op) \in Queries \ {"count"}
      BY AfterChecksType DEF Queries
    <3>5. CallFits(r)
      BY <2>1 DEF CallsFit
    <3>6. CASE ReadMembership(r) \/ ReadRole(r)
      BY <3>2, <3>3, <3>4, <3>5, <3>6
         DEF ReadMembership, ReadRole, Replies, Queries, CallFits, ProjectOps
    <3>7. CASE \/ CountProjects(r) \/ ReadProject(r) \/ ReadInvitee(r)
               \/ ReadMember(r) \/ InsertProject(r) \/ ListMembers(r)
               \/ UpdateProject(r) \/ DeleteProject(r) \/ UpsertMember(r)
               \/ DeleteMember(r) \/ QueryFails(r)
      BY <3>2, <3>3, <3>7
         DEF CountProjects, ReadProject, ReadInvitee, ReadMember, InsertProject,
             ListMembers, UpdateProject, DeleteProject, UpsertMember,
             DeleteMember, QueryFails, Replies, Queries
    <3>. QED  BY <1>1, <3>1, <3>6, <3>7 DEF RequestStep, Handle
  <2>3. ASSUME NEW u \in Users \ upgraded, pc'[r] = "count", call'[r].user = u
        PROVE  seenPlan'[r] = "free"
    <3>1. ReadPlan(r)
      BY <2>2, <2>3
    <3>2. call[r].user = u /\ seenPlan'[r] = plan[u]
      BY <2>1, <2>3, <3>1 DEF ReadPlan, HandlerOK
    <3>. QED  BY <2>3, <3>2 DEF FreeInv
  <2>. QED  BY <1>1, <2>1, <2>3 DEF FreeInv, OnlyMoves
<1>2. ASSUME NEW u \in Subscribers, NEW pl \in Plans, SetPlan(u, pl)
      PROVE  FreeInv'
  BY <1>2, ProjectsAssumption DEF SetPlan, FreeInv, handler, TypeInv, TypeOK, Plans
<1>3. CASE UNCHANGED vars
  BY <1>3 DEF vars, handler, FreeInv
<1>. QED  BY <1>1, <1>2, <1>3 DEF Next

(* A request step leaves a user's projects as they were, takes some away,  *)
(* or inserts one while a creation past its check becomes one less; only   *)
(* a count below the limit adds a creation.                                *)
LEMMA OwnedChange ==
    ASSUME OwnershipInv, FreeInv, NEW u \in Users \ upgraded,
           NEW r \in Requests, RequestStep(r)
    PROVE  \/ Owned(u)' \subseteq Owned(u) /\ Inserting(u)' \subseteq Inserting(u)
           \/ \E p \in ProjectIds : /\ Owned(u)' = Owned(u) \cup {p}
                                    /\ r \in Inserting(u)
                                    /\ Inserting(u)' = Inserting(u) \ {r}
           \/ /\ Owned(u)' = Owned(u)
              /\ Cardinality(Owned(u)) < FreeLimit
              /\ Inserting(u)' \subseteq Requests
<1>1. RowsOK /\ HandlerOK /\ CallFits(r) /\ OnlyMoves(r)
  BY HandlerStep, TypeParts DEF OwnershipInv, TypeInv, CallsFit
<1>2. ASSUME Owned(u)' \subseteq Owned(u), pc'[r] # "insert"
      PROVE  Owned(u)' \subseteq Owned(u) /\ Inserting(u)' \subseteq Inserting(u)
  BY <1>1, <1>2 DEF OnlyMoves, Inserting
<1>3. \A status \in Replies : Reply(r, status) => pc'[r] # "insert"
  BY <1>1 DEF Reply, HandlerOK, Replies
<1>4. \A q \in Queries \ {"insert"} : Goto(r, q) => pc'[r] # "insert"
  BY <1>1 DEF Goto, HandlerOK
<1>5. UNCHANGED owner => Owned(u)' = Owned(u)
  BY DEF Owned
<1>6. CASE InsertProject(r)
  <2>1. pc'[r] # "insert" /\ pc[r] = "insert"
    BY <1>3, <1>6 DEF InsertProject, Replies
  <2>2. PICK p \in ProjectIds \ issued :
                owner' = [owner EXCEPT ![p] = call[r].user]
    BY <1>6 DEF InsertProject
  <2>3. owner[p] = NoOne
    BY <1>1, <2>2 DEF OwnershipInv, RowsInv, IdsInUse, Live
  <2>4. CASE call[r].user = u
    <3>1. Owned(u)' = Owned(u) \cup {p}
      BY <1>1, <2>2, <2>4 DEF Owned, RowsOK
    <3>2. r \in Inserting(u) /\ Inserting(u)' = Inserting(u) \ {r}
      BY <1>1, <2>1, <2>4 DEF Inserting, OnlyMoves
    <3>. QED  BY <3>1, <3>2
  <2>5. CASE call[r].user # u
    <3>1. Owned(u)' \subseteq Owned(u)
      BY <1>1, <2>2, <2>5 DEF Owned, RowsOK
    <3>. QED  BY <1>2, <2>1, <3>1
  <2>. QED  BY <2>4, <2>5
<1>7. CASE CountProjects(r)
  <2>1. CASE Goto(r, "insert")
    <3>1. /\ pc[r] = "count" /\ UNCHANGED <<owner, call>>
          /\ ~AtLimit(seenPlan[r], Cardinality(Owned(call[r].user)))
      BY <1>1, <1>7, <2>1 DEF CountProjects, Goto, Reply, HandlerOK, rows
    <3>2. CASE call[r].user = u
      <4>1. seenPlan[r] = "free"
        BY <3>1, <3>2 DEF FreeInv
      <4>2. Cardinality(Owned(u)) \in Nat
        BY Finite, FS_CardinalityType
      <4>3. Cardinality(Owned(u)) < FreeLimit
        BY <3>1, <3>2, <4>1, <4>2, ProjectsAssumption DEF AtLimit
      <4>. QED  BY <1>5, <3>1, <4>3 DEF Inserting
    <3>3. CASE call[r].user # u
      BY <1>1, <1>5, <3>1, <3>3 DEF Inserting, OnlyMoves
    <3>. QED  BY <3>2, <3>3
  <2>2. CASE Reply(r, "402")
    BY <1>2, <1>3, <1>5, <1>7, <2>2 DEF CountProjects, rows, Replies
  <2>. QED  BY <1>7, <2>1, <2>2 DEF CountProjects
<1>8. CASE DeleteProject(r)
  <2>1. Owned(u)' \subseteq Owned(u)
    BY <1>1, <1>8, ProjectsAssumption DEF DeleteProject, Owned, RowsOK
  <2>. QED  BY <1>2, <1>3, <1>8, <2>1 DEF DeleteProject, Replies
<1>9. CASE ReadMembership(r) \/ ReadRole(r)
  <2>1. /\ \A op \in MemberOps : AfterChecks(op) \in Queries \ {"insert"}
        /\ \A op \in OwnerOps : AfterChecks(op) \in Queries \ {"insert"}
    BY AfterChecksType DEF Queries
  <2>2. pc'[r] # "insert"
    BY <1>1, <1>3, <1>4, <1>9, <2>1
       DEF ReadMembership, ReadRole, Replies, Queries, CallFits, ProjectOps
  <2>. QED  BY <1>2, <1>5, <1>9, <2>2 DEF ReadMembership, ReadRole, rows
<1>10. CASE \/ ReadProject(r) \/ ReadInvitee(r) \/ ReadMember(r)
            \/ ListMembers(r) \/ UpdateProject(r) \/ UpsertMember(r)
            \/ DeleteMember(r) \/ QueryFails(r)
  <2>1. pc'[r] # "insert"
    BY <1>3, <1>4, <1>10
       DEF ReadProject, ReadInvitee, ReadMember, ListMembers, UpdateProject,
           UpsertMember, DeleteMember, QueryFails, Replies, Queries
  <2>2. UNCHANGED owner
    BY <1>10
       DEF ReadProject, ReadInvitee, ReadMember, ListMembers, UpdateProject,
           UpsertMember, DeleteMember, QueryFails, rows
  <2>. QED  BY <1>2, <1>5, <2>1, <2>2
<1>11. CASE ReadPlan(r)
  BY <1>1, <1>2, <1>5, <1>11 DEF ReadPlan, rows, HandlerOK
<1>12. CASE Start(r)
  <2>1. pc'[r] # "insert"
    BY <1>1, <1>12, StartMoves DEF OwnershipInv, TypeInv
  <2>. QED  BY <1>1, <1>2, <1>5, <1>12, <2>1, AcceptType DEF rows
<1>. QED
  BY <1>6, <1>7, <1>8, <1>9, <1>10, <1>11, <1>12 DEF RequestStep, Handle

LEMMA OvershootInit == Init => FreeInv /\ OvershootBounded
<1>. SUFFICES ASSUME Init PROVE FreeInv /\ OvershootBounded
  OBVIOUS
<1>1. FreeInv
  BY DEF Init, FreeInv
<1>2. \A u \in Users : Owned(u) = {} /\ Inserting(u) = {}
  BY ProjectsAssumption DEF Init, Owned, Inserting
<1>3. Cardinality({}) = 0 /\ Cardinality(Requests) \in Nat
  BY FS_EmptySet, FS_CardinalityType, ProjectsAssumption
<1>4. 0 + 0 < FreeLimit + Cardinality(Requests)
  BY <1>3, ProjectsAssumption
<1>5. \A u \in Users : Cardinality(Owned(u)) = 0 /\ Cardinality(Inserting(u)) = 0
  BY <1>2, <1>3
<1>. QED  BY <1>1, <1>4, <1>5 DEF OvershootBounded

LEMMA OvershootStep ==
    OwnershipInv /\ FreeInv /\ OvershootBounded /\ [Next]_vars => OvershootBounded'
<1>. SUFFICES ASSUME OwnershipInv, FreeInv, OvershootBounded, [Next]_vars
              PROVE  OvershootBounded'
  OBVIOUS
<1>1. CASE UNCHANGED <<rows, handler>> /\ upgraded \subseteq upgraded'
  BY <1>1 DEF OvershootBounded, Owned, Inserting, rows, handler
<1>2. ASSUME NEW r \in Requests, RequestStep(r), UNCHANGED upgraded,
             NEW u \in Users \ upgraded
      PROVE  Cardinality(Owned(u)') + Cardinality(Inserting(u)')
                < FreeLimit + Cardinality(Requests)
  <2>. DEFINE o == Owned(u)  i == Inserting(u)
              bound == FreeLimit + Cardinality(Requests)
  <2>1. /\ IsFiniteSet(o) /\ IsFiniteSet(i) /\ Cardinality(o) \in Nat
        /\ Cardinality(i) \in Nat /\ Cardinality(Requests) \in Nat
        /\ Cardinality(o) + Cardinality(i) < bound
    BY <1>2, Finite, FS_CardinalityType, ProjectsAssumption DEF OvershootBounded
  <2>2. CASE o' \subseteq o /\ i' \subseteq i
    <3>1. /\ Cardinality(o') <= Cardinality(o) /\ Cardinality(o') \in Nat
          /\ Cardinality(i') <= Cardinality(i) /\ Cardinality(i') \in Nat
      BY <2>1, <2>2, FS_Subset, FS_CardinalityType
    <3>. HIDE DEF o, i
    <3>2. Cardinality(o') + Cardinality(i') < bound
      BY <2>1, <3>1, ProjectsAssumption
    <3>. QED  BY <3>2 DEF o, i
  <2>3. ASSUME NEW p \in ProjectIds, o' = o \cup {p}, r \in i, i' = i \ {r}
        PROVE  Cardinality(o') + Cardinality(i') < bound
    <3>1. Cardinality(o') \in {Cardinality(o), Cardinality(o) + 1}
      BY <2>1, <2>3, FS_AddElement
    <3>2. Cardinality(i') = Cardinality(i) - 1
      BY <2>1, <2>3, FS_RemoveElement
    <3>. HIDE DEF o, i
    <3>. QED  BY <2>1, <3>1, <3>2, ProjectsAssumption
  <2>4. CASE o' = o /\ Cardinality(o) < FreeLimit /\ i' \subseteq Requests
    <3>1. Cardinality(i') <= Cardinality(Requests) /\ Cardinality(i') \in Nat
      BY <2>1, <2>4, FS_Subset, FS_CardinalityType, ProjectsAssumption
    <3>. HIDE DEF o, i
    <3>2. Cardinality(o') + Cardinality(i') < bound
      BY <2>1, <2>4, <3>1, ProjectsAssumption
    <3>. QED  BY <3>2 DEF o, i
  <2>5. \/ o' \subseteq o /\ i' \subseteq i
        \/ \E p \in ProjectIds : o' = o \cup {p} /\ r \in i /\ i' = i \ {r}
        \/ o' = o /\ Cardinality(o) < FreeLimit /\ i' \subseteq Requests
    BY <1>2, OwnedChange
  <2>. QED  BY <2>2, <2>3, <2>4, <2>5
<1>3. CASE \E r \in Requests : RequestStep(r) /\ UNCHANGED <<plan, upgraded>>
  BY <1>2, <1>3 DEF OvershootBounded
<1>4. CASE \E u \in Subscribers, pl \in Plans : SetPlan(u, pl)
  BY <1>1, <1>4 DEF SetPlan
<1>. QED  BY <1>1, <1>3, <1>4 DEF Next, vars

(* However many creations race, a user who was never premium exceeds the   *)
(* free limit by less than the number of requests served at once.          *)
THEOREM OvershootHolds == Spec => []OvershootBounded
<1>1. OwnershipInv => TypeInv
  BY DEF OwnershipInv
<1>. QED  BY <1>1, OwnershipInit, OwnershipStep, OvershootInit, FreeStep,
             OvershootStep, PTL DEF Spec
==============================================================================
