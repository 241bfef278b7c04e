------------------------------ MODULE Projects -------------------------------
(***************************************************************************)
(* ProjectsService (apps/api/src/projects): creating, editing and deleting *)
(* projects, inviting and removing members.  A request is a handler that   *)
(* runs one awaited query at a time; the requests in flight interleave     *)
(* between queries, and no handler holds a transaction or a lock across    *)
(* two of them.  One action is one query with the synchronous code up to   *)
(* the next await.                                                         *)
(***************************************************************************)
EXTENDS Naturals, FiniteSets

CONSTANTS Users,        \* registered accounts (no endpoint deletes one)
          ProjectIds,   \* uuids of Project rows
          MemberIds,    \* uuids of ProjectMember rows
          Requests,     \* slots for requests in flight at the same time
          FreeLimit,    \* PLAN_LIMITS.free.maxProjects
          Subscribers,  \* accounts whose plan the billing webhooks change
          NoOne         \* null

ASSUME ProjectsAssumption ==
          /\ NoOne \notin Users \cup ProjectIds \cup MemberIds
          /\ ProjectIds \cap MemberIds = {}
          /\ FreeLimit \in Nat \ {0}
          /\ Subscribers \subseteq Users
          /\ IsFiniteSet(ProjectIds)
          /\ IsFiniteSet(Requests)

VARIABLES plan,      \* User.plan
          owner,     \* Project.userId, NoOne when the row does not exist
          content,   \* whose data the project row holds
          members,   \* the ProjectMember rows
          issued,    \* ids given to a row so far: uuid() repeats none
          pc,        \* the query each request runs next, or its reply
          call,      \* the user and the arguments of each request
          seenPlan,  \* the plan create() has read
          entitled,  \* history: was the caller a member during the request?
          upgraded   \* history: users whose plan has ever been premium

rows == <<owner, content, members, issued>>
handler == <<pc, call, seenPlan>>
vars == <<plan, rows, handler, entitled, upgraded>>

------------------------------------------------------------------------------
(* The rows. *)

Plans == {"free", "premium"}
Member == [id : MemberIds, project : ProjectIds, user : Users,
           role : {"owner", "editor"}]

Live == {p \in ProjectIds : owner[p] # NoOne}
Owned(u) == {p \in ProjectIds : owner[p] = u}
IsMember(u, p) == \E m \in members : m.project = p /\ m.user = u
HasRole(u, p, role) ==
    \E m \in members : m.project = p /\ m.user = u /\ m.role = role

(* PLAN_LIMITS: the premium plan has no limit. *)
AtLimit(pl, n) == pl = "free" /\ n >= FreeLimit

------------------------------------------------------------------------------
(* The requests. *)

OwnerOps == {"remove", "invite", "removeMember"}
MemberOps == {"update", "list"}
ProjectOps == OwnerOps \cup MemberOps

Calls == [op : ProjectOps \cup {"create"}, user : Users,
          project : ProjectIds \cup {NoOne},
          target : Users \cup MemberIds \cup {NoOne}]
NoCall == [op |-> "none", user |-> NoOne, project |-> NoOne, target |-> NoOne]

(* The query a handler runs once findOwned or assertOwner has returned. *)
AfterChecks(op) == CASE op = "update" -> "update"
                     [] op = "list" -> "list"
                     [] op = "remove" -> "delete"
                     [] op = "invite" -> "invitee"
                     [] op = "removeMember" -> "member"

Replies == {"idle", "ok", "402", "403", "404", "500"}
Queries == {"plan", "count", "insert", "project", "membership", "role",
            "update", "list", "delete", "invitee", "upsert", "member",
            "deleteMember"}

Running(r) == pc[r] \notin Replies

Goto(r, q) == /\ pc' = [pc EXCEPT ![r] = q]
              /\ UNCHANGED <<call, seenPlan>>

Reply(r, status) == /\ pc' = [pc EXCEPT ![r] = status]
                    /\ call' = [call EXCEPT ![r] = NoCall]
                    /\ seenPlan' = [seenPlan EXCEPT ![r] = NoOne]

Init == /\ plan = [u \in Users |-> "free"]
        /\ owner = [p \in ProjectIds |-> NoOne]
        /\ content = [p \in ProjectIds |-> NoOne]
        /\ members = {}
        /\ issued = {}
        /\ pc = [r \in Requests |-> "idle"]
        /\ call = [r \in Requests |-> NoCall]
        /\ seenPlan = [r \in Requests |-> NoOne]
        /\ entitled = [r \in Requests |-> FALSE]
        /\ upgraded = {}

(* A request passes JwtAuthGuard and the validation pipe. *)
Accept(r, c) == /\ ~Running(r)
                /\ pc' = [pc EXCEPT ![r] = IF c.op = "create" THEN "plan"
                                                            ELSE "project"]
                /\ call' = [call EXCEPT ![r] = c]
                /\ UNCHANGED <<seenPlan, rows>>

CreateRequest(u) == [op |-> "create", user |-> u, project |-> NoOne,
                     target |-> NoOne]
ProjectRequest(op, u, p, t) == [op |-> op, user |-> u, project |-> p,
                                target |-> t]

Start(r) == \E u \in Users :
    \/ Accept(r, CreateRequest(u))
    \/ \E p \in ProjectIds :
          \/ \E op \in MemberOps \cup {"remove"} :
                Accept(r, ProjectRequest(op, u, p, NoOne))
          \/ \E t \in Users \cup {NoOne} :    \* NoOne: an unknown e-mail
                Accept(r, ProjectRequest("invite", u, p, t))
          \/ \E m \in MemberIds :
                Accept(r, ProjectRequest("removeMember", u, p, m))

(* Prisma rejects a query (lost connection, pool timeout): nothing written. *)
QueryFails(r) == /\ Running(r)
                 /\ Reply(r, "500")
                 /\ UNCHANGED rows

------------------------------------------------------------------------------
(* Plausible mistakes, each in place of the definition named before "_".   *)

(* The count is compared with > instead of >=. *)
CountProjects_offByOne(r) ==
    /\ pc[r] = "count"
    /\ IF seenPlan[r] = "free" /\ Cardinality(Owned(call[r].user)) > FreeLimit
       THEN Reply(r, "402")
       ELSE Goto(r, "insert")
    /\ UNCHANGED rows

(* The update is sent before the membership is read. *)
ReadProject_updatesAtOnce(r) ==
    /\ pc[r] = "project"
    /\ IF call[r].project \notin Live THEN Reply(r, "404")
       ELSE IF call[r].op = "update" THEN Goto(r, "update")
       ELSE Goto(r, "membership")
    /\ UNCHANGED rows

(* A stranger is told "forbidden" instead of "not found". *)
ReadMembership_forbids(r) ==
    /\ pc[r] = "membership"
    /\ IF IsMember(call[r].user, call[r].project)
       THEN Goto(r, IF call[r].op \in OwnerOps THEN "role"
                                               ELSE AfterChecks(call[r].op))
       ELSE Reply(r, "403")
    /\ UNCHANGED rows

(* assertOwner forgets to look at the role. *)
ReadRole_anyRole(r) ==
    /\ pc[r] = "role"
    /\ IF IsMember(call[r].user, call[r].project)
       THEN Goto(r, AfterChecks(call[r].op))
       ELSE Reply(r, "403")
    /\ UNCHANGED rows

(* The member rows of a deleted project stay. *)
DeleteProject_noCascade(r) ==
    /\ pc[r] = "delete"
    /\ owner' = [owner EXCEPT ![call[r].project] = NoOne]
    /\ content' = [content EXCEPT ![call[r].project] = NoOne]
    /\ Reply(r, "ok")
    /\ UNCHANGED <<members, issued>>

(* The invited user is not looked up. *)
ReadInvitee_anyEmail(r) == /\ pc[r] = "invitee"
                           /\ Goto(r, "upsert")
                           /\ UNCHANGED rows

(* update: { role: 'editor' } instead of update: {}. *)
UpsertMember_demotes(r) ==
    /\ pc[r] = "upsert"
    /\ call[r].project \in Live
    /\ \E m \in members :
          /\ m.project = call[r].project /\ m.user = call[r].target
          /\ members' = (members \ {m}) \cup {[m EXCEPT !.role = "editor"]}
    /\ Reply(r, "ok")
    /\ UNCHANGED <<owner, content, issued>>

(* The member row is not compared with the project of the route. *)
ReadMember_anyProject(r) ==
    /\ pc[r] = "member"
    /\ \E m \in members :
          /\ m.id = call[r].target
          /\ IF m.role = "owner" THEN Reply(r, "403")
                                 ELSE Goto(r, "deleteMember")
    /\ UNCHANGED rows

------------------------------------------------------------------------------
(* create: read the plan, count the projects, insert. *)

ReadPlan(r) == /\ pc[r] = "plan"
               /\ pc' = [pc EXCEPT ![r] = "count"]
               /\ seenPlan' = [seenPlan EXCEPT ![r] = plan[call[r].user]]
               /\ UNCHANGED <<call, rows>>

CountProjects(r) ==
    /\ pc[r] = "count"
    /\ IF AtLimit(seenPlan[r], Cardinality(Owned(call[r].user)))
       THEN Reply(r, "402")
       ELSE Goto(r, "insert")
    /\ UNCHANGED rows

(* The nested write is one transaction: the project and its owner's row. *)
InsertProject(r) ==
    /\ pc[r] = "insert"
    /\ \E p \in ProjectIds \ issued, m \in MemberIds \ issued :
          /\ owner' = [owner EXCEPT ![p] = call[r].user]
          /\ content' = [content EXCEPT ![p] = call[r].user]
          /\ members' = members \cup {[id |-> m, project |-> p,
                                       user |-> call[r].user,
                                       role |-> "owner"]}
          /\ issued' = issued \cup {p, m}
    /\ Reply(r, "ok")

------------------------------------------------------------------------------
(* findOwned, then for the owner's operations the rest of assertOwner. *)

ReadProject(r) ==
    /\ pc[r] = "project"
    /\ IF call[r].project \in Live THEN Goto(r, "membership")
                                   ELSE Reply(r, "404")
    /\ UNCHANGED rows

ReadMembership(r) ==
    /\ pc[r] = "membership"
    /\ IF IsMember(call[r].user, call[r].project)
       THEN Goto(r, IF call[r].op \in OwnerOps THEN "role"
                                               ELSE AfterChecks(call[r].op))
       ELSE Reply(r, "404")
    /\ UNCHANGED rows

ReadRole(r) ==
    /\ pc[r] = "role"
    /\ IF HasRole(call[r].user, call[r].project, "owner")
       THEN Goto(r, AfterChecks(call[r].op))
       ELSE Reply(r, "403")
    /\ UNCHANGED rows

------------------------------------------------------------------------------
(* The operations once the checks have passed. *)

ListMembers(r) == /\ pc[r] = "list"
                  /\ Reply(r, "ok")
                  /\ UNCHANGED rows

(* Prisma's update and delete reject when the row is gone (P2025). *)
UpdateProject(r) ==
    /\ pc[r] = "update"
    /\ IF call[r].project \in Live
       THEN /\ content' = [content EXCEPT ![call[r].project] = call[r].user]
            /\ Reply(r, "ok")
       ELSE /\ Reply(r, "500")
            /\ UNCHANGED content
    /\ UNCHANGED <<owner, members, issued>>

(* onDelete: Cascade takes the member rows with the project. *)
DeleteProject(r) ==
    /\ pc[r] = "delete"
    /\ IF call[r].project \in Live
       THEN /\ owner' = [owner EXCEPT ![call[r].project] = NoOne]
            /\ content' = [content EXCEPT ![call[r].project] = NoOne]
            /\ members' = {m \in members : m.project # call[r].project}
            /\ Reply(r, "ok")
       ELSE /\ Reply(r, "500")
            /\ UNCHANGED <<owner, content, members>>
    /\ UNCHANGED issued

ReadInvitee(r) ==
    /\ pc[r] = "invitee"
    /\ IF call[r].target \in Users THEN Goto(r, "upsert")
                                   ELSE Reply(r, "404")
    /\ UNCHANGED rows

(* update: {} leaves an existing row as it is; the foreign key refuses a  *)
(* row for a project that is gone.                                        *)
UpsertMember(r) ==
    /\ pc[r] = "upsert"
    /\ \/ /\ IsMember(call[r].target, call[r].project)
          /\ Reply(r, "ok")
          /\ UNCHANGED <<members, issued>>
       \/ /\ call[r].project \notin Live
          /\ Reply(r, "500")
          /\ UNCHANGED <<members, issued>>
       \/ /\ ~IsMember(call[r].target, call[r].project)
          /\ call[r].project \in Live
          /\ \E m \in MemberIds \ issued :
                /\ members' = members \cup {[id |-> m,
                                             project |-> call[r].project,
                                             user |-> call[r].target,
                                             role |-> "editor"]}
                /\ issued' = issued \cup {m}
          /\ Reply(r, "ok")
    /\ UNCHANGED <<owner, content>>

ReadMember(r) ==
    /\ pc[r] = "member"
    /\ \/ /\ \A m \in members : m.id = call[r].target =>
                                  m.project # call[r].project
          /\ Reply(r, "404")
       \/ \E m \in members :
             /\ m.id = call[r].target
             /\ m.project = call[r].project
             /\ IF m.role = "owner" THEN Reply(r, "403")
                                    ELSE Goto(r, "deleteMember")
    /\ UNCHANGED rows

DeleteMember(r) ==
    /\ pc[r] = "deleteMember"
    /\ IF \E m \in members : m.id = call[r].target
       THEN Reply(r, "ok")
       ELSE Reply(r, "500")
    /\ members' = {m \in members : m.id # call[r].target}
    /\ UNCHANGED <<owner, content, issued>>

------------------------------------------------------------------------------
(* BillingService writes User.plan when a webhook arrives, at any time. *)
SetPlan(u, pl) == /\ plan[u] # pl
                  /\ plan' = [plan EXCEPT ![u] = pl]
                  /\ upgraded' = IF pl = "premium" THEN upgraded \cup {u}
                                                   ELSE upgraded
                  /\ UNCHANGED <<rows, handler>>

Handle(r) == \/ ReadPlan(r) \/ CountProjects(r) \/ InsertProject(r)
             \/ ReadProject(r) \/ ReadMembership(r) \/ ReadRole(r)
             \/ ListMembers(r) \/ UpdateProject(r) \/ DeleteProject(r)
             \/ ReadInvitee(r) \/ UpsertMember(r)
             \/ ReadMember(r) \/ DeleteMember(r)

RequestStep(r) == Start(r) \/ Handle(r) \/ QueryFails(r)

(* The history variable: membership seen from inside each request. *)
CallerIsMember(r) == IsMember(call[r].user, call[r].project)
Observe == entitled' = [r \in Requests |->
              Running(r)' /\ (entitled[r] \/ CallerIsMember(r)')]

Next == /\ \/ \E r \in Requests : RequestStep(r) /\ UNCHANGED <<plan, upgraded>>
           \/ \E u \in Subscribers, pl \in Plans : SetPlan(u, pl)
        /\ Observe

Spec == Init /\ [][Next]_vars

------------------------------------------------------------------------------
(* Properties. *)

(* Types of the rows and of the requests. *)
TypeOK == /\ plan \in [Users -> Plans]
          /\ owner \in [ProjectIds -> Users \cup {NoOne}]
          /\ content \in [ProjectIds -> Users \cup {NoOne}]
          /\ members \subseteq Member
          /\ issued \subseteq ProjectIds \cup MemberIds
          /\ pc \in [Requests -> Replies \cup Queries]
          /\ call \in [Requests -> Calls \cup {NoCall}]
          /\ seenPlan \in [Requests -> Plans \cup {NoOne}]
          /\ entitled \in [Requests -> BOOLEAN]
          /\ upgraded \subseteq Users

(* Ownership survives every interleaving of invitations, removals and     *)
(* deletions: the members with role "owner" of an existing project are    *)
(* exactly the user in Project.userId, once, and a deleted project leaves *)
(* no member row (create's nested write, upsert's empty update, the owner *)
(* check of removeMember, the cascade).                                   *)
OwnershipIntact ==
    \A p \in ProjectIds :
       /\ owner[p] # NoOne => HasRole(owner[p], p, "owner")
       /\ \A m \in members : m.project = p =>
             /\ owner[p] # NoOne
             /\ m.role = "owner" <=> m.user = owner[p]
       /\ \A m, n \in members :
             m.project = p /\ n.project = p /\ m.user = n.user => m = n

(* assertOwner's answer is used after further awaits (projects.service.ts *)
(* 61-62, 104-111, 120-130).  It cannot go stale: as long as the project  *)
(* exists, the caller that passed the check is still its owner.           *)
OwnerCheckNeverStale ==
    \A r \in Requests :
       /\ pc[r] \in {"delete", "invitee", "upsert", "member", "deleteMember"}
       /\ call[r].project \in Live
       => owner[call[r].project] = call[r].user

(* removeMember deletes by row id after two more awaits: the row it then  *)
(* deletes is an editor of the project the caller owns, whatever happened *)
(* in between.                                                            *)
OnlyEditorsRemoved ==
    \A r \in Requests, m \in members :
       pc[r] = "deleteMember" /\ m.id = call[r].target =>
          m.role = "editor" /\ m.project = call[r].project

(* create checks the limit and inserts in separate queries.  A user who   *)
(* was never premium exceeds the free limit by less than the number of    *)
(* requests the server runs at once, counting those past their check.     *)
Inserting(u) == {r \in Requests : pc[r] = "insert" /\ call[r].user = u}
OvershootBounded ==
    \A u \in Users \ upgraded :
       Cardinality(Owned(u)) + Cardinality(Inserting(u))
          < FreeLimit + Cardinality(Requests)

(* "Your free plan is limited to 1 project(s)" as one would read it: who  *)
(* has never been premium never owns more projects than the free plan     *)
(* allows (projects.service.ts 15-22).                                    *)
FreePlanLimit == \A u \in Users \ upgraded : Cardinality(Owned(u)) <= FreeLimit

(* "Throws 404 for both ... so it isn't leaked which projects exist": a   *)
(* request for a project gets an answer other than 404 (or a database     *)
(* failure) only if its caller was a member at some moment of it.         *)
StrangersSee404 ==
    [][\A r \in Requests :
          /\ call[r].op \in ProjectOps
          /\ pc[r] \in Queries
          /\ pc'[r] \in {"ok", "402", "403"}
          => entitled[r]]_vars

(* A project is written to only while a request for it is under way whose *)
(* caller was its member at some moment of that request: requests that    *)
(* start after the removal change nothing by themselves.                  *)
OnlyMembersEdit ==
    [][\A p \in ProjectIds :
          owner[p] # NoOne /\ content'[p] # content[p] =>
             \E r \in Requests : call[r].project = p /\ entitled[r]]_vars

(* The handlers, with all their interleavings, implement the atomic       *)
(* operations of Teams.                                                   *)
EditorsOf(p) == {u \in Users : HasRole(u, p, "editor")}
T == INSTANCE Teams WITH editors <- [p \in ProjectIds |-> EditorsOf(p)],
                         founded <- issued \cap ProjectIds
ImplementsTeams == T!TeamSpec
==============================================================================
