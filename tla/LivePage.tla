------------------------------ MODULE LivePage -------------------------------
(***************************************************************************)
(* The project and stage pages of the web app: React Query's cache of what *)
(* the API answered, the panels whose mutations invalidate it, and the     *)
(* Socket.io room whose project-activity events invalidate it in every     *)
(* other browser.  A value is abstracted to the number of writes it shows. *)
(* Queries and writes check membership, then run; requests and replies     *)
(* may get lost, sockets drop, and members are removed at any moment.      *)
(***************************************************************************)
EXTENDS Naturals, FiniteSets, Sequences

CONSTANTS Tabs,        \* open browsers, each of another member
          Owner,       \* the tab of the project's owner, if it is among them
          Others,      \* slots for the writes of members without a tab here
          Keys,        \* the query keys to look at: subset of AllKeys
          Sends,       \* the writes to look at: subset of Kinds
          NoOne,
          MaxWrites    \* bound: writes sent

AllKeys == {"project", "summary", "stages", "expenses", "documents", "diary",
            "tasks", "members"}
(* An entry's photos are documents that name the entry.  document: one that *)
(* is no such photo comes or goes; photo: one is attached to the entry just *)
(* sent; dropPhoto: one is removed; entry: one comes, or goes without       *)
(* photos; dropEntry: one goes that photos name.                            *)
Kinds == {"expense", "stage", "dropStage", "task", "document", "dropPhoto", "entry", "photo",
          "dropEntry", "project", "member", "dropMember", "dropProject"}

ASSUME LivePageAssumption == /\ NoOne \notin Tabs \cup Others /\ Owner \in Tabs \cup {NoOne}
                             /\ Tabs \cap Others = {} /\ Keys \subseteq AllKeys
                             /\ Sends \subseteq Kinds /\ MaxWrites \in Nat

VARIABLES alive,       \* does the project exist?
          members,     \* tabs whose user is a member of the project
          version,     \* the writes that have changed what a key answers
          page,        \* what a tab shows: "closed", "project" or "stage"
          cache,       \* the version a tab's query data shows, by key
          fetch,       \* a tab's latest request for a key, and its answer
          sock,        \* a tab's socket: "off", "up", "checked", "joined"
                       \* or "outside" (refused, and not asking again)
          coming,      \* events on their way to a tab: the keys they change
          write,       \* the write that a tab or another member has sent
          sent,        \* number of writes sent
          untold,      \* history: changes of which a tab is not going to hear
          due,         \* history: the version a tab's own write has made
          left,        \* history: the versions when a tab's user was removed,
          late         \* and the keys whose reading was beyond its check then

project == <<alive, members, version>>
viewer == <<page, cache, fetch, sock>>
history == <<untold, due, left, late>>
vars == <<project, viewer, coming, write, sent, history>>

------------------------------------------------------------------------------
(* What each panel shows, which writes it offers, and which keys it        *)
(* invalidates when one of them has succeeded.                             *)

Panel(shows, offers, invalidates) ==
    [shows |-> shows, offers |-> offers, invalidates |-> invalidates]

(* A name with _ is a plausible mistake in place of the definition before  *)
(* the _; here, a panel that forgets the summary.                          *)
ExpensePanel_ownListOnly == Panel("expenses", {"expense"}, {"expenses"})
ExpensePanel == Panel("expenses", {"expense"}, {"expenses", "summary"})

StagePanel == Panel("stages", {"stage", "dropStage"}, {"stages", "summary"})
TaskPanel == Panel("tasks", {"task"}, {"tasks"})
DocumentPanel == Panel("documents", {"document", "dropPhoto"}, {"documents"})
DiaryPanel == Panel("diary", {"entry", "dropEntry"}, {"diary"})
MembersPanel == Panel("members", {"member", "dropMember"}, {"members"})
ProjectForm == Panel("project", {"project"}, {"project", "summary"})
DeleteButton == Panel("project", {"dropProject"}, {})
StatusSelect == Panel("stages", {"stage"}, {"stages", "summary"})

ProjectPage == {ProjectForm, DeleteButton, StagePanel, ExpensePanel, DocumentPanel,
                DiaryPanel, TaskPanel, MembersPanel}
StagePage == {StatusSelect, ExpensePanel, DocumentPanel, DiaryPanel, TaskPanel}
PanelsOf(p) == CASE p = "project" -> ProjectPage
                 [] p = "stage" -> StagePage
                 [] OTHER -> {}

Watched(t) == {k \in Keys : \E p \in PanelsOf(page[t]) : k \in {p.shows, "summary"}}

OwnerKinds == {"member", "dropMember", "dropProject"}

(* What the rows a write changes are part of (see Workspace for a stage's  *)
(* deletion, which clears the stage of all that names it).  The list of    *)
(* documents has the photos in it, with the entry they name, and the diary *)
(* has each entry's photos.                                                *)
Changes(kind) ==
    CASE kind = "expense" -> {"expenses", "summary"}
      [] kind = "stage" -> {"stages", "summary"}
      [] kind = "dropStage" -> AllKeys \ {"project", "members"}
      [] kind = "task" -> {"tasks"}
      [] kind = "document" -> {"documents"}
      [] kind = "entry" -> {"diary"}
      [] kind \in {"photo", "dropPhoto", "dropEntry"} -> {"documents", "diary"}
      [] kind = "project" -> {"project", "summary"}
      [] kind \in {"member", "dropMember"} -> {"members"}
      [] OTHER -> {}

(* StagesService and ExpensesService emit; both pages ask for these keys.   *)
Live == {"stage", "dropStage", "expense"}
OnActivity_listsOnly == {"stages", "expenses"}       \* a mistake
OnActivity == {"stages", "expenses", "summary"}

(* The promise: stage and expense changes reach everyone viewing, and a    *)
(* panel shows in its own list, and in the summary, what was written with  *)
(* it.  Not in either are the other lists that lose their stage to its     *)
(* deletion, and of documents and diary the one that the panel of a photo  *)
(* does not show: nothing tells their panels, not even on the writer's page. *)
Promised == {"stages", "expenses", "summary"}
Untold(kind) == IF kind \in Live THEN Changes(kind) \ Promised ELSE Changes(kind)
Asker(kind) == IF kind = "photo" THEN "entry" ELSE kind
Own(p, kind) == Changes(kind) \cap {p.shows, "summary"}

------------------------------------------------------------------------------
(* React Query, with its defaults.                                         *)

None == [at |-> "none", v |-> 0]
Asked == [at |-> "sent", v |-> 0]
Pending(t, k) == fetch[t][k].at \in {"sent", "checked", "got"}

(* cancelRefetch is false: what is being fetched is left to its answer. *)
Invalidate_keepsFetching(t, ks) ==
    LET asks == {k \in ks \cap Watched(t) : ~Pending(t, k)}
    IN  /\ fetch' = [fetch EXCEPT ![t] = [k \in Keys |-> IF k \in asks THEN Asked ELSE @[k]]]
        /\ untold' = [untold EXCEPT ![t] = @ \ asks]

(* A query that is fetching is cancelled, its answer dropped, and asked    *)
(* anew.  Queries nobody watches are asked when a panel mounts.            *)
Invalidate(t, ks) ==
    LET asks == ks \cap Watched(t)
    IN  /\ fetch' = [fetch EXCEPT ![t] = [k \in Keys |-> IF k \in asks THEN Asked ELSE @[k]]]
        /\ untold' = [untold EXCEPT ![t] = @ \ asks]

Idle == [kind |-> NoOne]
Init == /\ alive = TRUE
        /\ members = Tabs
        /\ version = [k \in Keys |-> 0]
        /\ page = [t \in Tabs |-> "closed"]
        /\ cache = [t \in Tabs |-> [k \in Keys |-> 0]]
        /\ fetch = [t \in Tabs |-> [k \in Keys |-> None]]
        /\ sock = [t \in Tabs |-> "off"]
        /\ coming = [t \in Tabs |-> <<>>]
        /\ write = [w \in Tabs \cup Others |-> Idle]
        /\ sent = 0
        /\ untold = [t \in Tabs |-> {}]
        /\ due = [t \in Tabs |-> [k \in Keys |-> 0]]
        /\ left = [t \in Tabs |-> [k \in Keys |-> 0]]
        /\ late = [t \in Tabs |-> {}]

(* The server component has read every key, some time ago, and degrades a  *)
(* failed reading to an empty default; a query cached since the page       *)
(* before keeps its data.  Either is stale: mounting asks for every key.   *)
Open(t, p) ==
    /\ page[t] = "closed" /\ t \in members
    /\ page' = [page EXCEPT ![t] = p]
    /\ \E shown \in [Keys -> 0 .. MaxWrites] :
          /\ \A k \in Keys : shown[k] <= version[k]
          /\ cache' = [cache EXCEPT ![t] = shown]
    /\ fetch' = [fetch EXCEPT ![t] = [k \in Keys |-> IF k \in Watched(t)' THEN Asked ELSE None]]
    /\ untold' = [untold EXCEPT ![t] = {}]
    /\ due' = [due EXCEPT ![t] = [k \in Keys |-> 0]]
    /\ UNCHANGED <<project, sock, coming, write, sent, left, late>>

OpenProject(t) == Open(t, "project")
OpenStage(t) == Open(t, "stage")

Leave(t) ==
    /\ page' = [page EXCEPT ![t] = "closed"]
    /\ sock' = [sock EXCEPT ![t] = "off"]
    /\ coming' = [coming EXCEPT ![t] = <<>>]
    /\ cache' = [cache EXCEPT ![t] = [k \in Keys |-> 0]]
    /\ fetch' = [fetch EXCEPT ![t] = [k \in Keys |-> None]]
    /\ untold' = [untold EXCEPT ![t] = {}]
    /\ due' = [due EXCEPT ![t] = [k \in Keys |-> 0]]

Close(t) == /\ page[t] # "closed"
            /\ Leave(t)
            /\ UNCHANGED <<project, write, sent, left, late>>

(* The window gets the focus, or the network is back. *)
Focus(t) ==
    /\ page[t] # "closed"
    /\ Invalidate(t, {k \in Keys : ~Pending(t, k)})
    /\ UNCHANGED <<project, page, cache, sock, coming, write, sent, due, left, late>>

(* A query on the server: findOwned, then findMany. *)
FetchStep(t, k, from, to) ==
    /\ fetch[t][k].at = from
    /\ fetch' = [fetch EXCEPT ![t][k] = to]
    /\ UNCHANGED <<project, page, cache, sock, coming, write, sent, history>>

(* The list is read without asking who wants it. *)
CheckRead_anyone(t, k) == FetchStep(t, k, "sent", [at |-> "checked", v |-> 0])

CheckRead(t, k) == t \in members /\ FetchStep(t, k, "sent", [at |-> "checked", v |-> 0])
Read(t, k) == FetchStep(t, k, "checked", [at |-> "got", v |-> version[k]])

(* 404, an error or no answer, after the last retry: the data stays.       *)
ReadFails(t, k) == \E from \in {"sent", "checked", "got"} :
                      FetchStep(t, k, from, [at |-> "failed", v |-> 0])

Show(t, k) ==
    /\ fetch[t][k].at = "got"
    /\ cache' = [cache EXCEPT ![t][k] = fetch[t][k].v]
    /\ fetch' = [fetch EXCEPT ![t][k] = None]
    /\ UNCHANGED <<project, page, sock, coming, write, sent, history>>

------------------------------------------------------------------------------
(* Writes: sent by a panel, checked and carried out by a service, which    *)
(* then emits the event of a live kind, and answered.                      *)

MayDo(w, kind) == /\ alive
                  /\ w \in Others \/ (w \in members /\ (kind \in OwnerKinds => w = Owner))

Offered(w, kind) == w \in Tabs => \E p \in PanelsOf(page[w]) : kind \in p.offers
Click(w, kind) ==
    /\ write[w].kind = NoOne /\ sent < MaxWrites
    /\ Offered(w, kind)
    /\ write' = [write EXCEPT ![w] = [kind |-> kind, at |-> "check"]]
    /\ sent' = sent + 1
    /\ UNCHANGED <<project, viewer, coming, history>>

WriteStep(w, from, to) ==
    /\ write[w].kind # NoOne /\ write[w].at = from
    /\ write' = [write EXCEPT ![w] = to]
    /\ UNCHANGED sent

(* The diary panel's mutation goes on with the entry's next photo.  If that *)
(* fails, the mutation has failed, and what it wrote before stays.          *)
Attach(w) ==
    /\ w \in Tabs /\ "photo" \in Sends
    /\ write[w].kind \in {"entry", "photo"} /\ sent < MaxWrites
    /\ sent' = sent + 1
    /\ write[w].at = "reply"
    /\ write' = [write EXCEPT ![w] = [kind |-> "photo", at |-> "check"]]
    /\ UNCHANGED <<project, viewer, coming, history>>

CheckWrite(w) ==
    /\ WriteStep(w, "check", [write[w] EXCEPT !.at = "commit"])
    /\ MayDo(w, write[w].kind)
    /\ UNCHANGED <<project, viewer, coming, history>>

(* Refused, or failed: the panel shows the error and invalidates nothing. *)
WriteFails(w) ==
    /\ \E at \in {"check", "commit"} : WriteStep(w, at, Idle)
    /\ UNCHANGED <<project, viewer, coming, history>>

(* Whom the write lets in or out; the project's deletion lets all out. *)
NewMembers(kind) ==
    CASE kind = "member" -> {members \cup {t} : t \in Tabs}
      [] kind = "dropMember" -> {members \ {t} : t \in Tabs \ {Owner}}
      [] kind = "dropProject" -> {{}}
      [] OTHER -> {members}

Commit(w) ==
    LET kind == write[w].kind
        done == [kind |-> kind, at |-> IF kind \in Live THEN "emit" ELSE "reply",
                 v |-> version']
    IN  /\ alive
        /\ alive' = (kind # "dropProject")
        /\ version' = [k \in Keys |-> IF k \in Changes(kind) THEN version[k] + 1
                                                             ELSE version[k]]
        /\ WriteStep(w, "commit", IF kind \in Live \/ w \in Tabs THEN done ELSE Idle)
        /\ members' \in NewMembers(kind)
        /\ untold' = [t \in Tabs |-> untold[t] \cup (Untold(kind) \cap Watched(t))]
        /\ LET out == members \ members'
           IN  /\ left' = [t \in Tabs |-> IF t \in out THEN version ELSE left[t]]
               /\ late' = [t \in Tabs |-> IF t \in out
                                          THEN {k \in Keys : fetch[t][k].at = "checked"}
                                          ELSE late[t]]
        /\ UNCHANGED <<viewer, coming, due>>

(* eventEmitter.emit after the write, and to the whole room.  A page that  *)
(* is not in the room misses the event.                                    *)
Tell(t, ks) == IF sock[t] = "joined" THEN Append(coming[t], ks) ELSE coming[t]
Emit(w) ==
    LET ks == Changes(write[w].kind) \cap Promised \cap Keys
    IN  /\ WriteStep(w, "emit", IF w \in Tabs THEN [write[w] EXCEPT !.at = "reply"] ELSE Idle)
        /\ coming' = [t \in Tabs |-> Tell(t, ks)]
        /\ untold' = [t \in Tabs |-> IF page[t] = "closed" \/ sock[t] = "joined"
                                     THEN untold[t] ELSE untold[t] \cup ks]
        /\ UNCHANGED <<project, viewer, due, left, late>>

(* onSuccess, on the page that sent the write or on one opened since; the   *)
(* deleted project's page leaves for the dashboard.                        *)
Reply(w) ==
    LET kind == write[w].kind
        panels == {p \in PanelsOf(page[w]) : Asker(kind) \in p.offers}
        ks == UNION {p.invalidates : p \in panels}
        own == UNION {Own(p, kind) : p \in panels}
    IN  /\ w \in Tabs /\ page[w] # "closed"
        /\ WriteStep(w, "reply", Idle)
        /\ IF kind = "dropProject"
           THEN Leave(w)
           ELSE /\ Invalidate(w, ks)
                /\ due' = [due EXCEPT ![w] = [k \in Keys |->
                              IF k \in own \cap Watched(w)
                              THEN write[w].v[k] ELSE @[k]]]
                /\ UNCHANGED <<page, cache, sock, coming>>
        /\ UNCHANGED <<project, left, late>>

(* The reply is lost, or nobody waits for it.  What the page has not been  *)
(* told it is not going to hear.                                           *)
NoReply(w) ==
    /\ WriteStep(w, "reply", Idle)
    /\ UNCHANGED <<project, viewer, coming, history>>

------------------------------------------------------------------------------
(* useProjectSocket and ProjectsGateway.                                   *)

SockStep(t, from, to) ==
    /\ page[t] # "closed" /\ sock[t] = from
    /\ sock' = [sock EXCEPT ![t] = to]
    /\ UNCHANGED <<project, page, cache, fetch, coming, write, sent, history>>

(* The handshake's token is good; or it is missing, expired or could not   *)
(* be fetched, and the server disconnects the client for good.             *)
Connect(t) == SockStep(t, "off", "up")
Reject(t) == SockStep(t, "off", "outside")

(* join-project: findOwned, then the room. *)
CheckJoin(t) == t \in members /\ SockStep(t, "up", "checked")
RefuseJoin(t) == SockStep(t, "up", "outside")
Join(t) == SockStep(t, "checked", "joined")

(* The connection drops, and what was on its way is lost.  The client      *)
(* connects and joins again; it does not ask for what it missed.           *)
Drop(t) ==
    /\ page[t] # "closed" /\ sock[t] # "off"
    /\ sock' = [sock EXCEPT ![t] = "off"]
    /\ untold' = [untold EXCEPT ![t] = @ \cup UNION {coming[t][i] : i \in DOMAIN coming[t]}]
    /\ coming' = [coming EXCEPT ![t] = <<>>]
    /\ UNCHANGED <<project, page, cache, fetch, write, sent, due, left, late>>

(* onActivity does not look into the event. *)
Deliver(t) ==
    /\ coming[t] # <<>>
    /\ coming' = [coming EXCEPT ![t] = Tail(@)]
    /\ Invalidate(t, OnActivity)
    /\ UNCHANGED <<project, page, cache, sock, write, sent, due, left, late>>

------------------------------------------------------------------------------
TabStep(t) == \/ OpenProject(t) \/ OpenStage(t) \/ Close(t) \/ Focus(t)
              \/ Connect(t) \/ Reject(t) \/ CheckJoin(t) \/ RefuseJoin(t) \/ Join(t)
              \/ Drop(t) \/ Deliver(t)
              \/ \E k \in Keys : CheckRead(t, k) \/ Read(t, k) \/ ReadFails(t, k) \/ Show(t, k)

WriterStep(w) == \/ \E kind \in Sends : Click(w, kind)
                 \/ Attach(w)
                 \/ CheckWrite(w) \/ WriteFails(w) \/ Commit(w) \/ Emit(w)
                 \/ Reply(w) \/ NoReply(w)

Next == \/ \E t \in Tabs : TabStep(t)
        \/ \E w \in Tabs \cup Others : WriterStep(w)

Spec == Init /\ [][Next]_vars

(* Requests, replies and events arrive or fail; nobody has to open, click, *)
(* connect or refocus.                                                     *)
FairSpec ==
    /\ Spec
    /\ \A t \in Tabs : /\ WF_vars(Deliver(t))
                       /\ \A k \in Keys : WF_vars(CheckRead(t, k) \/ Read(t, k)
                                                  \/ Show(t, k) \/ ReadFails(t, k))
    /\ \A w \in Tabs \cup Others : WF_vars(Emit(w))

------------------------------------------------------------------------------
(* Properties. *)

Opened(t) == page[t] # "closed"
(* The page shows version n, or is getting it, or says it could not. *)
Gets(t, k, n) == \/ cache[t][k] >= n
                 \/ fetch[t][k].at \in {"sent", "checked", "failed"}
                 \/ fetch[t][k].at = "got" /\ fetch[t][k].v >= n

(* Types. *)
Fetch == [at : {"none", "sent", "checked", "got", "failed"}, v : 0 .. MaxWrites]
TypeOK == /\ alive \in BOOLEAN
          /\ members \subseteq Tabs
          /\ version \in [Keys -> 0 .. MaxWrites]
          /\ page \in [Tabs -> {"closed", "project", "stage"}]
          /\ cache \in [Tabs -> [Keys -> 0 .. MaxWrites]]
          /\ fetch \in [Tabs -> [Keys -> Fetch]]
          /\ sock \in [Tabs -> {"off", "up", "checked", "joined", "outside"}]
          /\ coming \in [Tabs -> Seq(SUBSET Keys)]
          /\ DOMAIN write = Tabs \cup Others
          /\ sent \in 0 .. MaxWrites
          /\ untold \in [Tabs -> SUBSET Keys]
          /\ due \in [Tabs -> [Keys -> 0 .. MaxWrites]]
          /\ left \in [Tabs -> [Keys -> 0 .. MaxWrites]]
          /\ late \in [Tabs -> SUBSET Keys]

(* An open page agrees with the database, or is fetching or has failed to, *)
(* or an event is on its way or about to be emitted: however fetches,      *)
(* writes and events overtake one another.  The exceptions are writes no   *)
(* event tells of, and events emitted while the page was outside the room. *)
PagesAgree ==
    \A t \in Tabs : Opened(t) => \A k \in Watched(t) :
       \/ Gets(t, k, version[k])
       \/ k \in untold[t]
       \/ coming[t] # <<>>
       \/ \E w \in Tabs \cup Others : /\ write[w].kind \in Live /\ write[w].at = "emit"
                                      /\ k \in Changes(write[w].kind) \cap Promised

(* Whoever has been told that a write succeeded sees it in the list of the *)
(* panel that wrote it and in the summary, or the page is fetching, or has *)
(* failed to, whatever its socket is doing.  The panels invalidate no more *)
(* than these (diary-panel.tsx:41, document-panel.tsx:46): the other lists *)
(* that the write changes, by a photo or a stage's deletion, may be stale. *)
OwnWritesShown ==
    \A t \in Tabs : Opened(t) => \A k \in Watched(t) :
       Gets(t, k, due[t][k])

(* A member who has been removed, but stays on the page and in the room,   *)
(* is shown nothing that was written later, but for a reading that was     *)
(* past its check when the member was removed.                             *)
RemovedSeeNothingNew ==
    \A t \in Tabs \ members : \A k \in Keys \ late[t] : cache[t][k] <= left[t][k]

(* What a page is to hear of it shows in the end, unless it fails, is      *)
(* closed, or loses the event with its socket.                             *)
PagesCatchUp ==
    \A t \in Tabs, k \in Keys \cap Promised :
       (Opened(t) /\ cache[t][k] < version[k])
          ~> \/ cache[t][k] = version[k] \/ ~Opened(t) \/ k \notin Watched(t)
             \/ fetch[t][k].at = "failed" \/ k \in untold[t]
==============================================================================
