--------------------------- MODULE LivePage_proofs ---------------------------
(***************************************************************************)
(* Theorems about LivePage, for every set of browsers, of writers, of keys  *)
(* and of kinds of writes, and every number of writes.                     *)
(***************************************************************************)
EXTENDS LivePage, TLAPS

------------------------------------------------------------------------------
(* Type correctness. *)

(* The records of a request, and of a write before and after its commit.    *)
Request == [at : {"none", "sent", "checked", "got", "failed"}, v : Nat]
Begun == [kind : Sends, at : {"check", "commit"}]
Done == [kind : Sends, at : {"emit", "reply"}, v : [Keys -> Nat]]

(* What the tabs hold. *)
ViewTypes ==
    /\ page \in [Tabs -> {"closed", "project", "stage"}]
    /\ cache \in [Tabs -> [Keys -> Nat]]
    /\ fetch \in [Tabs -> [Keys -> Request]]
    /\ sock \in [Tabs -> {"off", "up", "checked", "joined", "outside"}]
    /\ untold \in [Tabs -> SUBSET Keys]
    /\ due \in [Tabs -> [Keys -> Nat]]

(* What the server, the room and the writers hold: events are only of what  *)
(* is promised.                                                             *)
RoomTypes ==
    /\ alive \in BOOLEAN
    /\ members \subseteq Tabs
    /\ version \in [Keys -> Nat]
    /\ coming \in [Tabs -> Seq(SUBSET (Keys \cap Promised))]
    /\ write \in [Tabs \cup Others -> Begun \cup Done \cup {Idle}]
    /\ left \in [Tabs -> [Keys -> Nat]]
    /\ late \in [Tabs -> SUBSET Keys]

(* The types. *)
Types == ViewTypes /\ RoomTypes

(* Which record a slot for writes holds follows from its fields. *)
LEMMA WriteFacts ==
    ASSUME RoomTypes, NEW w \in Tabs \cup Others, write[w].kind # NoOne
    PROVE  /\ write[w].kind \in Sends
           /\ write[w].at \in {"check", "commit"} => write[w] \in Begun
           /\ write[w].at \in {"emit", "reply"} => write[w] \in Done /\ write[w].v \in [Keys -> Nat]
<1>1. write[w] \in Begun \cup Done
  BY DEF RoomTypes, Idle
<1>2. write[w] \in Begun => write[w].kind \in Sends /\ write[w].at \in {"check", "commit"}
  BY DEF Begun
<1>3. write[w] \in Done => /\ write[w].kind \in Sends /\ write[w].at \in {"emit", "reply"}
                           /\ write[w].v \in [Keys -> Nat]
  BY DEF Done
<1> QED BY <1>1, <1>2, <1>3

(* What is watched are keys, and depends on the page alone. *)
LEMMA WatchedFacts ==
    /\ \A t \in Tabs : Watched(t) \subseteq Keys /\ (page[t] = "closed" => Watched(t) = {})
    /\ \A t \in Tabs : (Watched(t))' \subseteq Keys /\ (page'[t] = "closed" => (Watched(t))' = {})
    /\ \A t \in Tabs : page'[t] = page[t] => (Watched(t))' = Watched(t)
BY DEF Watched, PanelsOf

(* Invalidating asks for the keys named and watched, and for no others. *)
LEMMA InvalidateGoes ==
    ASSUME ViewTypes, NEW t \in Tabs, NEW ks, Invalidate(t, ks)
    PROVE  /\ fetch' \in [Tabs -> [Keys -> Request]] /\ untold' \in [Tabs -> SUBSET Keys]
           /\ \A u \in Tabs, j \in Keys : fetch'[u][j] \in {fetch[u][j], Asked}
           /\ \A j \in Watched(t) : j \in ks => fetch'[t][j] = Asked
           /\ \A u \in Tabs, j \in Keys :
                 j \in untold[u] => j \in untold'[u] \/ (u = t /\ j \in ks /\ j \in Watched(t))
<1>1. Asked \in Request
  BY DEF Asked, Request
<1>2. /\ fetch' = [fetch EXCEPT ![t] = [k \in Keys |-> IF k \in ks \cap Watched(t)
                                                      THEN Asked ELSE fetch[t][k]]]
      /\ untold' = [untold EXCEPT ![t] = untold[t] \ (ks \cap Watched(t))]
  BY DEF Invalidate, ViewTypes
<1>3. fetch \in [Tabs -> [Keys -> Request]] /\ untold \in [Tabs -> SUBSET Keys]
  BY DEF ViewTypes
<1>4. [k \in Keys |-> IF k \in ks \cap Watched(t) THEN Asked ELSE fetch[t][k]] \in [Keys -> Request]
  BY <1>1, <1>3
<1>5. fetch' \in [Tabs -> [Keys -> Request]] /\ untold' \in [Tabs -> SUBSET Keys]
  BY <1>2, <1>3, <1>4
<1> QED BY <1>2, <1>3, <1>5, WatchedFacts

(* Leaving forgets all of the tab, and nothing of the others. *)
LEMMA LeaveGoes ==
    ASSUME ViewTypes, RoomTypes, NEW t \in Tabs, Leave(t)
    PROVE  /\ ViewTypes' /\ coming' \in [Tabs -> Seq(SUBSET (Keys \cap Promised))]
           /\ page'[t] = "closed" /\ fetch'[t] = [k \in Keys |-> None]
           /\ \A k \in Keys : cache'[t][k] = 0 /\ due'[t][k] = 0
           /\ \A u \in Tabs \ {t} : /\ page'[u] = page[u] /\ cache'[u] = cache[u]
                                    /\ fetch'[u] = fetch[u] /\ untold'[u] = untold[u]
                                    /\ due'[u] = due[u] /\ coming'[u] = coming[u]
<1>1. None \in Request
  BY DEF None, Request
<1>2. /\ [k \in Keys |-> None] \in [Keys -> Request] /\ [k \in Keys |-> 0] \in [Keys -> Nat]
      /\ <<>> \in Seq(SUBSET (Keys \cap Promised))
  BY <1>1
<1>3. page' \in [Tabs -> {"closed", "project", "stage"}]
      /\ page'[t] = "closed" /\ \A u \in Tabs \ {t} : page'[u] = page[u]
  BY DEF Leave, ViewTypes
<1>4. sock' \in [Tabs -> {"off", "up", "checked", "joined", "outside"}]
  BY DEF Leave, ViewTypes
<1>5. /\ cache' \in [Tabs -> [Keys -> Nat]] /\ cache'[t] = [k \in Keys |-> 0]
      /\ \A u \in Tabs \ {t} : cache'[u] = cache[u]
  BY <1>2 DEF Leave, ViewTypes
<1>6. /\ due' \in [Tabs -> [Keys -> Nat]] /\ due'[t] = [k \in Keys |-> 0]
      /\ \A u \in Tabs \ {t} : due'[u] = due[u]
  BY <1>2 DEF Leave, ViewTypes
<1>7. /\ fetch' \in [Tabs -> [Keys -> Request]] /\ fetch'[t] = [k \in Keys |-> None]
      /\ \A u \in Tabs \ {t} : fetch'[u] = fetch[u]
  BY <1>2 DEF Leave, ViewTypes
<1>8. /\ untold' \in [Tabs -> SUBSET Keys]
      /\ \A u \in Tabs \ {t} : untold'[u] = untold[u]
  BY DEF Leave, ViewTypes
<1>9. /\ coming' \in [Tabs -> Seq(SUBSET (Keys \cap Promised))]
      /\ \A u \in Tabs \ {t} : coming'[u] = coming[u]
  BY <1>2 DEF Leave, RoomTypes
<1> QED BY <1>3, <1>4, <1>5, <1>6, <1>7, <1>8, <1>9 DEF ViewTypes

(* Opening shows nothing newer than the database, and asks for what it shows. *)
LEMMA OpenGoes ==
    ASSUME ViewTypes, NEW t \in Tabs, NEW p \in {"project", "stage"}, Open(t, p)
    PROVE  /\ ViewTypes' /\ page[t] = "closed" /\ page'[t] = p /\ t \in members
           /\ \A k \in Keys : /\ cache'[t][k] <= version[k] /\ due'[t][k] = 0
                              /\ fetch'[t][k] = IF k \in (Watched(t))' THEN Asked ELSE None
           /\ \A u \in Tabs \ {t} : /\ page'[u] = page[u] /\ cache'[u] = cache[u]
                                    /\ fetch'[u] = fetch[u] /\ untold'[u] = untold[u]
                                    /\ due'[u] = due[u]
<1>1. Asked \in Request /\ None \in Request
  BY DEF Asked, None, Request
<1>2. /\ [k \in Keys |-> IF k \in (Watched(t))' THEN Asked ELSE None] \in [Keys -> Request]
      /\ [k \in Keys |-> 0] \in [Keys -> Nat]
  BY <1>1
<1>3. /\ page' \in [Tabs -> {"closed", "project", "stage"}] /\ page[t] = "closed" /\ t \in members
      /\ page'[t] = p /\ \A u \in Tabs \ {t} : page'[u] = page[u]
  BY DEF Open, ViewTypes
<1>4. PICK shown \in [Keys -> 0 .. MaxWrites] :
         (\A k \in Keys : shown[k] <= version[k]) /\ cache' = [cache EXCEPT ![t] = shown]
  BY DEF Open
<1>5. shown \in [Keys -> Nat]
  BY LivePageAssumption DEF LivePageAssumption
<1>6. /\ cache' \in [Tabs -> [Keys -> Nat]] /\ cache'[t] = shown
      /\ \A u \in Tabs \ {t} : cache'[u] = cache[u]
  BY <1>4, <1>5 DEF ViewTypes
<1>7. /\ due' \in [Tabs -> [Keys -> Nat]] /\ due'[t] = [k \in Keys |-> 0]
      /\ \A u \in Tabs \ {t} : due'[u] = due[u]
  BY <1>2 DEF Open, ViewTypes
<1>8. /\ fetch' \in [Tabs -> [Keys -> Request]]
      /\ fetch'[t] = [k \in Keys |-> IF k \in (Watched(t))' THEN Asked ELSE None]
      /\ \A u \in Tabs \ {t} : fetch'[u] = fetch[u]
  BY <1>2 DEF Open, ViewTypes
<1>9. untold' \in [Tabs -> SUBSET Keys] /\ \A u \in Tabs \ {t} : untold'[u] = untold[u]
  BY DEF Open, ViewTypes
<1>10. sock' \in [Tabs -> {"off", "up", "checked", "joined", "outside"}]
  BY DEF Open, ViewTypes
<1> QED BY <1>3, <1>4, <1>6, <1>7, <1>8, <1>9, <1>10 DEF ViewTypes

(* One request of one tab changes. *)
LEMMA FetchGoes ==
    ASSUME ViewTypes, NEW t \in Tabs, NEW k \in Keys, NEW to \in Request,
           fetch' = [fetch EXCEPT ![t][k] = to]
    PROVE  /\ fetch' \in [Tabs -> [Keys -> Request]] /\ fetch'[t][k] = to
           /\ \A u \in Tabs, j \in Keys : u # t \/ j # k => fetch'[u][j] = fetch[u][j]
<1>1. fetch \in [Tabs -> [Keys -> Request]]
  BY DEF ViewTypes
<1>2. \A u \in Tabs : fetch'[u] = IF u = t THEN [fetch[t] EXCEPT ![k] = to] ELSE fetch[u]
  BY <1>1
<1>3. [fetch[t] EXCEPT ![k] = to] \in [Keys -> Request]
  BY <1>1
<1>4. fetch' \in [Tabs -> [Keys -> Request]]
  BY <1>1, <1>3
<1> QED BY <1>1, <1>2, <1>4

(* One key of one tab is shown anew. *)
LEMMA ShowGoes ==
    ASSUME ViewTypes, NEW t \in Tabs, NEW k \in Keys, NEW n \in Nat,
           cache' = [cache EXCEPT ![t][k] = n]
    PROVE  /\ cache' \in [Tabs -> [Keys -> Nat]] /\ cache'[t][k] = n
           /\ \A u \in Tabs, j \in Keys : u # t \/ j # k => cache'[u][j] = cache[u][j]
<1>1. cache \in [Tabs -> [Keys -> Nat]]
  BY DEF ViewTypes
<1>2. \A u \in Tabs : cache'[u] = IF u = t THEN [cache[t] EXCEPT ![k] = n] ELSE cache[u]
  BY <1>1
<1>3. [cache[t] EXCEPT ![k] = n] \in [Keys -> Nat]
  BY <1>1
<1>4. cache' \in [Tabs -> [Keys -> Nat]]
  BY <1>1, <1>3
<1> QED BY <1>1, <1>2, <1>4

(* A panel invalidates its own list and the summary, if what it has written *)
(* changes them.                                                            *)
LEMMA PanelsInvalidate ==
    ASSUME NEW t \in Tabs, NEW p \in PanelsOf(page[t]), NEW kind, Asker(kind) \in p.offers
    PROVE  Own(p, kind) \subseteq p.invalidates
<1>1. ASSUME p \in ProjectPage \cup StagePage
      PROVE  Own(p, kind) \subseteq p.invalidates
  <2>1. CASE p = ProjectForm
    BY <2>1 DEF ProjectForm, Panel, Own, Asker, Changes
  <2>2. CASE p = DeleteButton
    BY <2>2 DEF DeleteButton, Panel, Own, Asker, Changes
  <2>3. CASE p = StagePanel \/ p = StatusSelect
    BY <2>3 DEF StagePanel, StatusSelect, Panel, Own, Asker, Changes
  <2>4. CASE p = ExpensePanel
    BY <2>4 DEF ExpensePanel, Panel, Own, Asker, Changes
  <2>5. CASE p = DocumentPanel
    BY <2>5 DEF DocumentPanel, Panel, Own, Asker, Changes
  <2>6. CASE p = DiaryPanel
    BY <2>6 DEF DiaryPanel, Panel, Own, Asker, Changes
  <2>7. CASE p = TaskPanel
    BY <2>7 DEF TaskPanel, Panel, Own, Asker, Changes
  <2>8. CASE p = MembersPanel
    BY <2>8 DEF MembersPanel, Panel, Own, Asker, Changes
  <2> QED BY <1>1, <2>1, <2>2, <2>3, <2>4, <2>5, <2>6, <2>7, <2>8 DEF ProjectPage, StagePage
<1> QED BY <1>1 DEF PanelsOf

(* What a step does to what a tab shows, asks for and is owed of a key. *)
Goes(t, k) ==
    \/ cache'[t][k] = cache[t][k] /\ fetch'[t][k] \in {fetch[t][k], Asked}
    \/ cache'[t][k] = cache[t][k] /\ fetch'[t][k].at = "failed"
    \/ /\ cache'[t][k] = cache[t][k] /\ t \in members
       /\ fetch[t][k].at = "sent" /\ fetch'[t][k].at = "checked"
    \/ /\ cache'[t][k] = cache[t][k]
       /\ fetch[t][k].at = "checked" /\ fetch'[t][k].at = "got" /\ fetch'[t][k].v = version[k]
    \/ /\ fetch[t][k].at = "got" /\ cache'[t][k] = fetch[t][k].v /\ fetch'[t][k] = None
    \/ page'[t] = "closed" /\ cache'[t][k] = 0 /\ fetch'[t][k] = None
    \/ /\ t \in members /\ cache'[t][k] <= version[k] /\ version'[k] = version[k]
       /\ fetch'[t][k] = IF k \in (Watched(t))' THEN Asked ELSE None

Owed(t, k) ==
    \/ due'[t][k] = due[t][k] \/ due'[t][k] = 0
    \/ /\ k \in Watched(t) /\ fetch'[t][k] = Asked /\ page'[t] = page[t]
       /\ \E w \in Tabs : /\ write[w].kind # NoOne /\ write[w].at = "reply"
                          /\ due'[t][k] = write[w].v[k]

Turns(t) == \/ page'[t] = page[t] \/ page'[t] = "closed"
            \/ \A k \in (Watched(t))' : fetch'[t][k] = Asked

Viewed == \A t \in Tabs : Turns(t) /\ \A k \in Keys : Goes(t, k) /\ Owed(t, k)

(* A request goes one step on, and turns into nothing else. *)
LEMMA FetchStepViewed ==
    ASSUME Types, NEW t \in Tabs, NEW k \in Keys,
           CheckRead(t, k) \/ Read(t, k) \/ ReadFails(t, k) \/ Show(t, k)
    PROVE  ViewTypes' /\ Viewed
<1>1. /\ UNCHANGED <<page, sock, untold, due>> /\ version \in [Keys -> Nat]
      /\ fetch \in [Tabs -> [Keys -> Request]]
  BY DEF CheckRead, Read, ReadFails, Show, FetchStep, project, history, Types, ViewTypes, RoomTypes
<1>2. ASSUME NEW to \in Request, fetch' = [fetch EXCEPT ![t][k] = to], cache' = cache,
             \/ to.at = "failed"
             \/ t \in members /\ fetch[t][k].at = "sent" /\ to.at = "checked"
             \/ fetch[t][k].at = "checked" /\ to.at = "got" /\ to.v = version[k]
      PROVE  ViewTypes' /\ Viewed
  <2>1. ViewTypes
    BY DEF Types
  <2>2. /\ fetch' \in [Tabs -> [Keys -> Request]] /\ fetch'[t][k] = to
        /\ \A u \in Tabs, j \in Keys : u # t \/ j # k => fetch'[u][j] = fetch[u][j]
    BY <1>2, <2>1, FetchGoes
  <2>3. ViewTypes'
    BY <1>1, <1>2, <2>1, <2>2 DEF ViewTypes
  <2>4. \A u \in Tabs, j \in Keys : Goes(u, j)
    BY <1>2, <2>2 DEF Goes
  <2> QED BY <1>1, <2>3, <2>4 DEF Viewed, Turns, Owed
<1>3. CASE CheckRead(t, k)
  <2> DEFINE to == [at |-> "checked", v |-> 0]
  <2>1. to \in Request /\ to.at = "checked"
    BY DEF Request
  <2>2. /\ t \in members /\ fetch[t][k].at = "sent"
        /\ fetch' = [fetch EXCEPT ![t][k] = to] /\ cache' = cache
    BY <1>3 DEF CheckRead, FetchStep
  <2> HIDE DEF to
  <2> QED BY <1>2, <2>1, <2>2
<1>4. CASE Read(t, k)
  <2> DEFINE to == [at |-> "got", v |-> version[k]]
  <2>1. to \in Request /\ to.at = "got" /\ to.v = version[k]
    BY <1>1 DEF Request
  <2>2. /\ fetch[t][k].at = "checked"
        /\ fetch' = [fetch EXCEPT ![t][k] = to] /\ cache' = cache
    BY <1>4 DEF Read, FetchStep
  <2> HIDE DEF to
  <2> QED BY <1>2, <2>1, <2>2
<1>5. CASE ReadFails(t, k)
  <2> DEFINE to == [at |-> "failed", v |-> 0]
  <2>1. to \in Request /\ to.at = "failed"
    BY DEF Request
  <2>2. fetch' = [fetch EXCEPT ![t][k] = to] /\ cache' = cache
    BY <1>5 DEF ReadFails, FetchStep
  <2> HIDE DEF to
  <2> QED BY <1>2, <2>1, <2>2
<1>6. CASE Show(t, k)
  <2>1. ViewTypes /\ None \in Request /\ fetch[t][k].v \in Nat
    BY <1>1 DEF Types, None, Request
  <2>2. /\ fetch[t][k].at = "got" /\ cache' = [cache EXCEPT ![t][k] = fetch[t][k].v]
        /\ fetch' = [fetch EXCEPT ![t][k] = None]
    BY <1>6 DEF Show
  <2>3. /\ fetch' \in [Tabs -> [Keys -> Request]] /\ fetch'[t][k] = None
        /\ \A u \in Tabs, j \in Keys : u # t \/ j # k => fetch'[u][j] = fetch[u][j]
    BY <2>1, <2>2, FetchGoes
  <2>4. /\ cache' \in [Tabs -> [Keys -> Nat]] /\ cache'[t][k] = fetch[t][k].v
        /\ \A u \in Tabs, j \in Keys : u # t \/ j # k => cache'[u][j] = cache[u][j]
    BY <2>1, <2>2, ShowGoes
  <2>5. ViewTypes'
    BY <1>1, <2>1, <2>3, <2>4 DEF ViewTypes
  <2>6. \A u \in Tabs, j \in Keys : Goes(u, j)
    BY <2>2, <2>3, <2>4 DEF Goes
  <2> QED BY <1>1, <2>5, <2>6 DEF Viewed, Turns, Owed
<1> QED BY <1>3, <1>4, <1>5, <1>6

(* An answered write is owed to its tab, which asks for all of it or is left. *)
LEMMA ReplyViewed ==
    ASSUME Types, NEW w \in Tabs \cup Others, Reply(w)
    PROVE  ViewTypes' /\ Viewed
<1>1. CASE write[w].kind = "dropProject"
  <2>1. w \in Tabs /\ Leave(w)
    BY <1>1 DEF Reply
  <2> QED BY <2>1, LeaveGoes DEF Types, Viewed, Goes, Owed, Turns
<1>2. CASE write[w].kind # "dropProject"
  <2> DEFINE kind == write[w].kind
             panels == {p \in PanelsOf(page[w]) : Asker(kind) \in p.offers}
             ks == UNION {p.invalidates : p \in panels}
             own == UNION {Own(p, kind) : p \in panels}
             new == [k \in Keys |-> IF k \in own \cap Watched(w)
                                    THEN write[w].v[k] ELSE due[w][k]]
  <2>1. /\ w \in Tabs /\ Invalidate(w, ks) /\ UNCHANGED <<page, cache, sock>>
        /\ due' = [due EXCEPT ![w] = new]
        /\ write[w].kind # NoOne /\ write[w].at = "reply"
    BY <1>2 DEF Reply, WriteStep, Types, ViewTypes
  <2>2. own \subseteq ks
    <3>1. ASSUME NEW p \in panels PROVE Own(p, kind) \subseteq p.invalidates
      BY <2>1, PanelsInvalidate
    <3> HIDE DEF panels
    <3> QED BY <3>1
  <2>3. /\ fetch' \in [Tabs -> [Keys -> Request]] /\ untold' \in [Tabs -> SUBSET Keys]
        /\ \A u \in Tabs, j \in Keys : fetch'[u][j] \in {fetch[u][j], Asked}
        /\ \A j \in Watched(w) : j \in ks => fetch'[w][j] = Asked
    <3> HIDE DEF ks
    <3>1. PICK c : c = ks
      OBVIOUS
    <3>2. Invalidate(w, c)
      BY <2>1, <3>1 DEF Invalidate
    <3> QED BY <2>1, <3>1, <3>2, InvalidateGoes DEF Types
  <2>4. new \in [Keys -> Nat]
    <3>1. write[w].v \in [Keys -> Nat] /\ due[w] \in [Keys -> Nat]
      BY <2>1, WriteFacts DEF Types, ViewTypes
    <3> QED BY <3>1
  <2>5. \A j \in Keys : \/ new[j] = due[w][j]
                        \/ j \in Watched(w) /\ j \in ks /\ new[j] = write[w].v[j]
    BY <2>2
  <2> HIDE DEF new, ks
  <2>6. due' \in [Tabs -> [Keys -> Nat]] /\ \A u \in Tabs : due'[u] = IF u = w THEN new ELSE due[u]
    BY <2>1, <2>4 DEF Types, ViewTypes
  <2>7. ViewTypes'
    BY <2>1, <2>3, <2>6 DEF Types, ViewTypes
  <2>8. \A u \in Tabs, j \in Keys : Goes(u, j)
    BY <2>1, <2>3 DEF Goes
  <2>9. \A u \in Tabs, j \in Keys : Owed(u, j)
    BY <2>1, <2>3, <2>5, <2>6 DEF Owed
  <2> QED BY <2>1, <2>7, <2>8, <2>9 DEF Viewed, Turns
<1> QED BY <1>1, <1>2

(* Every step keeps the types of the tabs, and shows what it may. *)
LEMMA ViewStep == Types /\ [Next]_vars => ViewTypes' /\ Viewed
<1> SUFFICES ASSUME Types, [Next]_vars PROVE ViewTypes' /\ Viewed
  OBVIOUS
<1>0. ViewTypes /\ RoomTypes
  BY DEF Types
<1>1. ASSUME NEW t \in Tabs, NEW p \in {"project", "stage"}, Open(t, p)
      PROVE  ViewTypes' /\ Viewed
  <2>1. version' = version
    BY <1>1 DEF Open, project
  <2>2. /\ ViewTypes' /\ page'[t] = p /\ t \in members
        /\ \A k \in Keys : /\ cache'[t][k] <= version[k] /\ due'[t][k] = 0
                           /\ fetch'[t][k] = IF k \in (Watched(t))' THEN Asked ELSE None
        /\ \A u \in Tabs \ {t} : /\ page'[u] = page[u] /\ cache'[u] = cache[u]
                                 /\ fetch'[u] = fetch[u] /\ due'[u] = due[u]
    BY <1>0, <1>1, OpenGoes
  <2>3. \A u \in Tabs, j \in Keys : Goes(u, j) /\ Owed(u, j)
    BY <2>1, <2>2 DEF Goes, Owed
  <2>4. \A u \in Tabs : Turns(u)
    BY <2>2, WatchedFacts DEF Turns
  <2> QED BY <2>2, <2>3, <2>4 DEF Viewed
<1>2. ASSUME NEW t \in Tabs, Close(t)
      PROVE  ViewTypes' /\ Viewed
  BY <1>0, <1>2, LeaveGoes DEF Close, Viewed, Goes, Owed, Turns
<1>3. ASSUME NEW t \in Tabs, NEW ks, Invalidate(t, ks), UNCHANGED <<page, cache, sock, due>>
      PROVE  ViewTypes' /\ Viewed
  <2>1. /\ fetch' \in [Tabs -> [Keys -> Request]] /\ untold' \in [Tabs -> SUBSET Keys]
        /\ \A u \in Tabs, j \in Keys : fetch'[u][j] \in {fetch[u][j], Asked}
    BY <1>0, <1>3, InvalidateGoes
  <2>2. ViewTypes'
    BY <1>0, <1>3, <2>1 DEF ViewTypes
  <2>3. \A u \in Tabs, j \in Keys : Goes(u, j) /\ Owed(u, j)
    BY <1>3, <2>1 DEF Goes, Owed
  <2> QED BY <1>3, <2>2, <2>3 DEF Viewed, Turns
<1>4. ASSUME UNCHANGED <<page, cache, fetch, due>>,
             sock' \in [Tabs -> {"off", "up", "checked", "joined", "outside"}],
             untold' \in [Tabs -> SUBSET Keys]
      PROVE  ViewTypes' /\ Viewed
  BY <1>0, <1>4 DEF ViewTypes, Viewed, Goes, Owed, Turns
<1>5. ASSUME NEW t \in Tabs, NEW from, NEW to \in {"up", "checked", "joined", "outside"}, SockStep(t, from, to)
      PROVE  ViewTypes' /\ Viewed
  BY <1>0, <1>4, <1>5 DEF SockStep, ViewTypes, history
<1>6. ASSUME NEW t \in Tabs, Drop(t)
      PROVE  ViewTypes' /\ Viewed
  <2>1. UNION {coming[t][i] : i \in DOMAIN coming[t]} \subseteq Keys
    BY <1>0 DEF RoomTypes
  <2> QED BY <1>0, <1>4, <1>6, <2>1 DEF Drop, ViewTypes
<1>7. ASSUME NEW w \in Tabs \cup Others, Commit(w)
      PROVE  ViewTypes' /\ Viewed
  <2>1. UNCHANGED viewer /\ UNCHANGED due
    BY <1>7 DEF Commit
  <2>2. untold' \in [Tabs -> SUBSET Keys]
    BY <1>0, <1>7, WatchedFacts DEF Commit, ViewTypes
  <2> QED BY <1>0, <1>4, <2>1, <2>2 DEF viewer, ViewTypes
<1>8. ASSUME NEW w \in Tabs \cup Others, Emit(w)
      PROVE  ViewTypes' /\ Viewed
  <2>1. UNCHANGED viewer /\ UNCHANGED due
    BY <1>8 DEF Emit
  <2>2. untold' \in [Tabs -> SUBSET Keys]
    BY <1>0, <1>8 DEF Emit, ViewTypes
  <2> QED BY <1>0, <1>4, <2>1, <2>2 DEF viewer, ViewTypes
<1>9. CASE UNCHANGED <<viewer, history>>
  BY <1>0, <1>4, <1>9 DEF viewer, history, ViewTypes
<1>10. ASSUME NEW t \in Tabs, TabStep(t)
       PROVE  ViewTypes' /\ Viewed
  <2>1. CASE Focus(t) \/ Deliver(t)
    BY <1>3, <2>1 DEF Focus, Deliver
  <2>2. CASE Connect(t) \/ Reject(t) \/ CheckJoin(t) \/ RefuseJoin(t) \/ Join(t)
    BY <1>5, <2>2 DEF Connect, Reject, CheckJoin, RefuseJoin, Join
  <2>3. CASE \E k \in Keys : CheckRead(t, k) \/ Read(t, k) \/ ReadFails(t, k) \/ Show(t, k)
    BY <2>3, FetchStepViewed
  <2> QED BY <1>1, <1>2, <1>6, <1>10, <2>1, <2>2, <2>3 DEF TabStep, OpenProject, OpenStage
<1>11. ASSUME NEW w \in Tabs \cup Others, WriterStep(w)
       PROVE  ViewTypes' /\ Viewed
  <2>1. CASE \/ (\E kind \in Sends : Click(w, kind)) \/ Attach(w)
             \/ CheckWrite(w) \/ WriteFails(w) \/ NoReply(w)
    BY <1>9, <2>1 DEF Click, Attach, CheckWrite, WriteFails, NoReply
  <2> QED BY <1>7, <1>8, <1>11, <2>1, ReplyViewed DEF WriterStep
<1>12. CASE UNCHANGED vars
  BY <1>9, <1>12 DEF vars
<1> QED BY <1>10, <1>11, <1>12 DEF Next

(* What a step does to the writes, and to whom it puts out. *)
WriteGoes(w) ==
    \/ write'[w] \in {write[w], Idle} \/ write'[w] \in Begun
    \/ /\ write[w].kind # NoOne /\ write[w].at = "emit"
       /\ write'[w] \in Done /\ write'[w].v = write[w].v
    \/ write'[w] \in Done /\ write'[w].v = version'

Parts(t) ==
    \/ t \in members'
    \/ t \notin members /\ left'[t] = left[t] /\ late'[t] = late[t]
    \/ /\ cache'[t] = cache[t] /\ fetch'[t] = fetch[t] /\ left'[t] = version
       /\ late'[t] = {k \in Keys : fetch[t][k].at = "checked"}

Roomed == /\ \A k \in Keys : version'[k] \in {version[k], version[k] + 1}
          /\ \A w \in Tabs \cup Others : WriteGoes(w)
          /\ \A t \in Tabs : Parts(t)

(* A commit adds one to what it changes, and notes whom it puts out. *)
LEMMA CommitRoomed ==
    ASSUME Types, NEW w \in Tabs \cup Others, Commit(w)
    PROVE  RoomTypes' /\ Roomed
<1> DEFINE kind == write[w].kind
           done == [kind |-> kind, at |-> IF kind \in Live THEN "emit" ELSE "reply",
                    v |-> version']
           to == IF kind \in Live \/ w \in Tabs THEN done ELSE Idle
<1>0. ViewTypes /\ RoomTypes /\ version \in [Keys -> Nat]
  BY DEF Types, RoomTypes
<1>1. /\ kind # NoOne /\ write[w].at = "commit" /\ write' = [write EXCEPT ![w] = to]
      /\ alive' \in BOOLEAN /\ UNCHANGED <<viewer, coming>>
  BY DEF Commit, WriteStep
<1>2. kind \in Sends
  BY <1>0, <1>1, WriteFacts
<1>3. version' = [k \in Keys |-> IF k \in Changes(kind) THEN version[k] + 1 ELSE version[k]]
  BY DEF Commit
<1>4. /\ version' \in [Keys -> Nat]
      /\ \A k \in Keys : version'[k] \in {version[k], version[k] + 1}
  BY <1>0, <1>3
<1>5. PICK x \in [Keys -> Nat] : x = version'
  BY <1>4
<1>6. done \in Done /\ done.v = version'
  <2>1. done = [kind |-> kind, at |-> IF kind \in Live THEN "emit" ELSE "reply", v |-> x]
    BY <1>5
  <2> HIDE DEF done
  <2> QED BY <1>2, <1>5, <2>1 DEF Done
<1> HIDE DEF done
<1>7. to = Idle \/ (to \in Done /\ to.v = version')
  BY <1>6
<1> HIDE DEF to
<1>8. /\ write' \in [Tabs \cup Others -> Begun \cup Done \cup {Idle}]
      /\ \A y \in Tabs \cup Others : write'[y] = IF y = w THEN to ELSE write[y]
  BY <1>0, <1>1, <1>7 DEF RoomTypes
<1>9. \A y \in Tabs \cup Others : WriteGoes(y)
  BY <1>7, <1>8 DEF WriteGoes
<1>10. members' \subseteq Tabs
  <2>1. \A m \in NewMembers(kind) : m \subseteq Tabs
    BY <1>0 DEF NewMembers, RoomTypes
  <2> QED BY <2>1 DEF Commit
<1>11. /\ left' = [t \in Tabs |-> IF t \in members \ members' THEN version ELSE left[t]]
       /\ late' = [t \in Tabs |-> IF t \in members \ members'
                                  THEN {k \in Keys : fetch[t][k].at = "checked"} ELSE late[t]]
  BY DEF Commit
<1>12. left' \in [Tabs -> [Keys -> Nat]] /\ late' \in [Tabs -> SUBSET Keys]
  BY <1>0, <1>11 DEF RoomTypes
<1>13. \A t \in Tabs : Parts(t)
  BY <1>1, <1>11 DEF Parts, viewer
<1>14. coming' \in [Tabs -> Seq(SUBSET (Keys \cap Promised))]
  BY <1>0, <1>1 DEF RoomTypes
<1> QED BY <1>1, <1>4, <1>8, <1>9, <1>10, <1>12, <1>13, <1>14 DEF RoomTypes, Roomed

(* Every step keeps the types of the room. *)
LEMMA RoomStep == Types /\ [Next]_vars => RoomTypes' /\ Roomed
<1> SUFFICES ASSUME Types, [Next]_vars PROVE RoomTypes' /\ Roomed
  OBVIOUS
<1>0. ViewTypes /\ RoomTypes
  BY DEF Types
<1> DEFINE Comings == [Tabs -> Seq(SUBSET (Keys \cap Promised))]
<1>1. ASSUME UNCHANGED <<project, write, left, late>>, coming' \in Comings
      PROVE  RoomTypes' /\ Roomed
  BY <1>0, <1>1 DEF RoomTypes, Roomed, WriteGoes, Parts, project
<1>2. ASSUME NEW w \in Tabs \cup Others, NEW to \in Begun \cup Done \cup {Idle},
             write' = [write EXCEPT ![w] = to],
             UNCHANGED <<project, left, late>>, coming' \in Comings,
             \/ to \in Begun \cup {Idle}
             \/ write[w].kind # NoOne /\ write[w].at = "emit" /\ to \in Done /\ to.v = write[w].v
      PROVE  RoomTypes' /\ Roomed
  <2>1. /\ write' \in [Tabs \cup Others -> Begun \cup Done \cup {Idle}]
        /\ \A y \in Tabs \cup Others : write'[y] = IF y = w THEN to ELSE write[y]
    BY <1>0, <1>2 DEF RoomTypes
  <2>2. \A y \in Tabs \cup Others : WriteGoes(y)
    BY <1>2, <2>1 DEF WriteGoes
  <2>3. RoomTypes'
    BY <1>0, <1>2, <2>1 DEF RoomTypes, project
  <2> QED BY <1>0, <1>2, <2>2, <2>3 DEF RoomTypes, Roomed, Parts, project
<1>3. coming \in Comings
  BY <1>0 DEF RoomTypes
<1>4. ASSUME NEW t \in Tabs, Deliver(t)
      PROVE  RoomTypes' /\ Roomed
  <2>1. /\ coming[t] \in Seq(SUBSET (Keys \cap Promised)) /\ coming[t] # <<>>
        /\ coming' = [coming EXCEPT ![t] = Tail(coming[t])]
    BY <1>3, <1>4 DEF Deliver
  <2>2. Tail(coming[t]) \in Seq(SUBSET (Keys \cap Promised))
    BY <2>1
  <2>3. coming' \in Comings
    BY <1>3, <2>1, <2>2
  <2> HIDE DEF Comings
  <2> QED BY <1>1, <1>4, <2>3 DEF Deliver
<1>5. ASSUME NEW t \in Tabs, Drop(t)
      PROVE  RoomTypes' /\ Roomed
  <2>1. coming' \in Comings
    BY <1>3, <1>5 DEF Drop
  <2> HIDE DEF Comings
  <2> QED BY <1>1, <1>5, <2>1 DEF Drop
<1>6. ASSUME NEW t \in Tabs, Close(t)
      PROVE  RoomTypes' /\ Roomed
  BY <1>0, <1>1, <1>6, LeaveGoes DEF Close
<1>7. ASSUME NEW t \in Tabs, TabStep(t)
      PROVE  RoomTypes' /\ Roomed
  <2>1. CASE UNCHANGED <<project, coming, write, left, late>>
    BY <1>1, <1>3, <2>1
  <2> HIDE DEF Comings
  <2> QED
    BY <1>4, <1>5, <1>6, <1>7, <2>1
    DEF TabStep, OpenProject, OpenStage, Open, Focus, Connect, Reject, CheckJoin, RefuseJoin, Join,
        SockStep, CheckRead, Read, ReadFails, Show, FetchStep, history
<1>8. ASSUME NEW w \in Tabs \cup Others, Emit(w)
      PROVE  RoomTypes' /\ Roomed
  <2> DEFINE ks == Changes(write[w].kind) \cap Promised \cap Keys
             to == IF w \in Tabs THEN [write[w] EXCEPT !.at = "reply"] ELSE Idle
  <2>1. /\ write[w].kind # NoOne /\ write[w].at = "emit" /\ write' = [write EXCEPT ![w] = to]
        /\ coming' = [t \in Tabs |-> Tell(t, ks)] /\ UNCHANGED <<project, left, late>>
    BY <1>8 DEF Emit, WriteStep
  <2>2. write[w] \in Done
    BY <1>0, <2>1, WriteFacts
  <2>3. /\ [write[w] EXCEPT !.at = "reply"] \in Done
        /\ [write[w] EXCEPT !.at = "reply"].v = write[w].v
    BY <2>2 DEF Done
  <2>4. \/ to = Idle
        \/ to \in Done /\ to.v = write[w].v
    BY <2>3
  <2>5. ks \in SUBSET (Keys \cap Promised)
    OBVIOUS
  <2> HIDE DEF to, ks
  <2>6. coming' \in Comings
    BY <1>3, <2>1, <2>5 DEF Tell
  <2> HIDE DEF Comings
  <2> QED BY <1>2, <2>1, <2>4, <2>6
<1>9. ASSUME NEW w \in Tabs \cup Others, Reply(w)
      PROVE  RoomTypes' /\ Roomed
  <2>1. /\ write' = [write EXCEPT ![w] = Idle] /\ UNCHANGED <<project, left, late>>
        /\ w \in Tabs /\ (Leave(w) \/ coming' = coming)
    BY <1>9 DEF Reply, WriteStep
  <2>2. coming' \in Comings
    BY <1>0, <1>3, <2>1, LeaveGoes
  <2> HIDE DEF Comings
  <2> QED BY <1>2, <2>1, <2>2
<1>10. ASSUME NEW w \in Tabs \cup Others, WriterStep(w)
       PROVE  RoomTypes' /\ Roomed
  <2>1. ASSUME NEW kind \in Sends, Click(w, kind)
        PROVE  RoomTypes' /\ Roomed
    <3> DEFINE to == [kind |-> kind, at |-> "check"]
    <3>1. to \in Begun
      BY DEF Begun
    <3>2. write' = [write EXCEPT ![w] = to] /\ UNCHANGED <<project, left, late, coming>>
      BY <2>1 DEF Click, history
    <3> HIDE DEF to, Comings
    <3> QED BY <1>2, <1>3, <3>1, <3>2
  <2>2. CASE CheckWrite(w)
    <3> DEFINE to == [write[w] EXCEPT !.at = "commit"]
    <3>1. /\ write[w].kind # NoOne /\ write[w].at = "check" /\ write' = [write EXCEPT ![w] = to]
          /\ UNCHANGED <<project, left, late, coming>>
      BY <2>2 DEF CheckWrite, WriteStep, history
    <3>2. to \in Begun
      BY <1>0, <3>1, WriteFacts DEF Begun
    <3> HIDE DEF to, Comings
    <3> QED BY <1>2, <1>3, <3>1, <3>2
  <2>3. CASE WriteFails(w) \/ NoReply(w)
    <3>1. write' = [write EXCEPT ![w] = Idle] /\ UNCHANGED <<project, left, late, coming>>
      BY <2>3 DEF WriteFails, NoReply, WriteStep, history
    <3> HIDE DEF Comings
    <3> QED BY <1>2, <1>3, <3>1
  <2>4. CASE Attach(w)
    <3> DEFINE to == [kind |-> "photo", at |-> "check"]
    <3>1. to \in Begun
      BY <2>4 DEF Attach, Begun
    <3>2. write' = [write EXCEPT ![w] = to] /\ UNCHANGED <<project, left, late, coming>>
      BY <2>4 DEF Attach, history
    <3> HIDE DEF to, Comings
    <3> QED BY <1>2, <1>3, <3>1, <3>2
  <2> QED BY <1>8, <1>9, <1>10, <2>1, <2>2, <2>3, <2>4, CommitRoomed DEF WriterStep
<1>11. CASE UNCHANGED vars
  BY <1>1, <1>3, <1>11 DEF vars, history
<1> QED BY <1>7, <1>10, <1>11 DEF Next

(* What a page shows, asks for, is owed or was promised is no newer than    *)
(* the database, and an answer on its way no older than what is shown.      *)
Ordered ==
    /\ \A t \in Tabs, k \in Keys :
          /\ cache[t][k] <= version[k] /\ due[t][k] <= version[k]
          /\ fetch[t][k].at = "got" => /\ cache[t][k] <= fetch[t][k].v
                                       /\ fetch[t][k].v <= version[k]
    /\ \A w \in Tabs \cup Others :
          write[w].kind # NoOne /\ write[w].at \in {"emit", "reply"} =>
             \A k \in Keys : write[w].v[k] <= version[k]

(* The inductive invariant the others rest on. *)
Typed == Types /\ Ordered

(* The two together, for a tab and a key. *)
LEMMA StepGoes ==
    ASSUME Typed, [Next]_vars
    PROVE  /\ Types' /\ Viewed /\ Roomed /\ version \in [Keys -> Nat]
           /\ \A k \in Keys : /\ version[k] \in Nat /\ version'[k] \in Nat
                              /\ version[k] <= version'[k]
           /\ \A t \in Tabs, k \in Keys :
                 /\ cache[t][k] \in Nat /\ cache'[t][k] \in Nat /\ due[t][k] \in Nat /\ due'[t][k] \in Nat
                 /\ fetch[t][k] \in Request /\ fetch[t][k].v \in Nat
                 /\ fetch'[t][k] \in Request /\ fetch'[t][k].v \in Nat
<1>1. Types' /\ Viewed /\ Roomed
  BY ViewStep, RoomStep DEF Types, Typed
<1>2. version \in [Keys -> Nat] /\ version' \in [Keys -> Nat]
  BY <1>1 DEF Types, Typed, RoomTypes
<1>3. \A k \in Keys : version[k] <= version'[k]
  BY <1>1, <1>2 DEF Roomed
<1>4. /\ cache \in [Tabs -> [Keys -> Nat]] /\ due \in [Tabs -> [Keys -> Nat]]
      /\ fetch \in [Tabs -> [Keys -> Request]]
      /\ cache' \in [Tabs -> [Keys -> Nat]] /\ due' \in [Tabs -> [Keys -> Nat]]
      /\ fetch' \in [Tabs -> [Keys -> Request]]
  BY <1>1 DEF Types, Typed, ViewTypes
<1>5. \A f \in Request : f.v \in Nat
  BY DEF Request
<1> QED BY <1>1, <1>2, <1>3, <1>4, <1>5

(* Every step keeps the order. *)
LEMMA OrderedStep == Typed /\ [Next]_vars => Ordered'
<1> SUFFICES ASSUME Typed, [Next]_vars PROVE Ordered'
  OBVIOUS
<1>0. /\ Asked.at = "sent" /\ None.at = "none"
  BY DEF Asked, None
<1>1. ASSUME NEW t \in Tabs, NEW k \in Keys
      PROVE  /\ cache'[t][k] <= version'[k]
             /\ fetch'[t][k].at = "got" => /\ cache'[t][k] <= fetch'[t][k].v
                                           /\ fetch'[t][k].v <= version'[k]
  <2>1. Goes(t, k)
    BY StepGoes DEF Viewed
  <2>2. /\ cache[t][k] \in Nat /\ cache'[t][k] \in Nat /\ fetch[t][k].v \in Nat /\ fetch'[t][k].v \in Nat
        /\ version[k] \in Nat /\ version'[k] \in Nat /\ version[k] <= version'[k]
    BY StepGoes
  <2>3. /\ cache[t][k] <= version[k]
        /\ fetch[t][k].at = "got" => cache[t][k] <= fetch[t][k].v /\ fetch[t][k].v <= version[k]
    BY DEF Typed, Ordered
  <2> QED BY <1>0, <2>1, <2>2, <2>3 DEF Goes
<1>2. ASSUME NEW t \in Tabs, NEW k \in Keys
      PROVE  due'[t][k] <= version'[k]
  <2>1. Owed(t, k)
    BY StepGoes DEF Viewed
  <2>2. /\ due[t][k] \in Nat /\ due'[t][k] \in Nat
        /\ version[k] \in Nat /\ version'[k] \in Nat /\ version[k] <= version'[k]
    BY StepGoes
  <2>3. due'[t][k] <= version[k]
    BY <2>1, <2>2 DEF Owed, Typed, Ordered
  <2> QED BY <2>2, <2>3
<1>3. ASSUME NEW w \in Tabs \cup Others, write'[w].kind # NoOne, write'[w].at \in {"emit", "reply"},
             NEW k \in Keys
      PROVE  write'[w].v[k] <= version'[k]
  <2>1. WriteGoes(w)
    BY StepGoes DEF Roomed
  <2>2. version[k] \in Nat /\ version'[k] \in Nat /\ version[k] <= version'[k]
    BY StepGoes
  <2>3. ASSUME write[w].kind # NoOne, write[w].at \in {"emit", "reply"}, write'[w].v = write[w].v
        PROVE  write'[w].v[k] <= version'[k]
    <3>1. write[w].v[k] \in Nat
      BY <2>3, WriteFacts DEF Typed, Types
    <3>2. write[w].v[k] <= version[k]
      BY <2>3 DEF Typed, Ordered
    <3> QED BY <2>2, <2>3, <3>1, <3>2
  <2>4. CASE write'[w].v = version'
    BY <2>2, <2>4
  <2>5. write'[w] # Idle /\ write'[w] \notin Begun
    BY <1>3 DEF Idle, Begun
  <2> QED BY <1>3, <2>1, <2>3, <2>4, <2>5 DEF WriteGoes
<1> QED BY <1>1, <1>2, <1>3 DEF Ordered

(* Every step keeps both. *)
LEMMA TypedStep == Typed /\ [Next]_vars => Typed'
BY StepGoes, OrderedStep DEF Typed

(* At the start every version is 0, and nothing is under way. *)
LEMMA TypedInit == Init => Typed
<1> SUFFICES ASSUME Init PROVE Typed
  OBVIOUS
<1>1. None \in Request /\ None.at = "none"
  BY DEF None, Request
<1>2. ViewTypes
  BY <1>1 DEF Init, ViewTypes
<1>3. RoomTypes
  BY DEF Init, RoomTypes
<1>4. Ordered
  BY <1>1 DEF Init, Ordered, Idle
<1> QED BY <1>2, <1>3, <1>4 DEF Typed, Types

------------------------------------------------------------------------------
(* Removed members. *)

(* A removed member has no reading past its check, but for those that were  *)
(* there already, and neither shows nor awaits anything newer.              *)
Kept ==
    \A t \in Tabs \ members : \A k \in Keys \ late[t] :
       /\ cache[t][k] <= left[t][k] /\ fetch[t][k].at # "checked"
       /\ fetch[t][k].at = "got" => fetch[t][k].v <= left[t][k]

(* Every step keeps it: a reading is checked only for members. *)
LEMMA KeptStep ==
    ASSUME Typed, [Next]_vars, Kept
    PROVE  Kept'
<1> SUFFICES ASSUME NEW t \in Tabs, t \notin members', NEW k \in Keys, k \notin late'[t]
             PROVE  /\ cache'[t][k] <= left'[t][k] /\ fetch'[t][k].at # "checked"
                    /\ fetch'[t][k].at = "got" => fetch'[t][k].v <= left'[t][k]
  BY DEF Kept
<1>1. Asked.at = "sent" /\ None.at = "none"
  BY DEF Asked, None
<1>2. Goes(t, k) /\ Parts(t)
  BY StepGoes DEF Viewed, Roomed
<1>3. left[t][k] \in Nat
  BY DEF Typed, Types, RoomTypes
<1>4. CASE t \notin members /\ left'[t] = left[t] /\ late'[t] = late[t]
  BY <1>1, <1>2, <1>3, <1>4 DEF Kept, Goes
<1>5. CASE /\ cache'[t] = cache[t] /\ fetch'[t] = fetch[t] /\ left'[t] = version
           /\ late'[t] = {j \in Keys : fetch[t][j].at = "checked"}
  BY <1>5 DEF Typed, Ordered
<1> QED BY <1>2, <1>4, <1>5 DEF Parts

(* A removed member is shown nothing that was written later, but for a      *)
(* reading that was past its check when the member was removed.             *)
THEOREM RemovalHolds == Spec => []RemovedSeeNothingNew
<1>1. Init => Kept
  BY DEF Init, Kept
<1>2. Typed /\ Kept /\ [Next]_vars => (Typed /\ Kept)'
  BY TypedStep, KeptStep
<1>3. Kept => RemovedSeeNothingNew
  BY DEF Kept, RemovedSeeNothingNew
<1> QED BY <1>1, <1>2, <1>3, TypedInit, PTL DEF Spec

------------------------------------------------------------------------------
(* Own writes. *)

(* What a page shows of a key, or is getting, it goes on showing or getting. *)
LEMMA GetsKept ==
    ASSUME Typed, [Next]_vars, NEW t \in Tabs, NEW k \in (Watched(t))', page'[t] = page[t],
           NEW n \in Nat, n <= version[k], Gets(t, k, n)
    PROVE  \/ cache'[t][k] >= n
           \/ fetch'[t][k].at \in {"sent", "checked", "failed"}
           \/ fetch'[t][k].at = "got" /\ fetch'[t][k].v >= n
<1>1. Asked.at = "sent" /\ None.at = "none"
  BY DEF Asked, None
<1>2. k \in Keys /\ page'[t] # "closed"
  BY WatchedFacts
<1>3. Goes(t, k)
  BY <1>2, StepGoes DEF Viewed
<1>4. /\ cache[t][k] \in Nat /\ cache'[t][k] \in Nat /\ fetch[t][k].v \in Nat /\ fetch'[t][k].v \in Nat
      /\ version[k] \in Nat
  BY <1>2, StepGoes
<1>5. /\ cache[t][k] <= version[k]
      /\ fetch[t][k].at = "got" => cache[t][k] <= fetch[t][k].v
  BY <1>2 DEF Typed, Ordered
<1> QED BY <1>1, <1>2, <1>3, <1>4, <1>5 DEF Goes, Gets

(* OwnWritesShown, of the keys that are watched. *)
OwnShown == \A t \in Tabs : \A k \in Watched(t) : Gets(t, k, due[t][k])

(* Every step keeps it. *)
LEMMA OwnShownStep ==
    ASSUME Typed, [Next]_vars, OwnShown
    PROVE  OwnShown'
<1>1. ASSUME NEW t \in Tabs, NEW k \in (Watched(t))'
      PROVE  \/ cache'[t][k] >= due'[t][k]
             \/ fetch'[t][k].at \in {"sent", "checked", "failed"}
             \/ fetch'[t][k].at = "got" /\ fetch'[t][k].v >= due'[t][k]
  <2>1. Asked.at = "sent"
    BY DEF Asked
  <2>2. k \in Keys /\ page'[t] # "closed"
    BY WatchedFacts
  <2>3. /\ Owed(t, k) /\ Turns(t) /\ cache'[t][k] \in Nat /\ due[t][k] \in Nat
        /\ due[t][k] <= version[k]
    BY <2>2, StepGoes DEF Viewed, Typed, Ordered
  <2>4. CASE page'[t] = page[t] /\ due'[t][k] = due[t][k]
    <3>1. Gets(t, k, due[t][k])
      BY <2>4, WatchedFacts DEF OwnShown
    <3> QED BY <2>3, <2>4, <3>1, GetsKept
  <2> QED BY <2>1, <2>2, <2>3, <2>4 DEF Owed, Turns
<1> QED BY <1>1 DEF OwnShown, Gets

(* Whoever has been told that a write succeeded sees it in the list of the  *)
(* panel that wrote it and in the summary, or the page is fetching, or has  *)
(* failed to, whatever its socket is doing (OwnWritesShown).                *)
THEOREM OwnWritesHold == Spec => []OwnWritesShown
<1>1. Init => OwnShown
  BY WatchedFacts DEF Init, OwnShown
<1>2. Typed /\ OwnShown /\ [Next]_vars => (Typed /\ OwnShown)'
  BY TypedStep, OwnShownStep
<1>3. OwnShown => OwnWritesShown
  BY DEF OwnShown, OwnWritesShown
<1> QED BY <1>1, <1>2, <1>3, TypedInit, PTL DEF Spec

------------------------------------------------------------------------------
(* Agreement with the database. *)

(* A write is about to tell every page in the room of a key. *)
Telling(w, k) == /\ write[w].kind # NoOne /\ write[w].kind \in Live /\ write[w].at = "emit"
                 /\ k \in Changes(write[w].kind) \cap Promised

(* A tab is not going to hear of a key, or an event about it is on its way. *)
Told(t, k) == \/ k \in untold[t]
              \/ \E i \in DOMAIN coming[t] : k \in coming[t][i]
              \/ \E w \in Tabs \cup Others : Telling(w, k)

(* A change is told, and what is told reaches the page: it asks anew.       *)
LEMMA ToldStep ==
    ASSUME Typed, [Next]_vars, NEW t \in Tabs, NEW k \in (Watched(t))', page'[t] = page[t]
    PROVE  /\ Told(t, k) => Told(t, k)' \/ fetch'[t][k] = Asked
           /\ version'[k] # version[k] => Told(t, k)'
<1> DEFINE Goal == /\ Told(t, k) => Told(t, k)' \/ fetch'[t][k] = Asked
                   /\ version'[k] # version[k] => Told(t, k)'
<1>0. /\ k \in Keys /\ k \in Watched(t) /\ page[t] # "closed" /\ page'[t] # "closed"
      /\ ViewTypes /\ RoomTypes
      /\ coming[t] \in Seq(SUBSET (Keys \cap Promised))
      /\ untold \in [Tabs -> SUBSET Keys]
  BY WatchedFacts DEF Typed, Types, ViewTypes, RoomTypes
<1>1. ASSUME untold[t] \subseteq untold'[t], coming'[t] = coming[t], version' = version,
             \A w \in Tabs \cup Others : Telling(w, k) => Telling(w, k)'
      PROVE  Goal
  BY <1>1 DEF Told
<1>2. ASSUME NEW w \in Tabs \cup Others, NEW to, write' = [write EXCEPT ![w] = to],
             write[w].kind = NoOne \/ write[w].at # "emit"
      PROVE  \A x \in Tabs \cup Others : Telling(x, k) => Telling(x, k)'
  <2>1. \A x \in Tabs \cup Others : x # w => write'[x] = write[x]
    BY <1>0, <1>2 DEF RoomTypes
  <2> QED BY <1>2, <2>1 DEF Telling
<1>3. ASSUME write' = write
      PROVE  \A x \in Tabs \cup Others : Telling(x, k) => Telling(x, k)'
  BY <1>3 DEF Telling
<1>4. ASSUME NEW u \in Tabs, NEW p \in {"project", "stage"}, Open(u, p)
      PROVE  Goal
  <2>1. u # t
    BY <1>0, <1>4, OpenGoes
  <2>2. /\ untold'[t] = untold[t]
        /\ coming' = coming /\ version' = version /\ write' = write
    BY <1>0, <1>4, <2>1, OpenGoes DEF Open, project
  <2> HIDE DEF Goal
  <2> QED BY <1>1, <1>3, <2>2
<1>5. ASSUME NEW u \in Tabs, Leave(u), version' = version,
             \A w \in Tabs \cup Others : Telling(w, k) => Telling(w, k)'
      PROVE  Goal
  <2>1. u # t
    BY <1>0, <1>5, LeaveGoes
  <2>2. untold'[t] = untold[t] /\ coming'[t] = coming[t]
    BY <1>0, <1>5, <2>1, LeaveGoes
  <2> HIDE DEF Goal
  <2> QED BY <1>1, <1>5, <2>2
<1>6. ASSUME NEW u \in Tabs, NEW ks, Invalidate(u, ks), version' = version, coming' = coming,
             \A w \in Tabs \cup Others : Telling(w, k) => Telling(w, k)'
      PROVE  Goal
  <2>1. k \in untold[t] => k \in untold'[t] \/ fetch'[t][k] = Asked
    BY <1>0, <1>6, InvalidateGoes
  <2> QED BY <1>6, <2>1 DEF Told
<1>7. ASSUME NEW u \in Tabs, Deliver(u)
      PROVE  Goal
  <2>1. /\ Invalidate(u, OnActivity) /\ version' = version /\ write' = write
        /\ coming' = [coming EXCEPT ![u] = Tail(coming[u])]
    BY <1>0, <1>7 DEF Deliver, project, RoomTypes
  <2>2. k \in untold[t] => k \in untold'[t] \/ fetch'[t][k] = Asked
    BY <1>0, <2>1, InvalidateGoes
  <2>3. ASSUME NEW i \in DOMAIN coming[t], k \in coming[t][i]
        PROVE  (\E j \in DOMAIN coming'[t] : k \in coming'[t][j]) \/ fetch'[t][k] = Asked
    <3>1. CASE u # t
      <4>1. coming'[t] = coming[t]
        BY <1>0, <2>1, <3>1 DEF RoomTypes
      <4> QED BY <2>3, <4>1
    <3>2. CASE u = t
      <4>1. k \in OnActivity
        BY <1>0, <2>3 DEF Promised, OnActivity
      <4> QED BY <1>0, <2>1, <3>2, <4>1, InvalidateGoes
    <3> QED BY <3>1, <3>2
  <2> QED BY <1>3, <2>1, <2>2, <2>3 DEF Told
<1>8. ASSUME NEW u \in Tabs, Drop(u)
      PROVE  Goal
  <2>1. /\ version' = version /\ write' = write
        /\ untold' = [untold EXCEPT ![u] = untold[u] \cup UNION {coming[u][i] : i \in DOMAIN coming[u]}]
        /\ coming' = [coming EXCEPT ![u] = <<>>]
    BY <1>0, <1>8 DEF Drop, project
  <2>2. k \in untold[t] => k \in untold'[t]
    BY <1>0, <2>1
  <2>3. ASSUME NEW i \in DOMAIN coming[t], k \in coming[t][i]
        PROVE  k \in untold'[t] \/ coming'[t] = coming[t]
    <3>1. CASE u # t
      BY <1>0, <2>1, <3>1 DEF RoomTypes
    <3>2. CASE u = t
      BY <1>0, <2>1, <2>3, <3>2
    <3> QED BY <3>1, <3>2
  <2> QED BY <1>3, <2>1, <2>2, <2>3 DEF Told
<1>9. ASSUME NEW w \in Tabs \cup Others, Commit(w)
      PROVE  Goal
  <2> DEFINE kind == write[w].kind
             done == [kind |-> kind, at |-> IF kind \in Live THEN "emit" ELSE "reply",
                      v |-> version']
             to == IF kind \in Live \/ w \in Tabs THEN done ELSE Idle
  <2>1. /\ kind # NoOne /\ write[w].at = "commit" /\ write' = [write EXCEPT ![w] = to]
        /\ coming' = coming
        /\ untold' = [x \in Tabs |-> untold[x] \cup (Untold(kind) \cap Watched(x))]
        /\ version' = [j \in Keys |-> IF j \in Changes(kind) THEN version[j] + 1 ELSE version[j]]
    BY <1>9 DEF Commit, WriteStep
  <2>2. /\ done.kind = kind /\ (kind \in Live => done.at = "emit")
    OBVIOUS
  <2>3. kind \in Live => to = done
    OBVIOUS
  <2> HIDE DEF to, done
  <2>4. untold'[t] = untold[t] \cup (Untold(kind) \cap Watched(t))
    BY <2>1
  <2>5. \A x \in Tabs \cup Others : Telling(x, k) => Telling(x, k)'
    <3>1. \A x \in Tabs \cup Others : x # w => write'[x] = write[x]
      BY <1>0, <2>1 DEF RoomTypes
    <3> QED BY <2>1, <3>1 DEF Telling
  <2>6. version'[k] # version[k] => k \in Changes(kind)
    BY <1>0, <2>1
  <2>7. k \in Changes(kind) => k \in untold'[t] \/ Telling(w, k)'
    <3>1. CASE kind \in Live /\ k \in Promised
      <4>1. write'[w] = done
        BY <1>0, <2>1, <2>3, <3>1 DEF RoomTypes
      <4> QED BY <2>1, <2>2, <3>1, <4>1 DEF Telling
    <3>2. CASE ~(kind \in Live /\ k \in Promised)
      BY <1>0, <2>4, <3>2 DEF Untold
    <3> QED BY <3>1, <3>2
  <2>8. version'[k] # version[k] => Told(t, k)'
    BY <2>6, <2>7 DEF Told
  <2>9. Told(t, k) => Told(t, k)'
    BY <2>1, <2>4, <2>5 DEF Told
  <2> QED BY <2>8, <2>9
<1>10. ASSUME NEW w \in Tabs \cup Others, Emit(w)
       PROVE  Goal
  <2> DEFINE ks == Changes(write[w].kind) \cap Promised \cap Keys
             to == IF w \in Tabs THEN [write[w] EXCEPT !.at = "reply"] ELSE Idle
  <2>1. /\ write[w].kind # NoOne /\ write[w].at = "emit" /\ write' = [write EXCEPT ![w] = to]
        /\ version' = version
        /\ coming' = [x \in Tabs |-> Tell(x, ks)]
        /\ untold' = [x \in Tabs |-> IF page[x] = "closed" \/ sock[x] = "joined"
                                     THEN untold[x] ELSE untold[x] \cup ks]
    BY <1>10 DEF Emit, WriteStep, project
  <2>2. Telling(w, k) => k \in ks
    BY <1>0 DEF Telling
  <2> HIDE DEF ks, to
  <2>3. /\ coming'[t] = Tell(t, ks)
        /\ untold'[t] = IF sock[t] = "joined" THEN untold[t] ELSE untold[t] \cup ks
    BY <1>0, <2>1
  <2>4. \A x \in Tabs \cup Others : x # w /\ Telling(x, k) => Telling(x, k)'
    <3>1. \A x \in Tabs \cup Others : x # w => write'[x] = write[x]
      BY <1>0, <2>1 DEF RoomTypes
    <3> QED BY <3>1 DEF Telling
  <2>5. CASE sock[t] = "joined"
    <3>1. coming'[t] = Append(coming[t], ks)
      BY <2>3, <2>5 DEF Tell
    <3>2. /\ \A i \in DOMAIN coming[t] : i \in DOMAIN coming'[t] /\ coming'[t][i] = coming[t][i]
          /\ Len(coming[t]) + 1 \in DOMAIN coming'[t] /\ coming'[t][Len(coming[t]) + 1] = ks
      BY <1>0, <3>1
    <3> QED BY <2>1, <2>2, <2>3, <2>4, <2>5, <3>2 DEF Told
  <2>6. CASE sock[t] # "joined"
    <3>1. coming'[t] = coming[t] /\ untold'[t] = untold[t] \cup ks
      BY <2>3, <2>6 DEF Tell
    <3> QED BY <2>1, <2>2, <2>4, <3>1 DEF Told
  <2> QED BY <2>5, <2>6
<1>11. ASSUME NEW w \in Tabs \cup Others, Reply(w)
       PROVE  Goal
  <2>1. /\ w \in Tabs /\ write[w].at = "reply" /\ version' = version
        /\ write' = [write EXCEPT ![w] = Idle]
        /\ \/ Leave(w)
           \/ coming' = coming /\ \E ks : Invalidate(w, ks)
    BY <1>11 DEF Reply, WriteStep, project
  <2>2. \A x \in Tabs \cup Others : Telling(x, k) => Telling(x, k)'
    BY <1>2, <2>1
  <2> HIDE DEF Goal
  <2> QED BY <1>5, <1>6, <2>1, <2>2
<1> HIDE DEF Goal
<1>12. ASSUME UNCHANGED <<untold, coming, version>>,
              \A w \in Tabs \cup Others : Telling(w, k) => Telling(w, k)'
       PROVE  Goal
  BY <1>1, <1>12
<1>13. ASSUME NEW u \in Tabs, TabStep(u)
       PROVE  Goal
  <2>1. CASE Close(u)
    BY <1>3, <1>5, <2>1 DEF Close, project
  <2>2. CASE Focus(u)
    <3>1. (\E ks : Invalidate(u, ks)) /\ version' = version /\ coming' = coming /\ write' = write
      BY <2>2 DEF Focus, project
    <3> QED BY <1>3, <1>6, <3>1
  <2>3. CASE UNCHANGED <<untold, coming, version, write>>
    BY <1>3, <1>12, <2>3
  <2> QED
    BY <1>4, <1>7, <1>8, <1>13, <2>1, <2>2, <2>3
    DEF TabStep, OpenProject, OpenStage, Connect, Reject, CheckJoin, RefuseJoin, Join,
        SockStep, CheckRead, Read, ReadFails, Show, FetchStep, history, project
<1>14. ASSUME NEW w \in Tabs \cup Others, WriterStep(w)
       PROVE  Goal
  <2>1. CASE \/ (\E kind \in Sends : Click(w, kind)) \/ Attach(w)
             \/ CheckWrite(w) \/ WriteFails(w) \/ NoReply(w)
    <3>1. /\ UNCHANGED <<untold, coming, version>>
          /\ write[w].kind = NoOne \/ write[w].at # "emit"
          /\ \E to : write' = [write EXCEPT ![w] = to]
      BY <2>1 DEF Click, Attach, CheckWrite, WriteFails, NoReply, WriteStep, project, history
    <3> QED BY <1>2, <1>12, <3>1
  <2> QED BY <1>9, <1>10, <1>11, <1>14, <2>1 DEF WriterStep
<1>15. ASSUME UNCHANGED vars
       PROVE  Goal
  <2>1. UNCHANGED <<untold, coming, version>> /\ write' = write
    BY <1>15 DEF vars, project, history
  <2> QED BY <1>3, <1>12, <2>1
<1>16. Goal
  BY <1>13, <1>14, <1>15 DEF Next
<1> QED BY <1>16 DEF Goal

(* A watched key that has not caught up, and is not being asked for, is told. *)
Agrees == \A t \in Tabs : \A k \in Watched(t) : Gets(t, k, version[k]) \/ Told(t, k)

(* Every step keeps it. *)
LEMMA AgreesStep ==
    ASSUME Typed, [Next]_vars, Agrees
    PROVE  Agrees'
<1>1. ASSUME NEW t \in Tabs, NEW k \in (Watched(t))'
      PROVE  \/ cache'[t][k] >= version'[k]
             \/ fetch'[t][k].at \in {"sent", "checked", "failed"}
             \/ fetch'[t][k].at = "got" /\ fetch'[t][k].v >= version'[k]
             \/ Told(t, k)'
  <2>1. Asked.at = "sent"
    BY DEF Asked
  <2>2. k \in Keys /\ page'[t] # "closed"
    BY WatchedFacts
  <2>3. Turns(t) /\ version[k] \in Nat
    BY <2>2, StepGoes DEF Viewed
  <2>4. CASE page'[t] = page[t]
    <3>1. Gets(t, k, version[k]) \/ Told(t, k)
      BY <2>4, WatchedFacts DEF Agrees
    <3>2. CASE Told(t, k) \/ version'[k] # version[k]
      BY <2>1, <2>4, <3>2, ToldStep
    <3>3. CASE Gets(t, k, version[k]) /\ version'[k] = version[k]
      BY <2>3, <2>4, <3>3, GetsKept
    <3> QED BY <3>1, <3>2, <3>3
  <2> QED BY <2>1, <2>2, <2>3, <2>4 DEF Turns
<1> QED BY <1>1 DEF Agrees, Gets

(* An open page agrees with the database, or is fetching or has failed to,  *)
(* or an event is on its way or about to be emitted, but for the writes no  *)
(* event tells of and the events emitted while the page was not in the room. *)
THEOREM AgreementHolds == Spec => []PagesAgree
<1>1. Init => Agrees
  BY WatchedFacts DEF Init, Agrees
<1>2. Typed /\ Agrees /\ [Next]_vars => (Typed /\ Agrees)'
  BY TypedStep, AgreesStep
<1>3. Typed /\ Agrees => PagesAgree
  <2> SUFFICES ASSUME Typed, Agrees, NEW t \in Tabs, NEW k \in Watched(t), Told(t, k)
               PROVE  \/ k \in untold[t] \/ coming[t] # <<>>
                      \/ \E w \in Tabs \cup Others :
                            /\ write[w].kind \in Live /\ write[w].at = "emit"
                            /\ k \in Changes(write[w].kind) \cap Promised
    BY DEF Agrees, PagesAgree
  <2> QED BY DEF Told, Telling
<1> QED BY <1>1, <1>2, <1>3, TypedInit, PTL DEF Spec
==============================================================================
