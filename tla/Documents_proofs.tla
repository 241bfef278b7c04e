-------------------------- MODULE Documents_proofs ---------------------------
(***************************************************************************)
(* Theorems about Documents, for every number of projects, panels,         *)
(* removals and files.                                                     *)
(***************************************************************************)
EXTENDS Documents, TLAPS

------------------------------------------------------------------------------
(* Types. *)

Loading == {"put", "check", "insert"}
Panel == [next : Calls \cup {"idle"}, project : ProjectIds \cup {NoOne},
          entry : EntryIds \cup {NoOne}, key : Keys \cup {NoOne},
          left : 0 .. MaxFiles, sent : SUBSET Keys]
Removal == [next : {"idle", "object", "row"}, doc : Document \cup {NoOne}]

(* A panel at a call knows its project, its key once it has one, and has a  *)
(* file left to upload; a removal at a call knows its document.             *)
Panels == {x \in Panel :
             /\ x.next # "idle" => x.project \in ProjectIds
             /\ x.next \in Loading <=> x.key # NoOne
             /\ x.next \in Loading \cup {"presign"} => x.left > 0}
Removals == {x \in Removal : x.next # "idle" => x.doc \in Document}

Tables == /\ live \subseteq ProjectIds
          /\ entries \in [EntryIds -> ProjectIds \cup {NoOne}]
          /\ docs \subseteq Document /\ swept \subseteq Document
          /\ objects \subseteq Keys /\ lost \subseteq Keys
          /\ issued \subseteq EntryIds \cup DocIds \cup Keys
          /\ told \subseteq Photo
Busy == tab \in [Tabs -> Panels] /\ removal \in [Removers -> Removals]
Typed == Tables /\ Busy

LEMMA BusyShape ==
    ASSUME Busy, NEW t \in Tabs
    PROVE  /\ tab[t] \in Panel /\ tab[t].next \in Calls \cup {"idle"}
           /\ tab[t].key \in Keys \cup {NoOne} /\ tab[t].entry \in EntryIds \cup {NoOne}
           /\ tab[t].left \in 0 .. MaxFiles /\ tab[t].sent \subseteq Keys
           /\ tab[t].project \in ProjectIds \cup {NoOne}
           /\ tab[t].next # "idle" => tab[t].project \in ProjectIds
           /\ tab[t].next \in Loading <=> tab[t].key # NoOne
           /\ tab[t].next \in Loading \cup {"presign"} => tab[t].left > 0
BY DEF Busy, Panels, Panel

LEMMA IdleIsProper ==
    /\ Idle \in Panels /\ Idle.key = NoOne /\ Idle.sent = {} /\ Idle.next = "idle"
    /\ Free \in Removals
BY DocumentsAssumption DEF Idle, Free, Panels, Removals, Panel, Removal, Loading, Calls

(* The step of a panel, and of a removal, from one proper state to another. *)
LEMMA PanelStep ==
    ASSUME Busy, NEW t \in Tabs, NEW y \in Panels, tab' = [tab EXCEPT ![t] = y], UNCHANGED removal
    PROVE  Busy'
BY DEF Busy

LEMMA RemovalSteps ==
    ASSUME Busy, NEW r \in Removers, NEW y \in Removals,
           removal' = [removal EXCEPT ![r] = y], UNCHANGED tab
    PROVE  Busy'
BY DEF Busy

LEMMA BusyStep == Tables /\ Busy /\ [Next]_vars => Busy'
<1> SUFFICES ASSUME Tables /\ Busy, [Next]_vars PROVE Busy'
    OBVIOUS
<1> USE DocumentsAssumption
<1>1. ASSUME NEW t \in Tabs, NEW p \in live, NEW e \in (EntryIds \cap issued) \cup {NoOne}, SubmitDocument(t, p, e)
      PROVE Busy'
    <2> DEFINE y == [Idle EXCEPT !.next = "presign", !.project = p, !.entry = e, !.left = 1]
    <2>1. y \in Panels
        <3>1. 1 \in 0 .. MaxFiles /\ p \in ProjectIds /\ e \in EntryIds \cup {NoOne}
            BY DEF Tables
        <3>2. PICK m \in 0 .. MaxFiles : m = 1 /\ m > 0
            BY <3>1
        <3>3. y = [Idle EXCEPT !.next = "presign", !.project = p, !.entry = e, !.left = m]
            BY <3>2
        <3> HIDE DEF y
        <3> QED
            BY <3>1, <3>2, <3>3, IdleIsProper DEF Panels, Panel, Loading, Calls
    <2> QED
        BY <1>1, <2>1, PanelStep DEF SubmitDocument
<1>2. ASSUME NEW t \in Tabs, NEW p \in live, NEW n \in 0 .. MaxFiles, SubmitEntry(t, p, n)
      PROVE Busy'
    <2> DEFINE y == [Idle EXCEPT !.next = "entry", !.project = p, !.left = n]
    <2>1. y \in Panels
        BY <1>2, IdleIsProper DEF Tables, Panels, Panel, Loading, Calls
    <2> QED
        BY <1>2, <2>1, PanelStep DEF SubmitEntry
<1>3. ASSUME NEW t \in Tabs, CreateEntry(t) PROVE Busy'
    <2>1. ASSUME NEW e \in EntryIds, tab[t].left > 0
          PROVE  [tab[t] EXCEPT !.next = "presign", !.entry = e] \in Panels
        BY <1>3, <2>1, BusyShape DEF CreateEntry, Panels, Panel, Loading, Calls
    <2>2. \/ tab' = [tab EXCEPT ![t] = Idle]
          \/ \E e \in EntryIds : /\ tab[t].left > 0
                                 /\ tab' = [tab EXCEPT ![t] = [tab[t] EXCEPT !.next = "presign", !.entry = e]]
        BY <1>3 DEF CreateEntry
    <2> QED
        BY <1>3, <2>1, <2>2, IdleIsProper, PanelStep DEF CreateEntry
<1>4. ASSUME NEW t \in Tabs, Presign(t) PROVE Busy'
    <2>1. ASSUME NEW k \in Keys PROVE [tab[t] EXCEPT !.next = "put", !.key = k] \in Panels
        BY <1>4, BusyShape DEF Presign, Panels, Panel, Loading, Calls
    <2>2. \E k \in Keys : tab' = [tab EXCEPT ![t] = [tab[t] EXCEPT !.next = "put", !.key = k]]
        BY <1>4 DEF Presign
    <2> QED
        BY <1>4, <2>1, <2>2, PanelStep DEF Presign
<1>5. ASSUME NEW t \in Tabs, PutFile(t) PROVE Busy'
    <2>1. [tab[t] EXCEPT !.next = "check"] \in Panels
        BY <1>5, BusyShape DEF PutFile, Panels, Panel, Loading, Calls
    <2>2. \/ tab' = [tab EXCEPT ![t] = Idle]
          \/ tab' = [tab EXCEPT ![t] = [tab[t] EXCEPT !.next = "check"]]
        BY <1>5 DEF PutFile, Throws
    <2> QED
        BY <1>5, <2>1, <2>2, IdleIsProper, PanelStep DEF PutFile
<1>6. ASSUME NEW t \in Tabs, CheckConfirm(t) PROVE Busy'
    <2> DEFINE y == [tab[t] EXCEPT !.next = "insert"]
    <2>1. y \in Panels
        BY <1>6, BusyShape DEF CheckConfirm, Panels, Panel, Loading, Calls, Idle
    <2> QED
        BY <1>6, <2>1, PanelStep DEF CheckConfirm
<1>7. ASSUME NEW t \in Tabs, InsertDocument(t) PROVE Busy'
    <2> DEFINE y == [tab[t] EXCEPT !.next = "presign", !.key = NoOne, !.left = tab[t].left - 1,
                                   !.sent = tab[t].sent \cup {tab[t].key}]
    <2>1. ASSUME tab[t].left - 1 > 0 PROVE y \in Panels
        <3>1. /\ tab[t].left \in 0 .. MaxFiles /\ MaxFiles \in Nat
              /\ tab[t].key \in Keys /\ tab[t].sent \subseteq Keys /\ tab[t].project \in ProjectIds
              /\ tab[t] \in Panel
            BY <1>7, BusyShape DEF InsertDocument, Loading
        <3>2. PICK m \in 0 .. MaxFiles : m = tab[t].left - 1 /\ m > 0
            BY <2>1, <3>1
        <3>3. y = [tab[t] EXCEPT !.next = "presign", !.key = NoOne, !.left = m,
                                 !.sent = tab[t].sent \cup {tab[t].key}]
            BY <3>2
        <3> HIDE DEF y
        <3> QED
            BY <3>1, <3>2, <3>3 DEF Panels, Panel, Loading, Calls
    <2>2. \/ tab' = [tab EXCEPT ![t] = Idle]
          \/ tab[t].left - 1 > 0 /\ tab' = [tab EXCEPT ![t] = y]
        <3>1. \/ NextFile(t, tab[t].left - 1, tab[t].sent \cup {tab[t].key})
              \/ Throws(t)
            BY <1>7 DEF InsertDocument
        <3> QED
            BY <3>1 DEF NextFile, Throws
    <2>3. UNCHANGED removal
        BY <1>7 DEF InsertDocument
    <2> HIDE DEF y
    <2> QED
        BY <2>1, <2>2, <2>3, IdleIsProper, PanelStep
<1>8. ASSUME NEW t \in Tabs, CallFails(t) PROVE Busy'
    BY <1>8, IdleIsProper, PanelStep DEF CallFails, Throws
<1>9. ASSUME NEW r \in Removers, NEW d \in docs, FindDocument(r, d) PROVE Busy'
    <2>1. [next |-> "object", doc |-> d] \in Removals
        BY DEF Tables, Removals, Removal
    <2> QED
        BY <1>9, <2>1, RemovalSteps DEF FindDocument
<1>10. ASSUME NEW r \in Removers, DeleteObject(r) PROVE Busy'
    <2>1. [removal[r] EXCEPT !.next = "row"] \in Removals
        BY <1>10 DEF DeleteObject, At, Busy, Removals, Removal
    <2> QED
        BY <1>10, <2>1, RemovalSteps DEF DeleteObject
<1>11. ASSUME NEW r \in Removers, DeleteRow(r) PROVE Busy'
    BY <1>11, IdleIsProper, RemovalSteps DEF DeleteRow
<1>12. ASSUME NEW r \in Removers, RemovalFails(r) PROVE Busy'
    BY <1>12, IdleIsProper, RemovalSteps DEF RemovalFails
<1>13. ASSUME NEW e \in EntryIds, RemoveEntry(e) PROVE Busy'
    BY <1>13 DEF RemoveEntry, Busy
<1>14. ASSUME NEW p \in ProjectIds, DeleteProject(p) PROVE Busy'
    BY <1>14 DEF DeleteProject, Busy
<1>15. CASE UNCHANGED vars
    BY <1>15 DEF vars, Busy
<1> QED
    BY <1>1, <1>2, <1>3, <1>4, <1>5, <1>6, <1>7, <1>8, <1>9, <1>10, <1>11, <1>12, <1>13, <1>14, <1>15
       DEF Next, TabStep, RemovalStep

LEMMA TypedInit == Init => Typed
BY IdleIsProper DEF Init, Typed, Tables, Busy

LEMMA TablesStep == Tables /\ Busy /\ [Next]_vars => Tables'
<1> SUFFICES ASSUME Tables /\ Busy, [Next]_vars PROVE Tables'
    OBVIOUS
<1> USE DocumentsAssumption DEF Tables, Document, Photo, rows, history, Throws,
           NextFile, Sweep, At, Idle, Free
<1>1. ASSUME NEW t \in Tabs, NEW p \in live, NEW e \in (EntryIds \cap issued) \cup {NoOne}, SubmitDocument(t, p, e)
      PROVE Tables'
    BY <1>1 DEF SubmitDocument
<1>2. ASSUME NEW t \in Tabs, NEW p \in live, NEW n \in 0 .. MaxFiles, SubmitEntry(t, p, n)
      PROVE Tables'
    BY <1>2 DEF SubmitEntry
<1>3. ASSUME NEW t \in Tabs, CreateEntry(t) PROVE Tables'
    BY <1>3, BusyShape DEF CreateEntry, Loading
<1>4. ASSUME NEW t \in Tabs, Presign(t) PROVE Tables'
    BY <1>4, BusyShape DEF Presign, Loading
<1>5. ASSUME NEW t \in Tabs, PutFile(t) PROVE Tables'
    <2>1. tab[t].key \in Keys
        BY <1>5, BusyShape DEF PutFile, Loading
    <2> QED
        BY <1>5, <2>1 DEF PutFile
<1>6. ASSUME NEW t \in Tabs, CheckConfirm(t) PROVE Tables'
    BY <1>6 DEF CheckConfirm
<1>7. ASSUME NEW t \in Tabs, InsertDocument(t) PROVE Tables'
    <2> DEFINE c == tab[t]
    <2>1. c.key \in Keys /\ c.project \in ProjectIds /\ c.entry \in EntryIds \cup {NoOne}
          /\ c.sent \subseteq Keys
        BY <1>7, BusyShape DEF InsertDocument, Loading
    <2>2. \A k \in c.sent \cup {c.key} : [entry |-> c.entry, key |-> k] \in Photo
        BY <2>1 DEF Photo
    <2>3. told' \subseteq Photo /\ lost' \subseteq Keys /\ swept' = swept
        BY <1>7, <2>1, <2>2 DEF InsertDocument
    <2>4. docs' \subseteq Document /\ issued' \subseteq EntryIds \cup DocIds \cup Keys
        <3>1. PICK d \in DocIds : /\ docs' = docs \cup {[id |-> d, project |-> c.project,
                                                         entry |-> c.entry, key |-> c.key]}
                                 /\ issued' = issued \cup {d}
            BY <1>7 DEF InsertDocument
        <3> HIDE DEF c
        <3> QED
            BY <2>1, <3>1
    <2> QED
        BY <1>7, <2>3, <2>4 DEF InsertDocument
<1>8. ASSUME NEW t \in Tabs, CallFails(t) PROVE Tables'
    BY <1>8, BusyShape DEF CallFails, Loading
<1>9. ASSUME NEW r \in Removers, NEW d \in docs, FindDocument(r, d) PROVE Tables'
    BY <1>9 DEF FindDocument
<1>10. ASSUME NEW r \in Removers, DeleteObject(r) PROVE Tables'
    <2>1. removal[r].next # "idle" => removal[r].doc \in Document
        BY DEF Busy, Removals
    <2>2. swept' \subseteq Document
        BY <1>10, <2>1 DEF DeleteObject
    <2> QED
        BY <1>10, <2>2 DEF DeleteObject
<1>11. ASSUME NEW r \in Removers, DeleteRow(r) PROVE Tables'
    BY <1>11 DEF DeleteRow
<1>12. ASSUME NEW r \in Removers, RemovalFails(r) PROVE Tables'
    <2>1. removal[r].next # "idle" => removal[r].doc \in Document
        BY DEF Busy, Removals
    <2>2. swept' \subseteq Document
        BY <1>12, <2>1 DEF RemovalFails
    <2> QED
        BY <1>12, <2>2 DEF RemovalFails
<1>13. ASSUME NEW e \in EntryIds, RemoveEntry(e) PROVE Tables'
    BY <1>13 DEF RemoveEntry
<1>14. ASSUME NEW p \in ProjectIds, DeleteProject(p) PROVE Tables'
    BY <1>14 DEF DeleteProject
<1>15. CASE UNCHANGED vars
    BY <1>15 DEF vars
<1> QED
    BY <1>1, <1>2, <1>3, <1>4, <1>5, <1>6, <1>7, <1>8, <1>9, <1>10, <1>11, <1>12, <1>13, <1>14, <1>15
       DEF Next, TabStep, RemovalStep

LEMMA TypedStep == Typed /\ [Next]_vars => Typed'
BY TablesStep, BusyStep DEF Typed

(* Every reachable state is well typed: rows, objects, panels, removals. *)
THEOREM Typing == Spec => []TypeOK
<1>1. Typed => TypeOK
    <2> SUFFICES ASSUME Typed PROVE TypeOK
        OBVIOUS
    <2>1. ASSUME NEW r \in Removers
          PROVE  removal[r].next \in {"idle", "object", "row"} /\ removal[r].doc \in Document \cup {NoOne}
        BY DEF Typed, Busy, Removals, Removal
    <2> QED
        BY <2>1, BusyShape DEF Typed, Tables, TypeOK
<1> QED
    BY <1>1, TypedInit, TypedStep, PTL DEF Spec

------------------------------------------------------------------------------
(* Ids and keys. *)

(* The documents that are, that were swept, and that a removal has in hand. *)
Past == docs \cup swept
        \cup {x \in Document : \E r \in Removers : removal[r].next # "idle" /\ removal[r].doc = x}

(* An id goes with one key, and the key of an upload is not yet a document's. *)
Distinct == /\ \A x \in Past : x.id \in issued /\ x.key \in issued
            /\ \A x, y \in Past : x.id = y.id <=> x.key = y.key
            /\ \A t \in Tabs : tab[t].key # NoOne =>
                  tab[t].key \in issued /\ \A x \in Past : x.key # tab[t].key
            /\ \A t, u \in Tabs : tab[t].key = tab[u].key /\ tab[t].key # NoOne => t = u

LEMMA DistinctInit == Init => Distinct
BY DEF Init, Distinct, Past, Idle, Free

(* Nearly every step only looks at ids and keys that are there. *)
Older == \A x \in Past' : \E y \in Past : y.id = x.id /\ y.key = x.key
SameKeys == \A t \in Tabs : tab'[t].key = tab[t].key \/ tab'[t].key = NoOne

LEMMA Carried == Distinct /\ Older /\ SameKeys /\ issued \subseteq issued' => Distinct'
<1> SUFFICES ASSUME Distinct, Older, SameKeys, issued \subseteq issued' PROVE Distinct'
    OBVIOUS
<1>1. \A x \in Past' : x.id \in issued' /\ x.key \in issued'
    BY DEF Distinct, Older
<1>2. \A x, y \in Past' : x.id = y.id <=> x.key = y.key
    BY DEF Distinct, Older
<1>3. \A t \in Tabs : tab'[t].key # NoOne =>
         tab'[t].key \in issued' /\ \A x \in Past' : x.key # tab'[t].key
    BY DEF Distinct, Older, SameKeys
<1>4. \A t, u \in Tabs : tab'[t].key = tab'[u].key /\ tab'[t].key # NoOne => t = u
    BY DEF Distinct, SameKeys
<1> QED
    BY <1>1, <1>2, <1>3, <1>4 DEF Distinct

LEMMA DistinctStep == Typed /\ Distinct /\ [Next]_vars => Distinct'
<1> SUFFICES ASSUME Typed /\ Distinct, [Next]_vars PROVE Distinct'
    OBVIOUS
<1>0. tab \in [Tabs -> Panels] /\ removal \in [Removers -> Removals]
    BY DEF Typed, Busy
<1> USE DocumentsAssumption DEF rows, history, Throws, NextFile, Sweep, At, Idle, Free
<1>1. ASSUME NEW t \in Tabs, NEW p \in live, NEW e \in (EntryIds \cap issued) \cup {NoOne}, SubmitDocument(t, p, e)
      PROVE Distinct'
    <2>1. SameKeys
        BY <1>1, <1>0, IdleIsProper DEF SubmitDocument, SameKeys, Panels, Panel
    <2> QED
        BY <1>1, <2>1, Carried DEF SubmitDocument, Older, Past
<1>2. ASSUME NEW t \in Tabs, NEW p \in live, NEW n \in 0 .. MaxFiles, SubmitEntry(t, p, n)
      PROVE Distinct'
    <2>1. SameKeys
        BY <1>2, <1>0, IdleIsProper DEF SubmitEntry, SameKeys, Panels, Panel
    <2> QED
        BY <1>2, <2>1, Carried DEF SubmitEntry, Older, Past
<1>3. ASSUME NEW t \in Tabs, CreateEntry(t) PROVE Distinct'
    <2>1. SameKeys
        BY <1>3, <1>0, IdleIsProper DEF CreateEntry, SameKeys, Panels, Panel
    <2> QED
        BY <1>3, <2>1, Carried DEF CreateEntry, Older, Past
<1>4. ASSUME NEW t \in Tabs, Presign(t) PROVE Distinct'
    <2>1. Past' = Past /\ issued \subseteq issued'
        BY <1>4 DEF Presign, Past
    <2>2. PICK k \in Keys \ issued : /\ tab' = [tab EXCEPT ![t].next = "put", ![t].key = k]
                                   /\ issued' = issued \cup {k}
        BY <1>4 DEF Presign
    <2>3. /\ tab'[t].key = k
          /\ \A u \in Tabs : u # t => tab'[u].key = tab[u].key
        BY <1>0, <2>2 DEF Panels, Panel
    <2>4. \A x \in Past : x.id \in issued' /\ x.key \in issued' /\ x.key # k
        BY <2>1, <2>2 DEF Distinct
    <2>5. \A u \in Tabs : tab[u].key # k \/ tab[u].key = NoOne
        BY <2>2 DEF Distinct
    <2>6. \A u \in Tabs : tab'[u].key # NoOne =>
             tab'[u].key \in issued' /\ \A x \in Past : x.key # tab'[u].key
        <3> TAKE u \in Tabs
        <3>1. CASE u = t
            <4>1. k \in issued'
                BY <2>2
            <4> QED
                BY <2>3, <2>4, <3>1, <4>1
        <3>2. CASE u # t
            <4>1. tab'[u].key = tab[u].key
                BY <2>3, <3>2
            <4> QED
                BY <2>1, <4>1 DEF Distinct
        <3> QED
            BY <3>1, <3>2
    <2>7. \A u, v \in Tabs : tab'[u].key = tab'[v].key /\ tab'[u].key # NoOne => u = v
        <3> TAKE u, v \in Tabs
        <3>1. CASE u = t \/ v = t
            BY <2>3, <2>5, <3>1
        <3>2. CASE u # t /\ v # t
            <4>1. tab'[u].key = tab[u].key /\ tab'[v].key = tab[v].key
                BY <2>3, <3>2
            <4> QED
                BY <4>1 DEF Distinct
        <3> QED
            BY <3>1, <3>2
    <2> QED
        BY <2>1, <2>4, <2>6, <2>7 DEF Distinct
<1>5. ASSUME NEW t \in Tabs, PutFile(t) PROVE Distinct'
    <2>1. SameKeys
        BY <1>5, <1>0, IdleIsProper DEF PutFile, SameKeys, Panels, Panel
    <2> QED
        BY <1>5, <2>1, Carried DEF PutFile, Older, Past
<1>6. ASSUME NEW t \in Tabs, CheckConfirm(t) PROVE Distinct'
    <2>1. SameKeys
        BY <1>6, <1>0, IdleIsProper DEF CheckConfirm, SameKeys, Panels, Panel
    <2> QED
        BY <1>6, <2>1, Carried DEF CheckConfirm, Older, Past
<1>7. ASSUME NEW t \in Tabs, InsertDocument(t) PROVE Distinct'
    <2>1. PICK d \in DocIds \ issued :
             /\ docs' = docs \cup {[id |-> d, project |-> tab[t].project,
                                   entry |-> tab[t].entry, key |-> tab[t].key]}
             /\ issued' = issued \cup {d}
        BY <1>7 DEF InsertDocument
    <2>2. swept' = swept /\ removal' = removal
        BY <1>7 DEF InsertDocument
    <2>3. tab[t].key # NoOne
        BY <1>7, BusyShape DEF InsertDocument, Typed, Loading
    <2>4. /\ tab'[t].key = NoOne
          /\ \A u \in Tabs : u # t => tab'[u].key = tab[u].key
        BY <1>7 DEF InsertDocument, Typed, Busy, Panels, Panel
    <2>5. \A x \in Past' : x \in Past \/ (x.id = d /\ x.key = tab[t].key)
        BY <2>1, <2>2 DEF Past
    <2>6. \A x \in Past' : x.id \in issued' /\ x.key \in issued'
        BY <2>1, <2>3, <2>5 DEF Distinct
    <2>7. \A x, y \in Past' : x.id = y.id <=> x.key = y.key
        BY <2>1, <2>3, <2>5 DEF Distinct
    <2>8. \A u \in Tabs : tab'[u].key # NoOne =>
             tab'[u].key \in issued' /\ \A x \in Past' : x.key # tab'[u].key
        BY <2>1, <2>3, <2>4, <2>5 DEF Distinct
    <2>9. \A u, v \in Tabs : tab'[u].key = tab'[v].key /\ tab'[u].key # NoOne => u = v
        BY <2>4 DEF Distinct
    <2> QED
        BY <2>6, <2>7, <2>8, <2>9 DEF Distinct
<1>8. ASSUME NEW t \in Tabs, CallFails(t) PROVE Distinct'
    <2>1. SameKeys
        BY <1>8, <1>0, IdleIsProper DEF CallFails, SameKeys, Panels, Panel
    <2> QED
        BY <1>8, <2>1, Carried DEF CallFails, Older, Past
<1>9. ASSUME NEW r \in Removers, NEW d \in docs, FindDocument(r, d) PROVE Distinct'
    <2>1. Older
        BY <1>9, <1>0 DEF FindDocument, Older, Past, Removals, Removal
    <2> QED
        BY <1>9, <2>1, Carried DEF FindDocument, SameKeys
<1>10. ASSUME NEW r \in Removers, DeleteObject(r) PROVE Distinct'
    <2>1. Older
        BY <1>10, <1>0 DEF DeleteObject, Older, Past, Removals, Removal
    <2> QED
        BY <1>10, <2>1, Carried DEF DeleteObject, SameKeys
<1>11. ASSUME NEW r \in Removers, DeleteRow(r) PROVE Distinct'
    <2>1. Older
        BY <1>11, <1>0 DEF DeleteRow, Older, Past, Removals, Removal
    <2> QED
        BY <1>11, <2>1, Carried DEF DeleteRow, SameKeys
<1>12. ASSUME NEW r \in Removers, RemovalFails(r) PROVE Distinct'
    <2>1. Older
        BY <1>12, <1>0 DEF RemovalFails, Older, Past, Removals, Removal
    <2> QED
        BY <1>12, <2>1, Carried DEF RemovalFails, SameKeys
<1>13. ASSUME NEW e \in EntryIds, RemoveEntry(e) PROVE Distinct'
    <2>1. \A x \in docs' : \E y \in docs : y.id = x.id /\ y.key = x.key
        BY <1>13 DEF RemoveEntry, Typed, Tables, Document
    <2> QED
        BY <1>13, <2>1, Carried DEF RemoveEntry, Older, SameKeys, Past
<1>14. ASSUME NEW p \in ProjectIds, DeleteProject(p) PROVE Distinct'
    BY <1>14, <1>0, Carried DEF DeleteProject, Older, SameKeys, Past
<1>15. CASE UNCHANGED vars
    BY <1>15, Carried DEF vars, Older, SameKeys, Past
<1> QED
    BY <1>1, <1>2, <1>3, <1>4, <1>5, <1>6, <1>7, <1>8, <1>9, <1>10, <1>11, <1>12, <1>13, <1>14, <1>15
       DEF Next, TabStep, RemovalStep

------------------------------------------------------------------------------
(* Rows and their objects. *)

(* What an upload has stored stays until a removal of its document, and a   *)
(* swept object does not come back.                                         *)
Stored == /\ RowsHaveObjects
          /\ \A t \in Tabs : tab[t].next \in {"check", "insert"} => tab[t].key \in objects
          /\ \A x \in swept : x.key \notin objects
          /\ \A r \in Removers : removal[r].next = "row" => removal[r].doc \in swept

(* A removed entry is set to null in its photos, and nothing else changes. *)
LEMMA EntryRemoved ==
    ASSUME Tables, NEW e \in EntryIds, RemoveEntry(e)
    PROVE  /\ \A x \in docs' : \E y \in docs :
                 /\ x.id = y.id /\ x.key = y.key /\ x.project = y.project
                 /\ IF y.entry = e THEN x.entry = NoOne ELSE x.entry = y.entry
           /\ \A y \in docs : \E x \in docs' :
                 /\ x.id = y.id /\ x.key = y.key /\ x.project = y.project
                 /\ IF y.entry = e THEN x.entry = NoOne ELSE x.entry = y.entry
<1> DEFINE g(d) == IF d.entry = e THEN [d EXCEPT !.entry = NoOne] ELSE d
<1>1. docs' = {g(d) : d \in docs}
    BY DEF RemoveEntry
<1>2. ASSUME NEW y \in docs
      PROVE  /\ g(y).id = y.id /\ g(y).key = y.key /\ g(y).project = y.project
             /\ IF y.entry = e THEN g(y).entry = NoOne ELSE g(y).entry = y.entry
    BY DEF Tables, Document
<1> HIDE DEF g
<1> QED
    BY <1>1, <1>2

LEMMA StoredInit == Init => Stored
BY DEF Init, Stored, RowsHaveObjects, Idle, Free

LEMMA StoredStep == Typed /\ Distinct /\ Stored /\ [Next]_vars => Stored'
<1> SUFFICES ASSUME Typed /\ Distinct /\ Stored, [Next]_vars PROVE Stored'
    OBVIOUS
<1>0. tab \in [Tabs -> Panels] /\ removal \in [Removers -> Removals]
    BY DEF Typed, Busy
<1> USE DocumentsAssumption DEF rows, history, Throws, NextFile, Sweep, At, Idle,
           Free, Stored, RowsHaveObjects
<1>1. ASSUME NEW t \in Tabs, NEW p \in live, NEW e \in (EntryIds \cap issued) \cup {NoOne}, SubmitDocument(t, p, e)
      PROVE Stored'
    BY <1>1, <1>0 DEF SubmitDocument, Panels, Panel, Loading
<1>2. ASSUME NEW t \in Tabs, NEW p \in live, NEW n \in 0 .. MaxFiles, SubmitEntry(t, p, n)
      PROVE Stored'
    BY <1>2, <1>0 DEF SubmitEntry, Panels, Panel, Loading
<1>3. ASSUME NEW t \in Tabs, CreateEntry(t) PROVE Stored'
    BY <1>3, <1>0 DEF CreateEntry, Panels, Panel, Loading
<1>4. ASSUME NEW t \in Tabs, Presign(t) PROVE Stored'
    BY <1>4, <1>0 DEF Presign, Panels, Panel, Loading
<1>5. ASSUME NEW t \in Tabs, PutFile(t) PROVE Stored'
    <2>1. tab[t].key # NoOne /\ \A x \in swept : x.key # tab[t].key
        BY <1>5, BusyShape DEF PutFile, Distinct, Past, Typed, Loading
    <2> QED
        BY <1>5, <1>0, <2>1 DEF PutFile, Panels, Panel, Loading
<1>6. ASSUME NEW t \in Tabs, CheckConfirm(t) PROVE Stored'
    BY <1>6, <1>0 DEF CheckConfirm, Panels, Panel, Loading
<1>7. ASSUME NEW t \in Tabs, InsertDocument(t) PROVE Stored'
    BY <1>7, <1>0 DEF InsertDocument, Panels, Panel, Loading
<1>8. ASSUME NEW t \in Tabs, CallFails(t) PROVE Stored'
    BY <1>8, <1>0 DEF CallFails, Panels, Panel, Loading
<1>9. ASSUME NEW r \in Removers, NEW d \in docs, FindDocument(r, d) PROVE Stored'
    BY <1>9, <1>0 DEF FindDocument, Removals, Removal
<1>10. ASSUME NEW r \in Removers, DeleteObject(r) PROVE Stored'
    BY <1>10, <1>0 DEF DeleteObject, Removals, Removal, Distinct, Past, Panels, Loading
<1>11. ASSUME NEW r \in Removers, DeleteRow(r) PROVE Stored'
    BY <1>11, <1>0 DEF DeleteRow, Removals, Removal
<1>12. ASSUME NEW r \in Removers, RemovalFails(r) PROVE Stored'
    BY <1>12, <1>0 DEF RemovalFails, Removals, Removal, Distinct, Past, Panels, Loading
<1>13. ASSUME NEW e \in EntryIds, RemoveEntry(e) PROVE Stored'
    <2>1. /\ \A x \in docs' : \E y \in docs :
                 /\ x.id = y.id /\ x.key = y.key /\ x.project = y.project
                 /\ IF y.entry = e THEN x.entry = NoOne ELSE x.entry = y.entry
          /\ \A y \in docs : \E x \in docs' :
                 /\ x.id = y.id /\ x.key = y.key
                 /\ IF y.entry = e THEN x.entry = NoOne ELSE x.entry = y.entry
        BY <1>13, EntryRemoved DEF Typed
    <2>2. /\ entries' = [entries EXCEPT ![e] = NoOne]
          /\ UNCHANGED <<live, objects, issued, tab, removal, told, lost, swept>>
        BY <1>13 DEF RemoveEntry
    <2> QED
        BY <2>1, <2>2
<1>14. ASSUME NEW p \in ProjectIds, DeleteProject(p) PROVE Stored'
    BY <1>14, <1>0 DEF DeleteProject, Removals, Removal
<1>15. CASE UNCHANGED vars
    BY <1>15 DEF vars
<1> QED
    BY <1>1, <1>2, <1>3, <1>4, <1>5, <1>6, <1>7, <1>8, <1>9, <1>10, <1>11, <1>12, <1>13, <1>14, <1>15
       DEF Next, TabStep, RemovalStep

------------------------------------------------------------------------------
(* Objects without a row. *)

(* OrphansExplained needs no more: a removal that is about to delete a row   *)
(* has swept its object.                                                    *)
LEMMA OrphansInit == Init => OrphansExplained
BY DEF Init, OrphansExplained

LEMMA OrphansStep == Typed /\ Distinct /\ Stored /\ OrphansExplained /\ [Next]_vars => OrphansExplained'
<1> SUFFICES ASSUME Typed /\ Distinct /\ Stored /\ OrphansExplained, [Next]_vars PROVE OrphansExplained'
    OBVIOUS
<1>0. tab \in [Tabs -> Panels] /\ removal \in [Removers -> Removals]
    BY DEF Typed, Busy
<1> USE DocumentsAssumption DEF rows, history, Throws, NextFile, Sweep, At, Idle,
           Free, OrphansExplained
<1>1. ASSUME NEW t \in Tabs, NEW p \in live, NEW e \in (EntryIds \cap issued) \cup {NoOne}, SubmitDocument(t, p, e)
      PROVE OrphansExplained'
    BY <1>1, <1>0 DEF SubmitDocument, Panels, Panel, Loading
<1>2. ASSUME NEW t \in Tabs, NEW p \in live, NEW n \in 0 .. MaxFiles, SubmitEntry(t, p, n)
      PROVE OrphansExplained'
    BY <1>2, <1>0 DEF SubmitEntry, Panels, Panel, Loading
<1>3. ASSUME NEW t \in Tabs, CreateEntry(t) PROVE OrphansExplained'
    BY <1>3, <1>0 DEF CreateEntry, Panels, Panel, Loading
<1>4. ASSUME NEW t \in Tabs, Presign(t) PROVE OrphansExplained'
    BY <1>4, <1>0 DEF Presign, Panels, Panel, Loading
<1>5. ASSUME NEW t \in Tabs, PutFile(t) PROVE OrphansExplained'
    BY <1>5, <1>0 DEF PutFile, Panels, Panel, Loading
<1>6. ASSUME NEW t \in Tabs, CheckConfirm(t) PROVE OrphansExplained'
    BY <1>6, <1>0 DEF CheckConfirm, Panels, Panel, Loading
<1>7. ASSUME NEW t \in Tabs, InsertDocument(t) PROVE OrphansExplained'
    <2>0. PICK d \in DocIds : docs' = docs \cup {[id |-> d, project |-> tab[t].project,
                                                  entry |-> tab[t].entry, key |-> tab[t].key]}
        BY <1>7 DEF InsertDocument
    <2>1. /\ docs \subseteq docs' /\ \E x \in docs' : x.key = tab[t].key
          /\ lost \subseteq lost' /\ objects' = objects
        <3> DEFINE n == [id |-> d, project |-> tab[t].project,
                         entry |-> tab[t].entry, key |-> tab[t].key]
        <3>1. lost \subseteq lost' /\ objects' = objects
            BY <1>7 DEF InsertDocument
        <3>2. n.key = tab[t].key
            OBVIOUS
        <3>3. docs' = docs \cup {n}
            BY <2>0
        <3> HIDE DEF n
        <3> QED
            BY <3>1, <3>2, <3>3
    <2>2. \A u \in Tabs : u # t => tab'[u].key = tab[u].key
        BY <1>7, <1>0 DEF InsertDocument, Panels, Panel
    <2> QED
        BY <2>1, <2>2
<1>8. ASSUME NEW t \in Tabs, CallFails(t) PROVE OrphansExplained'
    BY <1>8, <1>0 DEF CallFails, Panels, Panel, Loading
<1>9. ASSUME NEW r \in Removers, NEW d \in docs, FindDocument(r, d)
      PROVE OrphansExplained'
    BY <1>9, <1>0 DEF FindDocument, Panels, Panel, Loading
<1>10. ASSUME NEW r \in Removers, DeleteObject(r) PROVE OrphansExplained'
    BY <1>10, <1>0 DEF DeleteObject, Panels, Panel, Loading
<1>11. ASSUME NEW r \in Removers, DeleteRow(r) PROVE OrphansExplained'
    BY <1>11 DEF DeleteRow, Stored, Distinct, Past
<1>12. ASSUME NEW r \in Removers, RemovalFails(r) PROVE OrphansExplained'
    BY <1>12, <1>0 DEF RemovalFails, Panels, Panel, Loading
<1>13. ASSUME NEW e \in EntryIds, RemoveEntry(e) PROVE OrphansExplained'
    <2>1. /\ \A x \in docs' : \E y \in docs :
                 /\ x.id = y.id /\ x.key = y.key /\ x.project = y.project
                 /\ IF y.entry = e THEN x.entry = NoOne ELSE x.entry = y.entry
          /\ \A y \in docs : \E x \in docs' :
                 /\ x.id = y.id /\ x.key = y.key
                 /\ IF y.entry = e THEN x.entry = NoOne ELSE x.entry = y.entry
        BY <1>13, EntryRemoved DEF Typed
    <2>2. /\ entries' = [entries EXCEPT ![e] = NoOne]
          /\ UNCHANGED <<live, objects, issued, tab, removal, told, lost, swept>>
        BY <1>13 DEF RemoveEntry
    <2> QED
        BY <2>1, <2>2
<1>14. ASSUME NEW p \in ProjectIds, DeleteProject(p) PROVE OrphansExplained'
    BY <1>14, <1>0 DEF DeleteProject, Panels, Panel, Loading
<1>15. CASE UNCHANGED vars
    BY <1>15 DEF vars
<1> QED
    BY <1>1, <1>2, <1>3, <1>4, <1>5, <1>6, <1>7, <1>8, <1>9, <1>10, <1>11, <1>12, <1>13, <1>14, <1>15
       DEF Next, TabStep, RemovalStep

------------------------------------------------------------------------------
(* Photos and their entries. *)

(* The entry a panel names has been issued, and once checked it is in the   *)
(* project of the upload or gone.                                           *)
Bound == /\ PhotosStayInside
         /\ \A e \in EntryIds : entries[e] # NoOne => e \in issued
         /\ \A t \in Tabs : tab[t].entry # NoOne =>
               /\ tab[t].entry \in issued
               /\ tab[t].next = "insert" => entries[tab[t].entry] \in {tab[t].project, NoOne}

LEMMA BoundInit == Init => Bound
BY DEF Init, Bound, PhotosStayInside, Idle

LEMMA BoundStep == Typed /\ Distinct /\ Bound /\ [Next]_vars => Bound'
<1> SUFFICES ASSUME Typed /\ Distinct /\ Bound, [Next]_vars PROVE Bound'
    OBVIOUS
<1>0. tab \in [Tabs -> Panels] /\ removal \in [Removers -> Removals]
    BY DEF Typed, Busy
<1> USE DocumentsAssumption DEF rows, history, Throws, NextFile, Sweep, At, Idle,
           Free, Bound, PhotosStayInside
<1>1. ASSUME NEW t \in Tabs, NEW p \in live, NEW e \in (EntryIds \cap issued) \cup {NoOne}, SubmitDocument(t, p, e)
      PROVE Bound'
    BY <1>1, <1>0 DEF SubmitDocument, Panels, Panel, Loading
<1>2. ASSUME NEW t \in Tabs, NEW p \in live, NEW n \in 0 .. MaxFiles, SubmitEntry(t, p, n)
      PROVE Bound'
    BY <1>2, <1>0 DEF SubmitEntry, Panels, Panel, Loading
<1>3. ASSUME NEW t \in Tabs, CreateEntry(t) PROVE Bound'
    <2>1. PICK e \in EntryIds \ issued : /\ entries' = [entries EXCEPT ![e] = tab[t].project]
                                       /\ issued' = issued \cup {e}
                                       /\ \/ tab' = [tab EXCEPT ![t].next = "presign", ![t].entry = e]
                                          \/ tab' = [tab EXCEPT ![t] = Idle]
        BY <1>3 DEF CreateEntry
    <2>2. /\ tab'[t].next # "insert" /\ tab'[t].entry \in {e, NoOne}
          /\ \A u \in Tabs : u # t => tab'[u] = tab[u]
        BY <1>0, <2>1 DEF Panels, Panel
    <2>3. /\ live' = live /\ docs' = docs /\ entries \in [EntryIds -> ProjectIds \cup {NoOne}]
          /\ docs \subseteq Document
        BY <1>3 DEF CreateEntry, Typed, Tables
    <2>4. entries'[e] \in ProjectIds \cup {NoOne} /\ \A f \in EntryIds : f # e => entries'[f] = entries[f]
        BY <1>3, <2>1, <2>3, BusyShape DEF Typed
    <2>5. entries[e] = NoOne
        BY <2>3
    <2>6. \A d \in docs : d.entry # NoOne => d.entry \in EntryIds /\ d.entry # e
        BY <2>3, <2>5 DEF Document
    <2>7. PhotosStayInside'
        BY <2>3, <2>4, <2>6
    <2>8. \A f \in EntryIds : entries'[f] # NoOne => f \in issued'
        BY <2>1, <2>4
    <2>9. ASSUME NEW u \in Tabs, tab'[u].entry # NoOne
          PROVE  /\ tab'[u].entry \in issued'
                 /\ tab'[u].next = "insert" => entries'[tab'[u].entry] \in {tab'[u].project, NoOne}
        <3>1. CASE u = t
            BY <2>1, <2>2, <2>9, <3>1
        <3>2. CASE u # t
            <4>1. tab'[u] = tab[u] /\ tab[u].entry \in issued /\ tab[u].entry \in EntryIds
                BY <2>2, <2>9, <3>2, BusyShape DEF Typed
            <4>2. issued \subseteq issued' /\ tab[u].entry # e
                BY <2>1, <4>1
            <4> QED
                BY <2>4, <2>9, <4>1, <4>2
        <3> QED
            BY <3>1, <3>2
    <2> QED
        BY <2>7, <2>8, <2>9
<1>4. ASSUME NEW t \in Tabs, Presign(t) PROVE Bound'
    BY <1>4, <1>0 DEF Presign, Panels, Panel, Loading
<1>5. ASSUME NEW t \in Tabs, PutFile(t) PROVE Bound'
    BY <1>5, <1>0 DEF PutFile, Panels, Panel, Loading
<1>6. ASSUME NEW t \in Tabs, CheckConfirm(t) PROVE Bound'
    BY <1>6, <1>0 DEF CheckConfirm, Panels, Panel, Loading
<1>7. ASSUME NEW t \in Tabs, InsertDocument(t) PROVE Bound'
    BY <1>7, <1>0 DEF InsertDocument, Panels, Panel, Loading
<1>8. ASSUME NEW t \in Tabs, CallFails(t) PROVE Bound'
    BY <1>8, <1>0 DEF CallFails, Panels, Panel, Loading
<1>9. ASSUME NEW r \in Removers, NEW d \in docs, FindDocument(r, d) PROVE Bound'
    BY <1>9, <1>0, BusyShape DEF FindDocument, Typed, Tables
<1>10. ASSUME NEW r \in Removers, DeleteObject(r) PROVE Bound'
    BY <1>10, <1>0, BusyShape DEF DeleteObject, Typed, Tables
<1>11. ASSUME NEW r \in Removers, DeleteRow(r) PROVE Bound'
    BY <1>11, <1>0, BusyShape DEF DeleteRow, Typed, Tables
<1>12. ASSUME NEW r \in Removers, RemovalFails(r) PROVE Bound'
    BY <1>12, <1>0, BusyShape DEF RemovalFails, Typed, Tables
<1>13. ASSUME NEW e \in EntryIds, RemoveEntry(e) PROVE Bound'
    <2>1. /\ \A x \in docs' : \E y \in docs :
                 /\ x.id = y.id /\ x.key = y.key /\ x.project = y.project
                 /\ IF y.entry = e THEN x.entry = NoOne ELSE x.entry = y.entry
          /\ \A y \in docs : \E x \in docs' :
                 /\ x.id = y.id /\ x.key = y.key
                 /\ IF y.entry = e THEN x.entry = NoOne ELSE x.entry = y.entry
        BY <1>13, EntryRemoved DEF Typed
    <2>2. /\ entries' = [entries EXCEPT ![e] = NoOne]
          /\ UNCHANGED <<live, objects, issued, tab, removal, told, lost, swept>>
        BY <1>13 DEF RemoveEntry
    <2>3. entries \in [EntryIds -> ProjectIds \cup {NoOne}] /\ docs \subseteq Document
        BY DEF Typed, Tables
    <2>4. \A f \in EntryIds : f # e => entries'[f] = entries[f]
        BY <2>2, <2>3
    <2>5. entries'[e] = NoOne
        BY <2>2, <2>3
    <2>6. PhotosStayInside'
        <3>1. ASSUME NEW x \in docs'
              PROVE  /\ x.project \in live
                     /\ x.entry # NoOne => entries'[x.entry] = x.project
            <4>1. PICK y \in docs : /\ x.project = y.project
                                    /\ IF y.entry = e THEN x.entry = NoOne ELSE x.entry = y.entry
                BY <2>1
            <4>2. y.entry \in EntryIds \cup {NoOne}
                BY <2>3 DEF Document
            <4> QED
                BY <2>4, <4>1, <4>2
        <3> QED
            BY <2>2, <3>1
    <2>7. \A u \in Tabs : tab[u].entry # NoOne => tab[u].entry \in EntryIds
        BY BusyShape DEF Typed
    <2>8. \A f \in EntryIds : entries'[f] # NoOne => f \in issued
        BY <2>4, <2>5
    <2> QED
        BY <2>2, <2>4, <2>5, <2>6, <2>7, <2>8
<1>14. ASSUME NEW p \in ProjectIds, DeleteProject(p) PROVE Bound'
    <2>1. /\ live' = live \ {p} /\ docs' = {d \in docs : d.project # p}
          /\ entries' = [f \in EntryIds |-> IF entries[f] = p THEN NoOne ELSE entries[f]]
          /\ issued' = issued /\ tab' = tab /\ p # NoOne
        BY <1>14 DEF DeleteProject
    <2>2. \A f \in EntryIds : entries'[f] = entries[f] \/ (entries'[f] = NoOne /\ entries[f] = p)
        BY <2>1
    <2>3. \A d \in docs : d.entry # NoOne => d.entry \in EntryIds
        BY DEF Typed, Tables, Document
    <2>4. \A u \in Tabs : tab[u].entry # NoOne => tab[u].entry \in EntryIds
        BY BusyShape DEF Typed
    <2>5. PhotosStayInside'
        BY <2>1, <2>2, <2>3
    <2> QED
        BY <2>1, <2>2, <2>4, <2>5
<1>15. CASE UNCHANGED vars
    BY <1>15 DEF vars
<1> QED
    BY <1>1, <1>2, <1>3, <1>4, <1>5, <1>6, <1>7, <1>8, <1>9, <1>10, <1>11, <1>12, <1>13, <1>14, <1>15
       DEF Next, TabStep, RemovalStep

------------------------------------------------------------------------------
(* What a panel has told its user. *)

(* The file is where SuccessMeansStored says, *)
Kept(e, k) == \/ k \in lost \/ k \in {s.key : s \in swept}
              \/ \E d \in docs : /\ d.key = k
                                 /\ \/ d.entry = e
                                    \/ d.entry = NoOne /\ entries[e] = NoOne

(* also for the files a panel has sent so far; entries that are named have  *)
(* been issued.                                                             *)
Honest == /\ \A f \in told : Kept(f.entry, f.key) /\ f.entry \in issued \cup {NoOne}
          /\ \A t \in Tabs : \A k \in tab[t].sent :
                Kept(tab[t].entry, k) /\ tab[t].entry \in issued \cup {NoOne}
          /\ \A e \in EntryIds : entries[e] # NoOne => e \in issued

LEMMA HonestInit == Init => Honest
BY DEF Init, Honest, Idle

LEMMA KeptStays ==
    ASSUME lost \subseteq lost', swept \subseteq swept',
           NEW e, NEW k, Kept(e, k), e # NoOne /\ entries[e] = NoOne => entries'[e] = NoOne,
           \A d \in docs : \/ d.key \in lost' \/ d.key \in {s.key : s \in swept'}
                           \/ \E x \in docs' : /\ x.key = d.key
                                               /\ \/ x.entry = d.entry
                                                  \/ x.entry = NoOne /\ entries'[d.entry] = NoOne
    PROVE  Kept(e, k)'
<1>1. CASE k \in lost \/ k \in {s.key : s \in swept}
    BY <1>1 DEF Kept
<1>2. ASSUME NEW d \in docs, d.key = k, d.entry = e \/ (d.entry = NoOne /\ entries[e] = NoOne)
      PROVE  Kept(e, k)'
    <2>1. CASE d.entry = e
        BY <1>2, <2>1 DEF Kept
    <2>2. CASE d.entry = NoOne /\ entries[e] = NoOne /\ e # NoOne
        BY <1>2, <2>2 DEF Kept
    <2> QED
        BY <1>2, <2>1, <2>2
<1> QED
    BY <1>1, <1>2 DEF Kept

LEMMA HonestStep == Typed /\ Distinct /\ Stored /\ Honest /\ [Next]_vars => Honest'
<1> SUFFICES ASSUME Typed /\ Distinct /\ Stored /\ Honest, [Next]_vars PROVE Honest'
    OBVIOUS
<1>0. tab \in [Tabs -> Panels] /\ removal \in [Removers -> Removals]
    BY DEF Typed, Busy
<1> USE DocumentsAssumption DEF rows, history, Throws, NextFile, Sweep, At, Idle,
           Free, Honest
<1>1. ASSUME NEW t \in Tabs, NEW p \in live, NEW e \in (EntryIds \cap issued) \cup {NoOne}, SubmitDocument(t, p, e)
      PROVE Honest'
    BY <1>1, <1>0 DEF SubmitDocument, Panels, Panel, Loading, Kept
<1>2. ASSUME NEW t \in Tabs, NEW p \in live, NEW n \in 0 .. MaxFiles, SubmitEntry(t, p, n)
      PROVE Honest'
    BY <1>2, <1>0 DEF SubmitEntry, Panels, Panel, Loading, Kept
<1>3. ASSUME NEW t \in Tabs, CreateEntry(t) PROVE Honest'
    BY <1>3, <1>0 DEF CreateEntry, Panels, Panel, Loading, Kept
<1>4. ASSUME NEW t \in Tabs, Presign(t) PROVE Honest'
    BY <1>4, <1>0 DEF Presign, Panels, Panel, Loading, Kept
<1>5. ASSUME NEW t \in Tabs, PutFile(t) PROVE Honest'
    BY <1>5, <1>0 DEF PutFile, Panels, Panel, Loading, Kept
<1>6. ASSUME NEW t \in Tabs, CheckConfirm(t) PROVE Honest'
    BY <1>6, <1>0 DEF CheckConfirm, Panels, Panel, Loading, Kept
<1>7. ASSUME NEW t \in Tabs, InsertDocument(t) PROVE Honest'
    <2> DEFINE c == tab[t]
               n(d) == [id |-> d, project |-> c.project, entry |-> c.entry, key |-> c.key]
    <2>1. PICK d \in DocIds : docs' = docs \cup {n(d)}
        BY <1>7 DEF InsertDocument
    <2>2. n(d).key = c.key /\ n(d).entry = c.entry
        OBVIOUS
    <2>3. /\ swept' = swept /\ lost \subseteq lost' /\ entries' = entries /\ issued \subseteq issued'
          /\ c.next = "insert"
        BY <1>7 DEF InsertDocument
    <2>4. /\ \A f \in told' : f \in told \/ (f.entry = c.entry /\ f.key \in c.sent \cup {c.key})
          /\ \/ tab' = [tab EXCEPT ![t] = Idle]
             \/ tab' = [tab EXCEPT ![t].next = "presign", ![t].key = NoOne,
                                  ![t].left = c.left - 1, ![t].sent = c.sent \cup {c.key}]
        <3>1. NextFile(t, c.left - 1, c.sent \cup {c.key}) \/ Throws(t)
            BY <1>7 DEF InsertDocument
        <3> QED
            BY <3>1
    <2> HIDE DEF n
    <2>5. \A e, k : Kept(e, k) => Kept(e, k)'
        BY <2>1, <2>3, KeptStays
    <2>6. \E x \in docs' : x.key = c.key /\ x.entry = c.entry
        BY <2>1, <2>2
    <2>7. c.entry \in issued \cup {NoOne}
        <3>1. c.entry # NoOne => c.entry \in EntryIds /\ entries[c.entry] # NoOne
            BY <1>7, BusyShape DEF InsertDocument, Typed
        <3> QED
            BY <3>1
    <2>8. \A u \in Tabs : /\ u # t => tab'[u] = tab[u]
                        /\ \/ tab'[t].sent = {}
                           \/ tab'[t].sent = c.sent \cup {c.key} /\ tab'[t].entry = c.entry
        BY <1>0, <2>4 DEF Panels, Panel
    <2>9. ASSUME NEW e, NEW k, e = c.entry, k \in c.sent \cup {c.key}
          PROVE  Kept(e, k)' /\ e \in issued' \cup {NoOne}
        <3>1. CASE k \in c.sent
            BY <2>3, <2>5, <2>9, <3>1
        <3>2. CASE k = c.key
            BY <2>3, <2>6, <2>7, <2>9, <3>2 DEF Kept
        <3> QED
            BY <2>9, <3>1, <3>2
    <2>10. \A f \in told' : Kept(f.entry, f.key)' /\ f.entry \in issued' \cup {NoOne}
        BY <2>3, <2>4, <2>5, <2>9
    <2>11. \A u \in Tabs : \A k \in tab'[u].sent :
              Kept(tab[u].entry, k)' /\ tab'[u].entry \in issued' \cup {NoOne}
        <3> TAKE u \in Tabs
        <3>1. CASE u = t
            BY <2>8, <2>9, <3>1
        <3>2. CASE u # t
            BY <2>3, <2>5, <2>8, <3>2
        <3> QED
            BY <3>1, <3>2
    <2> QED
        BY <2>3, <2>10, <2>11
<1>8. ASSUME NEW t \in Tabs, CallFails(t) PROVE Honest'
    BY <1>8, <1>0 DEF CallFails, Panels, Panel, Loading, Kept
<1>9. ASSUME NEW r \in Removers, NEW d \in docs, FindDocument(r, d) PROVE Honest'
    BY <1>9, <1>0 DEF FindDocument, Panels, Panel, Loading, Kept
<1>10. ASSUME NEW r \in Removers, DeleteObject(r) PROVE Honest'
    BY <1>10, <1>0 DEF DeleteObject, Panels, Panel, Loading, Kept
<1>11. ASSUME NEW r \in Removers, DeleteRow(r) PROVE Honest'
    <2>1. /\ removal[r].doc \in swept /\ removal[r].doc \in Past
          /\ docs' = {d \in docs : d.id # removal[r].doc.id}
          /\ UNCHANGED <<entries, issued, tab, told, lost, swept>>
        BY <1>11 DEF DeleteRow, Stored, Past
    <2>2. \A d \in docs : d \in docs' \/ d.key \in {s.key : s \in swept'}
        BY <2>1 DEF Distinct, Past
    <2>3. \A e, k : Kept(e, k) => Kept(e, k)'
        BY <2>1, <2>2, KeptStays
    <2> QED
        BY <2>1, <2>3
<1>12. ASSUME NEW r \in Removers, RemovalFails(r) PROVE Honest'
    BY <1>12, <1>0 DEF RemovalFails, Panels, Panel, Loading, Kept
<1>13. ASSUME NEW e \in EntryIds, RemoveEntry(e) PROVE Honest'
    <2>1. /\ \A x \in docs' : \E y \in docs :
                 /\ x.id = y.id /\ x.key = y.key /\ x.project = y.project
                 /\ IF y.entry = e THEN x.entry = NoOne ELSE x.entry = y.entry
          /\ \A y \in docs : \E x \in docs' :
                 /\ x.id = y.id /\ x.key = y.key
                 /\ IF y.entry = e THEN x.entry = NoOne ELSE x.entry = y.entry
        BY <1>13, EntryRemoved DEF Typed
    <2>2. /\ entries' = [entries EXCEPT ![e] = NoOne]
          /\ UNCHANGED <<live, objects, issued, tab, removal, told, lost, swept>>
        BY <1>13 DEF RemoveEntry
    <2>3. entries \in [EntryIds -> ProjectIds \cup {NoOne}]
        BY DEF Typed, Tables
    <2>4. \A f \in EntryIds : entries[f] = NoOne => entries'[f] = NoOne
        BY <2>2, <2>3
    <2>5. \A d \in docs : \E x \in docs' : /\ x.key = d.key
                                           /\ \/ x.entry = d.entry
                                              \/ x.entry = NoOne /\ entries'[d.entry] = NoOne
        <3>1. entries'[e] = NoOne
            BY <2>2, <2>3
        <3> QED
            BY <2>1, <3>1
    <2>6. \A f \in EntryIds \cup {NoOne} : \A k : Kept(f, k) => Kept(f, k)'
        BY <2>2, <2>4, <2>5, KeptStays
    <2>7. \A f \in told : f.entry \in EntryIds \cup {NoOne}
        BY DEF Typed, Tables, Photo
    <2>8. \A u \in Tabs : tab[u].entry \in EntryIds \cup {NoOne}
        BY BusyShape DEF Typed
    <2>9. \A f \in EntryIds : entries'[f] # NoOne => entries[f] # NoOne
        BY <2>4
    <2> QED
        BY <2>2, <2>6, <2>7, <2>8, <2>9
<1>14. ASSUME NEW p \in ProjectIds, DeleteProject(p) PROVE Honest'
    <2>1. /\ docs' = {d \in docs : d.project # p} /\ lost' = lost \cup {d.key : d \in docs \ docs'}
          /\ entries' = [f \in EntryIds |-> IF entries[f] = p THEN NoOne ELSE entries[f]]
          /\ UNCHANGED <<issued, tab, told, swept>>
        BY <1>14 DEF DeleteProject
    <2>2. \A f \in EntryIds : entries[f] = NoOne => entries'[f] = NoOne
        BY <2>1
    <2>3. \A d \in docs : d \in docs' \/ d.key \in lost'
        BY <2>1
    <2>6. \A f \in EntryIds \cup {NoOne} : \A k : Kept(f, k) => Kept(f, k)'
        BY <2>1, <2>2, <2>3, KeptStays
    <2>7. \A f \in told : f.entry \in EntryIds \cup {NoOne}
        BY DEF Typed, Tables, Photo
    <2>8. \A u \in Tabs : tab[u].entry \in EntryIds \cup {NoOne}
        BY BusyShape DEF Typed
    <2>9. \A f \in EntryIds : entries'[f] # NoOne => entries[f] # NoOne
        BY <2>2
    <2> QED
        BY <2>1, <2>6, <2>7, <2>8, <2>9
<1>15. CASE UNCHANGED vars
    BY <1>15 DEF vars, Kept
<1> QED
    BY <1>1, <1>2, <1>3, <1>4, <1>5, <1>6, <1>7, <1>8, <1>9, <1>10, <1>11, <1>12, <1>13, <1>14, <1>15
       DEF Next, TabStep, RemovalStep

------------------------------------------------------------------------------
(* The theorems. *)

Inv == Typed /\ Distinct /\ Stored /\ Bound /\ OrphansExplained /\ Honest

LEMMA InvHolds == Spec => []Inv
<1>1. Init => Inv
    BY TypedInit, DistinctInit, StoredInit, BoundInit, OrphansInit, HonestInit DEF Inv
<1>2. Inv /\ [Next]_vars => Inv'
    BY TypedStep, DistinctStep, StoredStep, BoundStep, OrphansStep, HonestStep DEF Inv
<1> QED
    BY <1>1, <1>2, PTL DEF Spec

(* Only a document's own removal takes the object from behind its row,      *)
(* whatever uploads and removals fail half-way.                             *)
THEOREM RowsHold == Spec => []RowsHaveObjects
<1>1. Inv => RowsHaveObjects
    BY DEF Inv, Stored
<1> QED
    BY <1>1, InvHolds, PTL

(* A photo's diary entry is an entry of the photo's project, though entries *)
(* and projects go between the look-up and the insert.                      *)
THEOREM PhotosHold == Spec => []PhotosStayInside
<1>1. Inv => PhotosStayInside
    BY DEF Inv, Bound
<1> QED
    BY <1>1, InvHolds, PTL

(* Removing documents and diary entries leaves no object without a row.     *)
THEOREM OrphansHold == Spec => []OrphansExplained
<1>1. Inv => OrphansExplained
    BY DEF Inv
<1> QED
    BY <1>1, InvHolds, PTL

(* A panel that reports success has stored every file under its entry.      *)
THEOREM SuccessHolds == Spec => []SuccessMeansStored
<1>1. Inv => SuccessMeansStored
    BY DEF Inv, Honest, Kept, SuccessMeansStored
<1> QED
    BY <1>1, InvHolds, PTL
==============================================================================
