------------------------------ MODULE Documents ------------------------------
(***************************************************************************)
(* Documents and diary photos (DocumentsService, DocumentPanel,            *)
(* DiaryPanel): a browser asks for a presigned URL, puts the file into S3  *)
(* itself and has the API confirm it with a row.  Row and object have no   *)
(* transaction in common, and every call may fail with its effect or       *)
(* without it.  The stage of a document is checked as Workspace says.      *)
(***************************************************************************)
EXTENDS Naturals, FiniteSets

CONSTANTS ProjectIds, EntryIds, DocIds,   \* uuids of rows
          Keys,        \* S3 keys, each with a fresh uuid
          Tabs,        \* open panels, one submission at a time each
          Removers,    \* slots for document removals at the same time
          MaxFiles,    \* files a diary entry may be submitted with
          NoOne

ASSUME DocumentsAssumption ==
          /\ NoOne \notin ProjectIds \cup EntryIds \cup DocIds \cup Keys
          /\ EntryIds \cap DocIds = {} /\ Keys \cap (EntryIds \cup DocIds) = {}
          /\ MaxFiles \in Nat \ {0}

VARIABLES live,      \* projects that exist
          entries,   \* the project of each DiaryEntry row, NoOne without one
          docs,      \* Document rows
          objects,   \* keys with an object in S3
          issued,    \* ids and keys given out so far
          tab,       \* what the mutation of each panel is doing
          removal,   \* what each removal is doing
          told,      \* history: photos of submissions that succeeded
          lost,      \* history: keys of failed uploads and deleted projects
          swept      \* history: documents whose object a removal deleted

rows == <<live, entries, docs>>
history == <<told, lost, swept>>
vars == <<rows, objects, issued, tab, removal, history>>

Document == [id : DocIds, project : ProjectIds, entry : EntryIds \cup {NoOne}, key : Keys]
Photo == [entry : EntryIds \cup {NoOne}, key : Keys]

(* A panel between two awaits of its mutation; left counts the files still *)
(* to upload, sent the ones confirmed.                                     *)
Calls == {"entry", "presign", "put", "check", "insert"}
Idle == [next |-> "idle", project |-> NoOne, entry |-> NoOne, key |-> NoOne,
         left |-> 0, sent |-> {}]
Free == [next |-> "idle", doc |-> NoOne]

Init == /\ live = ProjectIds
        /\ entries = [e \in EntryIds |-> NoOne]
        /\ docs = {}
        /\ objects = {}
        /\ issued = {}
        /\ tab = [t \in Tabs |-> Idle]
        /\ removal = [r \in Removers |-> Free]
        /\ told = {} /\ lost = {} /\ swept = {}

------------------------------------------------------------------------------
(* The panels. *)

(* The documents panel names no entry; the API takes any a client knows. *)
SubmitDocument(t, p, e) ==
    /\ tab[t].next = "idle"
    /\ tab' = [tab EXCEPT ![t] = [Idle EXCEPT !.next = "presign", !.project = p,
                                             !.entry = e, !.left = 1]]
    /\ UNCHANGED <<rows, objects, issued, removal, history>>

SubmitEntry(t, p, n) ==
    /\ tab[t].next = "idle"
    /\ tab' = [tab EXCEPT ![t] = [Idle EXCEPT !.next = "entry", !.project = p, !.left = n]]
    /\ UNCHANGED <<rows, objects, issued, removal, history>>

(* The mutation throws: the panel shows an error and forgets the rest. *)
Throws(t) == /\ tab' = [tab EXCEPT ![t] = Idle]
             /\ lost' = lost \cup ({tab[t].key} \ {NoOne})
             /\ UNCHANGED <<told, swept>>

(* On to the next file, or done. *)
NextFile(t, left, sent) ==
    IF left > 0
    THEN /\ tab' = [tab EXCEPT ![t].next = "presign", ![t].key = NoOne,
                               ![t].left = left, ![t].sent = sent]
         /\ UNCHANGED history
    ELSE /\ tab' = [tab EXCEPT ![t] = Idle]
         /\ told' = told \cup {[entry |-> tab[t].entry, key |-> k] : k \in sent}
         /\ UNCHANGED <<lost, swept>>

(* A photo that fails is skipped, and the panel goes on. *)
CallFails_skipsFile(t) ==
    /\ tab[t].next \in Calls \ {"entry"}
    /\ NextFile(t, tab[t].left - 1, tab[t].sent \cup ({tab[t].key} \ {NoOne}))
    /\ UNCHANGED <<rows, objects, issued, removal>>

(* A call rejects, answers 4xx or 5xx, or the URL has expired. *)
CallFails(t) == /\ tab[t].next # "idle"
                /\ Throws(t)
                /\ UNCHANGED <<rows, objects, issued, removal>>

(* POST diary: the reply may get lost after the insert. *)
CreateEntry(t) ==
    /\ tab[t].next = "entry" /\ tab[t].project \in live
    /\ \E e \in EntryIds \ issued :
          /\ entries' = [entries EXCEPT ![e] = tab[t].project]
          /\ issued' = issued \cup {e}
          /\ \/ /\ tab[t].left > 0
                /\ tab' = [tab EXCEPT ![t].next = "presign", ![t].entry = e]
             \/ tab' = [tab EXCEPT ![t] = Idle]
    /\ UNCHANGED <<live, docs, objects, removal, history>>

(* The key is the name of the file, without a uuid. *)
Presign_byFileName(t) ==
    /\ tab[t].next = "presign" /\ tab[t].project \in live
    /\ \E k \in Keys : /\ tab' = [tab EXCEPT ![t].next = "put", ![t].key = k]
                      /\ issued' = issued \cup {k}
    /\ UNCHANGED <<rows, objects, removal, history>>

Presign(t) ==
    /\ tab[t].next = "presign" /\ tab[t].project \in live
    /\ \E k \in Keys \ issued :
          /\ tab' = [tab EXCEPT ![t].next = "put", ![t].key = k]
          /\ issued' = issued \cup {k}
    /\ UNCHANGED <<rows, objects, removal, history>>

(* PUT to S3, whose reply may get lost as well. *)
PutFile(t) ==
    /\ tab[t].next = "put"
    /\ objects' = objects \cup {tab[t].key}
    /\ \/ /\ tab' = [tab EXCEPT ![t].next = "check"]
          /\ UNCHANGED history
       \/ Throws(t)
    /\ UNCHANGED <<rows, issued, removal>>

(* confirmUpload without its look at the diary entry's project. *)
CheckConfirm_anyEntry(t) ==
    /\ tab[t].next = "check" /\ tab[t].project \in live
    /\ tab' = [tab EXCEPT ![t].next = "insert"]
    /\ UNCHANGED <<rows, objects, issued, removal, history>>

(* confirmUpload: findOwned and the diary entry the body names, *)
CheckConfirm(t) ==
    /\ tab[t].next = "check" /\ tab[t].project \in live
    /\ tab[t].entry # NoOne => entries[tab[t].entry] = tab[t].project
    /\ tab' = [tab EXCEPT ![t].next = "insert"]
    /\ UNCHANGED <<rows, objects, issued, removal, history>>

(* then the insert, which the foreign keys refuse when the project or the  *)
(* entry has gone meanwhile.                                               *)
InsertDocument(t) ==
    LET c == tab[t]
    IN  /\ c.next = "insert" /\ c.project \in live
        /\ c.entry # NoOne => entries[c.entry] # NoOne
        /\ \E d \in DocIds \ issued :
              /\ docs' = docs \cup {[id |-> d, project |-> c.project,
                                     entry |-> c.entry, key |-> c.key]}
              /\ issued' = issued \cup {d}
        /\ NextFile(t, c.left - 1, c.sent \cup {c.key}) \/ Throws(t)
        /\ UNCHANGED <<live, entries, objects, removal>>

------------------------------------------------------------------------------
(* Removals.  S3 deletes an object that is gone without complaint; Prisma  *)
(* rejects the deletion of a row that is gone.                             *)

At(r, step) == removal[r].next = step
Sweep(d) == /\ objects' = objects \ {d.key}
            /\ swept' = swept \cup {d}
            /\ UNCHANGED <<told, lost>>

FindDocument(r, d) ==
    /\ At(r, "idle") /\ d \in docs
    /\ removal' = [removal EXCEPT ![r] = [next |-> "object", doc |-> d]]
    /\ UNCHANGED <<rows, objects, issued, tab, history>>

DeleteObject(r) ==
    /\ At(r, "object")
    /\ Sweep(removal[r].doc)
    /\ removal' = [removal EXCEPT ![r].next = "row"]
    /\ UNCHANGED <<rows, issued, tab>>

DeleteRow(r) ==
    /\ At(r, "row")
    /\ docs' = {d \in docs : d.id # removal[r].doc.id}
    /\ removal' = [removal EXCEPT ![r] = Free]
    /\ UNCHANGED <<live, entries, objects, issued, tab, history>>

(* S3 or the database fails, perhaps after S3 has deleted the object. *)
RemovalFails(r) ==
    /\ removal[r].next # "idle"
    /\ \/ At(r, "object") /\ Sweep(removal[r].doc)
       \/ UNCHANGED <<objects, history>>
    /\ removal' = [removal EXCEPT ![r] = Free]
    /\ UNCHANGED <<rows, issued, tab>>

------------------------------------------------------------------------------
(* Entries and projects go. *)

(* The photos go with their entry (onDelete: Cascade). *)
RemoveEntry_cascades(e) ==
    /\ entries[e] # NoOne
    /\ entries' = [entries EXCEPT ![e] = NoOne]
    /\ docs' = {d \in docs : d.entry # e}
    /\ UNCHANGED <<live, objects, issued, tab, removal, history>>

(* onDelete: SetNull. *)
RemoveEntry(e) ==
    /\ entries[e] # NoOne
    /\ entries' = [entries EXCEPT ![e] = NoOne]
    /\ docs' = {IF d.entry = e THEN [d EXCEPT !.entry = NoOne] ELSE d : d \in docs}
    /\ UNCHANGED <<live, objects, issued, tab, removal, history>>

(* onDelete: Cascade over the rows; S3 is not told. *)
DeleteProject(p) ==
    /\ p \in live
    /\ live' = live \ {p}
    /\ entries' = [e \in EntryIds |-> IF entries[e] = p THEN NoOne ELSE entries[e]]
    /\ docs' = {d \in docs : d.project # p}
    /\ lost' = lost \cup {d.key : d \in docs \ docs'}
    /\ UNCHANGED <<objects, issued, tab, removal, told, swept>>

TabStep(t) ==
    \/ \E p \in live : \/ \E e \in (EntryIds \cap issued) \cup {NoOne} : SubmitDocument(t, p, e)
                      \/ \E n \in 0 .. MaxFiles : SubmitEntry(t, p, n)
    \/ CreateEntry(t) \/ Presign(t) \/ PutFile(t)
    \/ CheckConfirm(t) \/ InsertDocument(t) \/ CallFails(t)

RemovalStep(r) == \/ \E d \in docs : FindDocument(r, d)
                  \/ DeleteObject(r) \/ DeleteRow(r) \/ RemovalFails(r)

Next == \/ \E t \in Tabs : TabStep(t)
        \/ \E r \in Removers : RemovalStep(r)
        \/ \E e \in EntryIds : RemoveEntry(e)
        \/ \E p \in ProjectIds : DeleteProject(p)

Spec == Init /\ [][Next]_vars

------------------------------------------------------------------------------
(* Properties. *)

(* Types of rows, objects, panels and removals. *)
TypeOK == /\ live \subseteq ProjectIds
          /\ entries \in [EntryIds -> ProjectIds \cup {NoOne}]
          /\ docs \subseteq Document /\ swept \subseteq Document
          /\ objects \subseteq Keys /\ lost \subseteq Keys
          /\ issued \subseteq EntryIds \cup DocIds \cup Keys
          /\ told \subseteq Photo
          /\ \A t \in Tabs : /\ tab[t].next \in Calls \cup {"idle"}
                            /\ tab[t].project \in ProjectIds \cup {NoOne}
                            /\ tab[t].entry \in EntryIds \cup {NoOne}
                            /\ tab[t].key \in Keys \cup {NoOne}
                            /\ tab[t].left \in 0 .. MaxFiles
                            /\ tab[t].sent \subseteq Keys
          /\ \A r \in Removers : /\ removal[r].next \in {"idle", "object", "row"}
                                /\ removal[r].doc \in Document \cup {NoOne}

(* A document points to its file: only its own removal, and never that of  *)
(* another document, has deleted the object behind a row.                  *)
RowsHaveObjects ==
    \A d \in docs : d.key \in objects \/ d.id \in {s.id : s \in swept}

(* A document's project exists, and the diary entry it is a photo of is an *)
(* entry of that project, though it was looked up before the insert and    *)
(* the foreign key knows nothing of projects.                              *)
PhotosStayInside ==
    \A d \in docs : /\ d.project \in live
                    /\ d.entry # NoOne => entries[d.entry] = d.project

(* An object that no row names is on its way to one, or was left behind by *)
(* an upload that failed or by the deletion of its project: no removal of  *)
(* a document or a diary entry leaves a file that nobody can delete.       *)
OrphansExplained ==
    \A k \in objects : \/ k \in {d.key : d \in docs}
                       \/ k \in {tab[t].key : t \in Tabs}
                       \/ k \in lost

(* A panel that shows no error has stored every file: each has its row,    *)
(* under the entry it was submitted with as long as that entry is there,   *)
(* unless it was removed since.                                            *)
SuccessMeansStored ==
    \A f \in told :
       \/ f.key \in lost \/ f.key \in {s.key : s \in swept}
       \/ \E d \in docs : /\ d.key = f.key
                          /\ \/ d.entry = f.entry
                             \/ d.entry = NoOne /\ entries[f.entry] = NoOne

==============================================================================
