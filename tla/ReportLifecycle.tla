--------------------------- MODULE ReportLifecycle ---------------------------
(***************************************************************************)
(* What whoever asks for a report is promised: it is pending, settles as   *)
(* completed or failed, and stays so until it is removed.  A report that   *)
(* was stranded before its job was added stays pending; a reopened one,    *)
(* retried or completed by a worker that did not hear so, may settle anew. *)
(***************************************************************************)
CONSTANT Reports

VARIABLES status,     \* "none", "pending", "completed", "failed" or "removed"
          stranded,
          reopened

lifecycle == <<status, stranded, reopened>>

LifecycleInit == /\ status = [x \in Reports |-> "none"]
                 /\ stranded = {} /\ reopened = {}

Outcomes == {"completed", "failed"}
Become(x, s) == /\ status' = [status EXCEPT ![x] = s]
                /\ UNCHANGED <<stranded, reopened>>

(* Completed, but whoever did so takes it for a failure. *)
CompleteUnheard(x) == /\ status' = [status EXCEPT ![x] = "completed"]
                      /\ reopened' = reopened \cup {x}
                      /\ UNCHANGED stranded

Request(x) == status[x] = "none" /\ Become(x, "pending")
Settle(x) == /\ status[x] = "pending" /\ x \notin stranded
             /\ \/ \E s \in Outcomes : Become(x, s)
                \/ CompleteUnheard(x)
SettleAnew(x) == /\ status[x] \in Outcomes /\ x \in reopened
                 /\ \E s \in Outcomes : Become(x, s)

(* A process that goes down may strand several reports. *)
Strand(xs) == /\ \A x \in xs : status[x] \in {"pending", "removed"}
              /\ stranded' = stranded \cup xs
              /\ UNCHANGED <<status, reopened>>
Reopen(x) == /\ status[x] # "none" /\ x \notin stranded
             /\ reopened' = reopened \cup {x}
             /\ UNCHANGED <<status, stranded>>

(* Deleting a project removes all its reports at once. *)
Remove(xs) == /\ xs # {} /\ \A x \in xs : status[x] \in Outcomes \cup {"pending"}
              /\ status' = [x \in Reports |-> IF x \in xs THEN "removed" ELSE status[x]]
              /\ UNCHANGED <<stranded, reopened>>

LifecycleNext == \/ \E x \in Reports : Request(x) \/ Settle(x) \/ SettleAnew(x) \/ Reopen(x)
                 \/ \E xs \in SUBSET Reports : Remove(xs) \/ Strand(xs)

(* A pending report that is not stranded does not stay pending. *)
LifecycleSpec == /\ LifecycleInit /\ [][LifecycleNext]_lifecycle
                 /\ \A x \in Reports : WF_lifecycle(Settle(x))
==============================================================================
