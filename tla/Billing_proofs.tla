--------------------------- MODULE Billing_proofs ---------------------------
(***************************************************************************)
(* Theorems about Billing, for every set of users, customers, subscriptions *)
(* and requests and every number of payments and changes.                  *)
(***************************************************************************)
EXTENDS Billing, FiniteSetTheorems, TLAPS

------------------------------------------------------------------------------
(* Type correctness. *)

(* The records of a checkout under way, of a webhook, and of a row. *)
Ongoing == [at : {"create", "save", "session"}, user : Users, customer : Customers \cup {NoOne}]
Handled == [at : {"retrieve", "find", "upsert", "plan"}, event : Event, n : 0 .. MaxChanges,
            user : Users \cup {NoOne}]
Shown == [sub : Subs, of : Subs, n : 1 .. MaxChanges]

(* The type of each variable. *)
Tables ==
    /\ customerId \in [Users -> Customers \cup {NoOne}]
    /\ plan \in [Users -> {"free", "premium"}]
    /\ row \in [Users -> Shown \cup {NoRow}]
    /\ createdFor \in [Customers -> Users \cup {NoOne}]
    /\ sessions \subseteq Customers
    /\ payer \in [Subs -> Customers \cup {NoOne}]
    /\ past \in [Subs -> Seq(Statuses)]
    /\ events \subseteq Event
    /\ checkout \in [Requests -> Ongoing \cup {Idle}]
    /\ hook \in [Hooks -> Handled \cup {NoHook}]
    /\ setBack \subseteq Users /\ raced \subseteq Users /\ torn \subseteq Users

(* No more has happened than the bound allows, nothing to a subscription    *)
(* nobody has paid for.                                                     *)
Bounded ==
    /\ IsFiniteSet(Happened) /\ Cardinality(Happened) <= MaxChanges
    /\ \A s \in Subs : /\ Len(past[s]) <= Cardinality(Happened)
                       /\ payer[s] = NoOne => past[s] = <<>>

(* The history variables hold what they are named for. *)
LEMMA RacedStep ==
    ASSUME Observe
    PROVE  /\ raced \subseteq raced'
           /\ \A u \in Users \ raced' : \A q, r \in Requests :
                 q # r => ~(Creating(q, u)' /\ Creating(r, u)')
BY DEF Observe, Twice

(* The same of webhooks that overlap or give up between their writes. *)
LEMMA TornStep ==
    ASSUME Observe
    PROVE  /\ torn \subseteq torn'
           /\ \A u \in Users \ torn' :
                 /\ \A g, h \in Hooks : g # h => ~(Writing(g, u)' /\ Writing(h, u)')
                 /\ \A h \in Hooks : ~Abandoned(h, u)
BY DEF Observe, Twice

(* Pay and Change add one to what has happened. *)
LEMMA BoundedStep == Tables /\ Bounded /\ [Next]_vars => Bounded'
<1> SUFFICES ASSUME Tables, Bounded, [Next]_vars PROVE Bounded'
    OBVIOUS
<1>0. /\ past \in [Subs -> Seq(Statuses)] /\ payer \in [Subs -> Customers \cup {NoOne}]
      /\ IsFiniteSet(Happened) /\ Cardinality(Happened) \in Nat /\ MaxChanges \in Nat
    BY FS_CardinalityType, BillingAssumption DEF Tables, Bounded, BillingAssumption
<1>1. ASSUME NEW s \in Subs, NEW new \in Seq(Statuses), Len(new) = Len(past[s]) + 1,
             past' = [past EXCEPT ![s] = new], Cardinality(Happened) < MaxChanges,
             \A t \in Subs : payer'[t] = NoOne => payer[t] = NoOne /\ t # s
      PROVE  Bounded'
  <2> DEFINE x == <<s, Len(new)>>
  <2>1. Happened' = Happened \cup {x} /\ x \notin Happened
    <3>1. DOMAIN past'[s] = (DOMAIN past[s]) \cup {Len(new)} /\ Len(new) \notin DOMAIN past[s]
        BY <1>0, <1>1
    <3>2. \A t \in Subs \ {s} : past'[t] = past[t]
        BY <1>0, <1>1
    <3>3. \A y : y \in Happened' <=> \E t \in Subs : \E n \in DOMAIN past'[t] : y = <<t, n>>
        BY DEF Happened
    <3>4. \A y : y \in Happened <=> \E t \in Subs : \E n \in DOMAIN past[t] : y = <<t, n>>
        BY DEF Happened
    <3>5. x \notin Happened
        BY <3>1, <3>4
    <3>6. \A y : y \in Happened' <=> y \in Happened \/ y = x
        BY <3>1, <3>2, <3>3, <3>4
    <3> QED
        BY <3>5, <3>6
  <2> HIDE DEF x
  <2>2. IsFiniteSet(Happened') /\ Cardinality(Happened') = Cardinality(Happened) + 1
    BY <1>0, <2>1, FS_AddElement
  <2>3. \A t \in Subs : Len(past'[t]) <= Cardinality(Happened')
    BY <1>0, <1>1, <2>2 DEF Bounded
  <2>4. \A t \in Subs : payer'[t] = NoOne => past'[t] = <<>>
    BY <1>0, <1>1 DEF Bounded
  <2> QED
    BY <1>0, <1>1, <2>2, <2>3, <2>4 DEF Bounded
<1>2. ASSUME NEW s \in Subs, NEW c \in Customers, Pay(s, c)
      PROVE  Bounded'
  <2> DEFINE new == <<"active">>
  <2>1. new \in Seq(Statuses) /\ Len(new) = 1
    BY DEF Statuses
  <2>2. Len(past[s]) = 0
    BY <1>2 DEF Pay, Bounded
  <2>3. \A t \in Subs : payer'[t] = NoOne => payer[t] = NoOne /\ t # s
    BY <1>0, <1>2, BillingAssumption DEF Pay, BillingAssumption
  <2>4. past' = [past EXCEPT ![s] = new] /\ Cardinality(Happened) < MaxChanges
    BY <1>2 DEF Pay
  <2> HIDE DEF new
  <2>5. Len(new) = Len(past[s]) + 1
    BY <2>1, <2>2
  <2> QED
    BY <1>1, <2>1, <2>3, <2>4, <2>5
<1>3. ASSUME NEW s \in Subs, NEW status \in Statuses, Change(s, status)
      PROVE  Bounded'
  <2>2. /\ past' = [past EXCEPT ![s] = Append(past[s], status)]
        /\ Cardinality(Happened) < MaxChanges
    BY <1>3 DEF Change
  <2>3. \A t \in Subs : payer'[t] = NoOne => payer[t] = NoOne /\ t # s
    BY <1>3 DEF Change, Taken
  <2>1. Append(past[s], status) \in Seq(Statuses) /\ Len(Append(past[s], status)) = Len(past[s]) + 1
    BY <1>0
  <2> QED
    BY <1>1, <2>1, <2>2, <2>3
<1>4. CASE UNCHANGED <<past, payer>>
  BY <1>4 DEF Bounded, Happened
<1> QED
  BY <1>2, <1>3, <1>4
  DEF Next, Work, Fail, ReadCustomer, CheckoutStep, CreateCustomer, SaveCustomer, CreateSession,
      CheckoutFails, Deliver, HookStep, Retrieve, FindUser, UpsertSubscription, WritePlan, Answer,
      AnswerLost, HookFails, vars, db, stripe

(* A checkout serves a user with the customer it was given or has created. *)
Owned(c, for) == c.at \in {"save", "session"} =>
                    c.customer \in Customers /\ for[c.customer] = c.user

(* A webhook knows a subscription somebody pays for, in a status it has had *)
(* since the event, and has found whose it is.                              *)
OnEvent(k) ==
    /\ k.event.sub \in Taken /\ k.event.n \in 1 .. Len(past[k.event.sub])
    /\ k.at # "retrieve" => k.n \in k.event.n .. Len(past[k.event.sub])
    /\ k.at \in {"upsert", "plan"} => k.user \in Users /\ k.event.sub \in SubsOf(k.user)
    /\ k.at = "plan" => row[k.user] # NoRow

(* How the tables, Stripe's objects and the requests are tied together: who *)
(* each customer, session, event, webhook and row belongs to.               *)
Links ==
    /\ \A u \in Users : customerId[u] # NoOne => createdFor[customerId[u]] = u
    /\ \A c \in sessions : createdFor[c] # NoOne
    /\ \A s \in Taken : past[s] # <<>> /\ createdFor[payer[s]] # NoOne
    /\ \A e \in events : e.sub \in Taken /\ e.n <= Len(past[e.sub])
    /\ \A r \in Requests : Owned(checkout[r], createdFor)
    /\ \A h \in Hooks : hook[h] = NoHook \/ OnEvent(hook[h])
    /\ \A u \in Users :
          /\ row[u] # NoRow => /\ row[u].sub \in SubsOf(u) /\ row[u].of \in SubsOf(u)
                               /\ row[u].n <= Len(past[row[u].of])
          /\ plan[u] = "premium" => row[u] # NoRow

(* The inductive invariant for the types. *)
Typed == Tables /\ Bounded /\ Links

(* The empty records are none of the others. *)
LEMMA RecordsDiffer == /\ NoRow \notin Shown /\ Idle \notin Ongoing /\ NoHook \notin Handled
                       /\ Idle.at = "idle" /\ NoHook.at = "idle"
                       /\ NoRow.of = NoOne /\ NoRow.n = 0
BY BillingAssumption DEF NoRow, Shown, Idle, Ongoing, NoHook, Handled, BillingAssumption

(* Stripe's customers and subscriptions keep what they have. *)
StripeKeeps ==
    /\ \A c \in Customers : createdFor[c] # NoOne => createdFor'[c] = createdFor[c]
    /\ \A s \in Taken : /\ s \in Taken' /\ payer'[s] = payer[s]
                        /\ Len(past[s]) <= Len(past'[s])
                        /\ \A n \in 1 .. Len(past[s]) : past'[s][n] = past[s][n]

(* Every step keeps them. *)
LEMMA StripeKept ==
    ASSUME Tables, [Next]_vars
    PROVE  StripeKeeps
<1>0. /\ createdFor \in [Customers -> Users \cup {NoOne}]
      /\ past \in [Subs -> Seq(Statuses)] /\ payer \in [Subs -> Customers \cup {NoOne}]
    BY DEF Tables
<1>1. ASSUME UNCHANGED <<createdFor, payer, past>> PROVE StripeKeeps
  BY <1>0, <1>1 DEF StripeKeeps, Taken
<1>2. ASSUME NEW r \in Requests, CreateCustomer(r) PROVE StripeKeeps
  BY <1>0, <1>2 DEF CreateCustomer, StripeKeeps, Taken, db
<1>3. ASSUME NEW s \in Subs, NEW c \in Customers, Pay(s, c) PROVE StripeKeeps
  <2>1. /\ createdFor' = createdFor /\ payer' = [payer EXCEPT ![s] = c] /\ payer[s] = NoOne
        /\ \A t \in Subs \ {s} : past'[t] = past[t]
    BY <1>0, <1>3 DEF Pay
  <2> QED BY <1>0, <2>1 DEF StripeKeeps, Taken
<1>4. ASSUME NEW s \in Subs, NEW status \in Statuses, Change(s, status) PROVE StripeKeeps
  <2>1. /\ createdFor' = createdFor /\ payer' = payer
        /\ past' = [past EXCEPT ![s] = Append(past[s], status)]
    BY <1>4 DEF Change
  <2>2. /\ \A t \in Subs \ {s} : past'[t] = past[t]
        /\ past'[s] = Append(past[s], status)
    BY <1>0, <2>1
  <2>3. /\ Len(past[s]) <= Len(past'[s])
        /\ \A n \in 1 .. Len(past[s]) : past'[s][n] = past[s][n]
    BY <1>0, <2>2
  <2> QED BY <1>0, <2>1, <2>2, <2>3 DEF StripeKeeps, Taken
<1> QED
  BY <1>1, <1>2, <1>3, <1>4
  DEF Next, Work, Fail, ReadCustomer, CheckoutStep, SaveCustomer, CreateSession,
      CheckoutFails, Deliver, HookStep, Retrieve, FindUser, UpsertSubscription, WritePlan, Answer,
      AnswerLost, HookFails, vars, db, stripe

(* So a user's subscriptions remain the user's. *)
LEMMA SubsKept ==
    ASSUME Tables, Links, StripeKeeps
    PROVE  /\ Taken \subseteq Taken'
           /\ \A u \in Users : SubsOf(u) \subseteq SubsOf(u)'
BY DEF Tables, Links, StripeKeeps, SubsOf, Taken

(* Checkouts and customers. *)
Accounts ==
    /\ customerId \in [Users -> Customers \cup {NoOne}]
    /\ createdFor \in [Customers -> Users \cup {NoOne}]
    /\ sessions \subseteq Customers
    /\ checkout \in [Requests -> Ongoing \cup {Idle}]
    /\ \A u \in Users : customerId[u] # NoOne => createdFor[customerId[u]] = u
    /\ \A c \in sessions : createdFor[c] # NoOne
    /\ \A r \in Requests : Owned(checkout[r], createdFor)

(* Every step keeps them. *)
LEMMA AccountsStep == Typed /\ [Next]_vars => Accounts'
<1> SUFFICES ASSUME Typed, [Next]_vars PROVE Accounts'
  OBVIOUS
<1>0. /\ Accounts /\ StripeKeeps
      /\ \A r \in Requests : checkout[r].at # "idle" => checkout[r] \in Ongoing
  BY StripeKept, RecordsDiffer DEF Typed, Tables, Links, Accounts
<1>1. ASSUME NEW r \in Requests, NEW c \in Ongoing \cup {Idle}, checkout' = [checkout EXCEPT ![r] = c],
             Owned(c, createdFor), UNCHANGED <<customerId, createdFor>>, sessions' \subseteq Customers,
             \A x \in sessions' : createdFor[x] # NoOne
      PROVE  Accounts'
  BY <1>0, <1>1 DEF Accounts, Owned
<1>2. ASSUME NEW r \in Requests, NEW u \in Users, ReadCustomer(r, u)
      PROVE  Accounts'
  <2> DEFINE c == [at |-> IF customerId[u] = NoOne THEN "create" ELSE "session",
                   user |-> u, customer |-> customerId[u]]
  <2>1. c \in Ongoing
    BY <1>0 DEF Accounts, Ongoing
  <2>2. Owned(c, createdFor)
    BY <1>0 DEF Accounts, Owned
  <2>3. checkout' = [checkout EXCEPT ![r] = c] /\ UNCHANGED <<customerId, createdFor, sessions>>
    BY <1>2 DEF ReadCustomer, db, stripe
  <2> HIDE DEF c
  <2> QED BY <1>0, <1>1, <2>1, <2>2, <2>3 DEF Accounts
<1>3. ASSUME NEW r \in Requests, CreateCustomer(r)
      PROVE  Accounts'
  <2>1. PICK x \in Customers :
             /\ createdFor[x] = NoOne
             /\ createdFor' = [createdFor EXCEPT ![x] = checkout[r].user]
             /\ checkout' = [checkout EXCEPT ![r].at = "save", ![r].customer = x]
    BY <1>3 DEF CreateCustomer
  <2> DEFINE c == [checkout[r] EXCEPT !.at = "save", !.customer = x]
  <2>2. checkout[r] \in Ongoing
    BY <1>0, <1>3 DEF CreateCustomer
  <2>3. c \in Ongoing /\ c.customer = x /\ c.user = checkout[r].user /\ c.user \in Users
    BY <2>2 DEF Ongoing
  <2>4. checkout' = [checkout EXCEPT ![r] = c]
    BY <1>0, <2>1 DEF Accounts
  <2> HIDE DEF c
  <2>5. UNCHANGED <<customerId, sessions>>
    BY <1>3 DEF CreateCustomer, db
  <2>6. createdFor' \in [Customers -> Users \cup {NoOne}]
    BY <1>0, <2>1, <2>3 DEF Accounts
  <2>7. \A y \in Customers : createdFor[y] # NoOne => createdFor'[y] = createdFor[y]
    BY <1>0 DEF StripeKeeps
  <2>8. \A q \in Requests : Owned(checkout'[q], createdFor')
    <3>1. Owned(c, createdFor')
      BY <1>0, <2>1, <2>3 DEF Accounts, Owned
    <3>2. ASSUME NEW q \in Requests \ {r} PROVE Owned(checkout[q], createdFor')
      <4>1. Owned(checkout[q], createdFor) /\ checkout'[q] = checkout[q]
        BY <1>0, <2>4 DEF Accounts
      <4>2. checkout[q].at \in {"save", "session"} => checkout[q].user \in Users
        BY <1>0 DEF Ongoing
      <4> QED BY <2>7, <4>1, <4>2, BillingAssumption DEF Owned, BillingAssumption
    <3> QED BY <1>0, <2>4, <3>1, <3>2 DEF Accounts
  <2> QED BY <1>0, <2>3, <2>4, <2>5, <2>6, <2>7, <2>8, BillingAssumption DEF Accounts, BillingAssumption
<1>4. ASSUME NEW r \in Requests, SaveCustomer(r)
      PROVE  Accounts'
  <2> DEFINE c == [checkout[r] EXCEPT !.at = "session"]
  <2>1. checkout[r] \in Ongoing /\ Owned(checkout[r], createdFor) /\ checkout[r].at = "save"
    BY <1>0, <1>4 DEF SaveCustomer, Accounts
  <2>2. /\ c \in Ongoing /\ c.at = "session"
        /\ c.customer = checkout[r].customer /\ c.user = checkout[r].user
    BY <2>1 DEF Ongoing
  <2>3. /\ checkout' = [checkout EXCEPT ![r] = c]
        /\ customerId' = [customerId EXCEPT ![checkout[r].user] = checkout[r].customer]
        /\ UNCHANGED <<createdFor, sessions>>
    BY <1>0, <1>4 DEF SaveCustomer, stripe, Accounts
  <2> HIDE DEF c
  <2>4. checkout[r].user \in Users /\ checkout[r].customer \in Customers
        /\ createdFor[checkout[r].customer] = checkout[r].user
    BY <2>1 DEF Ongoing, Owned
  <2> QED BY <1>0, <2>1, <2>2, <2>3, <2>4 DEF Accounts, Owned
<1>5. ASSUME NEW r \in Requests, CreateSession(r)
      PROVE  Accounts'
  <2>1. checkout[r] \in Ongoing /\ Owned(checkout[r], createdFor) /\ checkout[r].at = "session"
    BY <1>0, <1>5 DEF CreateSession, Accounts
  <2>2. checkout[r].customer \in Customers /\ createdFor[checkout[r].customer] # NoOne
    BY <2>1, BillingAssumption DEF Owned, Ongoing, BillingAssumption
  <2>3. Owned(Idle, createdFor)
    BY DEF Owned, Idle
  <2>4. /\ checkout' = [checkout EXCEPT ![r] = Idle]
        /\ sessions' = sessions \cup {checkout[r].customer}
        /\ UNCHANGED <<customerId, createdFor>>
    BY <1>5 DEF CreateSession, db
  <2> QED BY <1>0, <1>1, <2>2, <2>3, <2>4 DEF Accounts
<1>6. ASSUME NEW r \in Requests, CheckoutFails(r)
      PROVE  Accounts'
  <2>1. Owned(Idle, createdFor)
    BY DEF Owned, Idle
  <2> QED BY <1>0, <1>1, <1>6, <2>1 DEF CheckoutFails, Accounts, db, stripe
<1>7. CASE UNCHANGED <<customerId, createdFor, checkout>> /\ sessions' \subseteq sessions
  BY <1>0, <1>7 DEF Accounts, Owned
<1> QED
  BY <1>2, <1>3, <1>4, <1>5, <1>6, <1>7
  DEF Next, Work, Fail, CheckoutStep, Pay, Change,
      Deliver, HookStep, Retrieve, FindUser, UpsertSubscription, WritePlan, Answer,
      AnswerLost, HookFails, vars, db, stripe

(* Subscriptions, events, webhooks and rows. *)
Ledger ==
    /\ plan \in [Users -> {"free", "premium"}]
    /\ row \in [Users -> Shown \cup {NoRow}]
    /\ payer \in [Subs -> Customers \cup {NoOne}]
    /\ past \in [Subs -> Seq(Statuses)]
    /\ events \subseteq Event
    /\ hook \in [Hooks -> Handled \cup {NoHook}]
    /\ \A s \in Taken : past[s] # <<>> /\ createdFor[payer[s]] # NoOne
    /\ \A e \in events : e.sub \in Taken /\ e.n <= Len(past[e.sub])
    /\ \A h \in Hooks : hook[h] = NoHook \/ OnEvent(hook[h])
    /\ \A u \in Users :
          /\ row[u] # NoRow => /\ row[u].sub \in SubsOf(u) /\ row[u].of \in SubsOf(u)
                               /\ row[u].n <= Len(past[row[u].of])
          /\ plan[u] = "premium" => row[u] # NoRow

(* What Typed says of subscriptions and webhooks. *)
LEMMA LedgerFacts ==
    ASSUME Typed
    PROVE  /\ Ledger /\ MaxChanges \in Nat
           /\ \A s \in Subs : past[s] \in Seq(Statuses) /\ Len(past[s]) \in 0 .. MaxChanges
           /\ \A h \in Hooks : hook[h].at # "idle" =>
                 /\ hook[h] \in Handled /\ hook[h].event \in Event /\ hook[h].event.sub \in Subs
                 /\ OnEvent(hook[h])
<1>1. Ledger /\ MaxChanges \in Nat
  BY BillingAssumption DEF Typed, Tables, Links, Ledger, BillingAssumption
<1>2. \A s \in Subs : past[s] \in Seq(Statuses) /\ Len(past[s]) \in 0 .. MaxChanges
  <2>1. Cardinality(Happened) \in Nat /\ Cardinality(Happened) <= MaxChanges
    BY FS_CardinalityType DEF Typed, Bounded
  <2>2. \A s \in Subs : Len(past[s]) <= Cardinality(Happened)
    BY DEF Typed, Bounded
  <2> QED BY <1>1, <2>1, <2>2 DEF Ledger
<1>3. \A h \in Hooks : hook[h].at # "idle" =>
          /\ hook[h] \in Handled /\ hook[h].event \in Event /\ hook[h].event.sub \in Subs
          /\ OnEvent(hook[h])
  BY <1>1, RecordsDiffer DEF Ledger, Handled, Event
<1> QED BY <1>1, <1>2, <1>3

(* A webhook stays on its event whatever the others do. *)
LEMMA OnEventKept ==
    ASSUME Typed, past' \in [Subs -> Seq(Statuses)], StripeKeeps, NEW k \in Handled, OnEvent(k),
           \A u \in Users : row[u] # NoRow => row'[u] # NoRow
    PROVE  OnEvent(k)'
<1>1. k.event.sub \in Taken /\ k.n \in Nat /\ k.event.n \in Nat /\ k.event.sub \in Subs
  BY DEF OnEvent, Handled, Event, Taken
<1>2. /\ k.event.sub \in Taken' /\ Len(past[k.event.sub]) <= Len(past'[k.event.sub])
      /\ Len(past[k.event.sub]) \in Nat /\ Len(past'[k.event.sub]) \in Nat
  BY <1>1 DEF StripeKeeps, Tables, Typed
<1>3. k.user \in Users => SubsOf(k.user) \subseteq SubsOf(k.user)'
  BY SubsKept DEF Typed
<1> QED BY <1>1, <1>2, <1>3 DEF OnEvent

(* What a step makes of a webhook. *)
LEMMA HookGoes ==
    ASSUME Typed, StripeKeeps, NEW h \in Hooks,
           \/ \E e \in events : Deliver(h, e)
           \/ HookStep(h) \/ HookFails(h) \/ AnswerLost(h)
    PROVE  \E k \in Handled \cup {NoHook} :
              /\ hook' = [hook EXCEPT ![h] = k]
              /\ k = NoHook \/ OnEvent(k)'
<1>0. /\ Ledger /\ hook \in [Hooks -> Handled \cup {NoHook}] /\ MaxChanges \in Nat
      /\ \A s \in Subs : past[s] \in Seq(Statuses) /\ Len(past[s]) \in 0 .. MaxChanges
      /\ hook[h].at # "idle" => /\ hook[h] \in Handled /\ hook[h].event \in Event
                                /\ hook[h].event.sub \in Subs /\ OnEvent(hook[h])
  BY LedgerFacts DEF Ledger
<1>1. ASSUME NEW e \in events, Deliver(h, e)
      PROVE  \E k \in Handled \cup {NoHook} :
                hook' = [hook EXCEPT ![h] = k] /\ (k = NoHook \/ OnEvent(k)')
  <2> DEFINE k1 == [NoHook EXCEPT !.at = "retrieve", !.event = e]
             k2 == [NoHook EXCEPT !.at = "find", !.event = e, !.n = e.n]
  <2>1. /\ e \in Event /\ e.sub \in Taken /\ e.sub \in Subs /\ e.n \in 1 .. MaxChanges
        /\ e.n \in 1 .. Len(past[e.sub])
    BY <1>0 DEF Ledger, Event, Taken
  <2>2. /\ k1 \in Handled /\ k1.at = "retrieve" /\ k1.event = e
        /\ k2 \in Handled /\ k2.at = "find" /\ k2.event = e /\ k2.n = e.n
    <3>1. 0 \in 0 .. MaxChanges /\ e.n \in 0 .. MaxChanges /\ e \in Event
      BY <1>0, <2>1
    <3>2. k1 \in Handled /\ k1.at = "retrieve" /\ k1.event = e
      BY <3>1 DEF Handled, NoHook
    <3>3. k2 \in Handled /\ k2.at = "find" /\ k2.event = e /\ k2.n = e.n
      BY <3>1 DEF Handled, NoHook
    <3> QED BY <3>2, <3>3
  <2>3. PICK k \in Handled : /\ hook' = [hook EXCEPT ![h] = k]
                             /\ k.event = e /\ k.at \in {"retrieve", "find"}
                             /\ k.at = "find" => k.n = e.n
    <3>1. hook' = [hook EXCEPT ![h] = k1] \/ hook' = [hook EXCEPT ![h] = k2]
      BY <1>1 DEF Deliver
    <3> HIDE DEF k1, k2
    <3> QED BY <2>2, <3>1
  <2>4. UNCHANGED <<payer, past, createdFor, row>>
    BY <1>1 DEF Deliver, stripe, db
  <2>5. OnEvent(k)'
    BY <1>0, <2>1, <2>3, <2>4 DEF OnEvent, Taken
  <2> QED BY <2>3, <2>5
<1>2. CASE Retrieve(h)
  <2>1. /\ hook[h].at = "retrieve" /\ UNCHANGED <<payer, past, createdFor, row>>
    BY <1>2 DEF Retrieve, stripe, db
  <2> DEFINE k == [hook[h] EXCEPT !.at = "find", !.n = Len(past[hook[h].event.sub])]
  <2>2. /\ k \in Handled /\ k.at = "find" /\ k.event = hook[h].event
        /\ k.n = Len(past[hook[h].event.sub])
    BY <1>0, <2>1 DEF Handled
  <2>3. hook' = [hook EXCEPT ![h] = k]
    BY <1>0, <1>2 DEF Retrieve
  <2> HIDE DEF k
  <2>4. PICK j \in Handled : j = k
    BY <2>2
  <2>5. OnEvent(j)'
    BY <1>0, <2>1, <2>2, <2>4 DEF OnEvent, Taken
  <2> QED BY <2>3, <2>4, <2>5
<1>3. CASE FindUser(h)
  <2>1. /\ hook[h].at = "find" /\ UNCHANGED <<payer, past, createdFor, row>>
    BY <1>3 DEF FindUser, stripe, db
  <2>2. CASE hook' = [hook EXCEPT ![h] = NoHook]
    BY <2>2
  <2>3. ASSUME NEW u \in Users, customerId[u] = payer[hook[h].event.sub],
               hook' = [hook EXCEPT ![h].at = "upsert", ![h].user = u]
        PROVE  \E k \in Handled \cup {NoHook} :
                  hook' = [hook EXCEPT ![h] = k] /\ (k = NoHook \/ OnEvent(k)')
    <3> DEFINE k == [hook[h] EXCEPT !.at = "upsert", !.user = u]
    <3>1. /\ k \in Handled /\ k.at = "upsert" /\ k.event = hook[h].event
          /\ k.n = hook[h].n /\ k.user = u
      BY <1>0, <2>1 DEF Handled
    <3>2. hook' = [hook EXCEPT ![h] = k]
      BY <1>0, <2>3
    <3> HIDE DEF k
    <3>3. PICK j \in Handled : j = k
      BY <3>1
    <3>4. hook[h].event.sub \in SubsOf(u)
      BY <1>0, <2>1, <2>3 DEF OnEvent, SubsOf, Taken, Typed, Links
    <3>5. OnEvent(j)'
      BY <1>0, <2>1, <3>1, <3>3, <3>4 DEF OnEvent, Taken, SubsOf
    <3> QED BY <3>2, <3>3, <3>5
  <2> QED BY <1>3, <2>2, <2>3 DEF FindUser
<1>4. CASE UpsertSubscription(h)
  <2>1. /\ hook[h].at = "upsert" /\ UNCHANGED <<payer, past, createdFor>>
        /\ hook[h].user \in Users /\ row'[hook[h].user] # NoRow
    <3>1. hook[h].at = "upsert" /\ UNCHANGED <<payer, past, createdFor>>
      BY <1>4 DEF UpsertSubscription, stripe
    <3>2. hook[h].user \in Users /\ hook[h].event.sub \in Subs
      BY <1>0, <3>1 DEF OnEvent
    <3>3. row'[hook[h].user].of = hook[h].event.sub
      BY <1>0, <1>4, <3>2 DEF UpsertSubscription, Ledger
    <3> QED BY <3>1, <3>2, <3>3, RecordsDiffer, BillingAssumption DEF BillingAssumption
  <2> DEFINE k == [hook[h] EXCEPT !.at = "plan"]
  <2>2. /\ k \in Handled /\ k.at = "plan" /\ k.event = hook[h].event
        /\ k.n = hook[h].n /\ k.user = hook[h].user
    BY <1>0, <2>1 DEF Handled
  <2>3. hook' = [hook EXCEPT ![h] = k]
    BY <1>0, <1>4 DEF UpsertSubscription
  <2> HIDE DEF k
  <2>4. PICK j \in Handled : j = k
    BY <2>2
  <2>5. OnEvent(j)'
    BY <1>0, <2>1, <2>2, <2>4 DEF OnEvent, Taken, SubsOf
  <2> QED BY <2>3, <2>4, <2>5
<1>5. CASE Answer(h) \/ AnswerLost(h) \/ HookFails(h)
  BY <1>5 DEF Answer, AnswerLost, HookFails, WritePlan
<1> QED BY <1>1, <1>2, <1>3, <1>4, <1>5 DEF HookStep

(* What upsertSubscription leaves in the table. *)
LEMMA Upserted ==
    ASSUME Typed, NEW h \in Hooks, UpsertSubscription(h)
    PROVE  LET u == hook[h].user IN
           /\ u \in Users /\ hook[h] \in Handled /\ OnEvent(hook[h]) /\ hook[h].at = "upsert"
           /\ hook[h].event.sub \in Subs /\ hook[h].n \in 1 .. MaxChanges
           /\ row' \in [Users -> Shown \cup {NoRow}]
           /\ \A v \in Users \ {u} : row'[v] = row[v]
           /\ row'[u] \in Shown
           /\ row'[u].of = hook[h].event.sub /\ row'[u].n = hook[h].n
           /\ row'[u].sub \in {row[u].sub, hook[h].event.sub}
           /\ row[u] = NoRow => row'[u].sub = hook[h].event.sub
<1>1. /\ hook[h].at = "upsert" /\ hook[h] \in Handled /\ hook[h].event \in Event
      /\ hook[h].event.sub \in Subs /\ OnEvent(hook[h]) /\ hook[h].user \in Users
      /\ row \in [Users -> Shown \cup {NoRow}] /\ MaxChanges \in Nat
      /\ Len(past[hook[h].event.sub]) \in 0 .. MaxChanges
  BY LedgerFacts DEF UpsertSubscription, OnEvent, Ledger
<1>2. PICK u \in Users, s \in Subs, n \in 1 .. MaxChanges :
         u = hook[h].user /\ s = hook[h].event.sub /\ n = hook[h].n
  BY <1>1 DEF OnEvent, Handled, Event
<1> DEFINE new == [sub |-> IF row[u] = NoRow THEN s ELSE row[u].sub, of |-> s, n |-> n]
<1>3. /\ new \in Shown /\ new.of = s /\ new.n = n /\ new.sub \in {row[u].sub, s}
      /\ row[u] = NoRow => new.sub = s
  BY <1>1 DEF Shown
<1>4. row' = [row EXCEPT ![u] = new]
  BY <1>2 DEF UpsertSubscription
<1> HIDE DEF new
<1>5. row'[u] = new /\ \A v \in Users \ {u} : row'[v] = row[v]
  BY <1>1, <1>4
<1>6. row' \in [Users -> Shown \cup {NoRow}]
  BY <1>1, <1>3, <1>4
<1>7. PICK x \in Shown : x = row'[u] /\ x = new
  BY <1>3, <1>5
<1>8. row'[u] \in Shown /\ row'[u].of = s /\ row'[u].n = n /\ row'[u].sub \in {row[u].sub, s}
  BY <1>3, <1>7
<1>9. row[u] = NoRow => row'[u].sub = s
  BY <1>3, <1>7
<1> QED BY <1>1, <1>2, <1>5, <1>6, <1>8, <1>9

(* Rows are never deleted. *)
LEMMA RowKept ==
    ASSUME Typed, [Next]_vars
    PROVE  \A u \in Users : row[u] # NoRow => row'[u] # NoRow
<1>1. ASSUME NEW h \in Hooks, UpsertSubscription(h)
      PROVE  \A u \in Users : row[u] # NoRow => row'[u] # NoRow
  BY <1>1, Upserted, RecordsDiffer
<1>2. CASE UNCHANGED row
  BY <1>2
<1> QED
  BY <1>1, <1>2
  DEF Next, Work, Fail, ReadCustomer, CheckoutStep, CreateCustomer, SaveCustomer, CreateSession,
      CheckoutFails, Pay, Change, Deliver, HookStep, Retrieve, FindUser, WritePlan, Answer,
      AnswerLost, HookFails, vars, db

(* Webhooks stay typed and on their events. *)
LEMMA HooksStep ==
    ASSUME Typed, [Next]_vars, Bounded', StripeKeeps,
           payer' \in [Subs -> Customers \cup {NoOne}], past' \in [Subs -> Seq(Statuses)]
    PROVE  /\ hook' \in [Hooks -> Handled \cup {NoHook}]
           /\ \A h \in Hooks : hook'[h] = NoHook \/ OnEvent(hook[h])'
<1>0. /\ hook \in [Hooks -> Handled \cup {NoHook}]
      /\ \A k \in Handled : OnEvent(k) => OnEvent(k)'
      /\ \A h \in Hooks : hook[h] = NoHook \/ OnEvent(hook[h])
  <2>1. Ledger
    BY LedgerFacts
  <2> QED BY <2>1, RowKept, OnEventKept DEF Ledger
<1>1. ASSUME NEW h \in Hooks, \/ \E e \in events : Deliver(h, e)
                              \/ HookStep(h) \/ HookFails(h) \/ AnswerLost(h)
      PROVE  /\ hook' \in [Hooks -> Handled \cup {NoHook}]
             /\ \A g \in Hooks : hook'[g] = NoHook \/ OnEvent(hook[g])'
  <2>1. PICK k \in Handled \cup {NoHook} :
            /\ hook' = [hook EXCEPT ![h] = k]
            /\ k = NoHook \/ OnEvent(k)'
    BY <1>1, HookGoes
  <2>2. ASSUME NEW g \in Hooks, hook'[g] # NoHook PROVE OnEvent(hook[g])'
    <3>1. PICK j \in Handled : j = hook'[g]
      BY <1>0, <2>1, <2>2
    <3>2. OnEvent(j)'
      BY <1>0, <2>1, <2>2, <3>1
    <3> QED BY <3>1, <3>2 DEF OnEvent, SubsOf, Taken
  <2> QED BY <1>0, <2>1, <2>2
<1>2. CASE UNCHANGED hook
  <2>1. ASSUME NEW g \in Hooks, hook'[g] # NoHook PROVE OnEvent(hook[g])'
    <3>1. PICK j \in Handled : j = hook[g]
      BY <1>0, <1>2, <2>1
    <3>2. OnEvent(j)' /\ hook'[g] = j
      BY <1>0, <1>2, <2>1, <3>1
    <3> QED BY <3>2 DEF OnEvent, SubsOf, Taken
  <2> QED BY <1>0, <1>2, <2>1
<1> QED
  BY <1>1, <1>2
  DEF Next, Work, Fail, ReadCustomer, CheckoutStep, CreateCustomer, SaveCustomer, CreateSession,
      CheckoutFails, Pay, Change, vars

(* Stripe's subscriptions and events. *)
LEMMA EventsStep ==
    ASSUME Typed, [Next]_vars, Bounded', StripeKeeps
    PROVE  /\ payer' \in [Subs -> Customers \cup {NoOne}] /\ past' \in [Subs -> Seq(Statuses)]
           /\ events' \subseteq Event
           /\ \A s \in Taken' : past'[s] # <<>> /\ createdFor'[payer'[s]] # NoOne
           /\ \A e \in events' : e.sub \in Taken' /\ e.n <= Len(past'[e.sub])
<1> DEFINE Goal == /\ payer' \in [Subs -> Customers \cup {NoOne}] /\ past' \in [Subs -> Seq(Statuses)]
                   /\ events' \subseteq Event
                   /\ \A s \in Taken' : past'[s] # <<>> /\ createdFor'[payer'[s]] # NoOne
                   /\ \A e \in events' : e.sub \in Taken' /\ e.n <= Len(past'[e.sub])
<1>0. /\ payer \in [Subs -> Customers \cup {NoOne}] /\ past \in [Subs -> Seq(Statuses)]
      /\ createdFor \in [Customers -> Users \cup {NoOne}]
      /\ events \subseteq Event /\ MaxChanges \in Nat
      /\ \A s \in Taken : past[s] # <<>> /\ createdFor[payer[s]] # NoOne
      /\ \A e \in events : e.sub \in Taken /\ e.n \in 1 .. MaxChanges /\ e.n <= Len(past[e.sub])
      /\ \A s \in Subs : past[s] \in Seq(Statuses) /\ Len(past[s]) \in 0 .. MaxChanges
  BY LedgerFacts DEF Ledger, Event, Typed, Tables
<1>1. \A e \in events : past' \in [Subs -> Seq(Statuses)] => e.sub \in Taken' /\ e.n <= Len(past'[e.sub])
  BY <1>0 DEF StripeKeeps, Taken
<1>2. ASSUME NEW s \in Subs, NEW c \in Customers, Pay(s, c)
      PROVE  Goal
  <2> DEFINE new == <<"active">>
             e == [type |-> "completed", sub |-> s, n |-> 1]
  <2>1. new \in Seq(Statuses) /\ Len(new) = 1 /\ new # <<>>
    BY DEF Statuses
  <2>2. e \in Event /\ e.sub = s /\ e.n = 1
    BY BillingAssumption DEF Event, BillingAssumption
  <2>3. /\ past' = [past EXCEPT ![s] = new] /\ events' = events \cup {e}
        /\ payer' = [payer EXCEPT ![s] = c] /\ createdFor' = createdFor /\ c \in sessions
    BY <1>2 DEF Pay
  <2> HIDE DEF new, e
  <2>4. createdFor[c] # NoOne /\ c # NoOne /\ 1 <= Len(new)
    BY <2>1, <2>3, BillingAssumption DEF Typed, Links, BillingAssumption
  <2>5. payer' \in [Subs -> Customers \cup {NoOne}] /\ past' \in [Subs -> Seq(Statuses)]
        /\ events' \subseteq Event
    BY <1>0, <2>1, <2>2, <2>3
  <2>6. \A t \in Taken' : past'[t] # <<>> /\ createdFor'[payer'[t]] # NoOne
    BY <1>0, <2>1, <2>3, <2>4 DEF Taken
  <2>7. e.sub \in Taken' /\ e.n <= Len(past'[e.sub])
    BY <1>0, <2>1, <2>2, <2>3, <2>4 DEF Taken
  <2> QED BY <1>1, <2>3, <2>5, <2>6, <2>7
<1>3. ASSUME NEW s \in Subs, NEW status \in Statuses, Change(s, status)
      PROVE  Goal
  <2> DEFINE new == Append(past[s], status)
             e == [type |-> "changed", sub |-> s, n |-> Len(new)]
  <2>1. new \in Seq(Statuses) /\ Len(new) = Len(past[s]) + 1 /\ Len(new) # 0
    BY <1>0
  <2>2. past' = [past EXCEPT ![s] = new] /\ payer' = payer /\ createdFor' = createdFor /\ s \in Taken
    BY <1>3 DEF Change
  <2>3. past'[s] = new
    BY <1>0, <2>2
  <2>4. events' = events \cup {e}
    BY <1>3, <2>3 DEF Change
  <2>5. Len(new) \in 1 .. MaxChanges
    <3>1. Len(past'[s]) <= Cardinality(Happened') /\ Cardinality(Happened') <= MaxChanges
          /\ Cardinality(Happened') \in Nat
      BY FS_CardinalityType DEF Bounded
    <3> QED BY <1>0, <2>1, <2>3, <3>1
  <2>6. e \in Event /\ e.sub = s /\ e.n = Len(new)
    BY <2>5 DEF Event
  <2> HIDE DEF new, e
  <2>7. past' \in [Subs -> Seq(Statuses)] /\ events' \subseteq Event
    BY <1>0, <2>1, <2>2, <2>4, <2>6
  <2>8. \A t \in Taken' : past'[t] # <<>> /\ createdFor'[payer'[t]] # NoOne
    <3>1. new # <<>>
      BY <2>1
    <3> QED BY <1>0, <2>2, <3>1 DEF Taken
  <2>9. e.sub \in Taken' /\ e.n <= Len(past'[e.sub])
    BY <1>0, <2>2, <2>3, <2>5, <2>6 DEF Taken
  <2> QED BY <1>0, <1>1, <2>2, <2>4, <2>7, <2>8, <2>9
<1>4. CASE UNCHANGED <<payer, past>> /\ events' \subseteq events
  <2>1. \A s \in Taken' : past'[s] # <<>> /\ createdFor'[payer'[s]] # NoOne
    BY <1>0, <1>4, BillingAssumption DEF Taken, StripeKeeps, BillingAssumption
  <2> QED BY <1>0, <1>1, <1>4, <2>1
<1>5. \/ \E s \in Subs, c \in Customers : Pay(s, c)
      \/ \E s \in Subs, status \in Statuses : Change(s, status)
      \/ UNCHANGED <<payer, past>> /\ events' \subseteq events
  BY DEF Next, Work, Fail, ReadCustomer, CheckoutStep, CreateCustomer, SaveCustomer, CreateSession,
      CheckoutFails, Deliver, HookStep, Retrieve, FindUser, UpsertSubscription, WritePlan, Answer,
      AnswerLost, HookFails, vars, db, stripe
<1> QED BY <1>2, <1>3, <1>4, <1>5

(* Plans and rows. *)
LEMMA RowsStep ==
    ASSUME Typed, [Next]_vars, StripeKeeps, past' \in [Subs -> Seq(Statuses)]
    PROVE  /\ plan' \in [Users -> {"free", "premium"}]
           /\ row' \in [Users -> Shown \cup {NoRow}]
           /\ \A u \in Users :
                 /\ row'[u] # NoRow => /\ row'[u].sub \in SubsOf(u)' /\ row'[u].of \in SubsOf(u)'
                                       /\ row'[u].n <= Len(past'[row'[u].of])
                 /\ plan'[u] = "premium" => row'[u] # NoRow
<1>0. /\ Ledger /\ MaxChanges \in Nat
      /\ plan \in [Users -> {"free", "premium"}] /\ row \in [Users -> Shown \cup {NoRow}]
      /\ \A u \in Users : SubsOf(u) \subseteq SubsOf(u)'
      /\ \A s \in Taken : Len(past[s]) <= Len(past'[s]) /\ Len(past[s]) \in Nat /\ Len(past'[s]) \in Nat
  <2>1. \A s \in Taken : Len(past[s]) \in Nat /\ Len(past'[s]) \in Nat
    BY LedgerFacts DEF Taken, Ledger
  <2> QED BY <2>1, LedgerFacts, SubsKept DEF Ledger, StripeKeeps, Typed
<1>1. /\ row' \in [Users -> Shown \cup {NoRow}]
      /\ \A u \in Users :
            row'[u] # NoRow => /\ row'[u].sub \in SubsOf(u)' /\ row'[u].of \in SubsOf(u)'
                               /\ row'[u].n <= Len(past'[row'[u].of])
  <2>1. ASSUME NEW u \in Users, row'[u] = row[u], row[u] # NoRow
        PROVE  /\ row'[u].sub \in SubsOf(u)' /\ row'[u].of \in SubsOf(u)'
               /\ row'[u].n <= Len(past'[row'[u].of])
    <3>1. /\ row[u] \in Shown /\ row[u].n \in Nat
          /\ row[u].sub \in SubsOf(u) /\ row[u].of \in SubsOf(u) /\ row[u].n <= Len(past[row[u].of])
      BY <1>0, <2>1 DEF Ledger, Shown
    <3>2. row[u].of \in Taken
      BY <3>1 DEF SubsOf
    <3> QED BY <1>0, <2>1, <3>1, <3>2
  <2>2. ASSUME NEW h \in Hooks, UpsertSubscription(h)
        PROVE  <1>1!1 /\ <1>1!2
    <3>1. PICK u \in Users : u = hook[h].user
      BY <2>2, Upserted
    <3>2. /\ hook[h].event.sub \in SubsOf(u) /\ hook[h].event.sub \in Taken
          /\ hook[h].n <= Len(past[hook[h].event.sub]) /\ hook[h].n \in Nat
      BY <2>2, <3>1, Upserted DEF OnEvent
    <3>4. /\ row'[u].of = hook[h].event.sub /\ row'[u].n = hook[h].n
          /\ row'[u].sub \in {row[u].sub, hook[h].event.sub}
          /\ row[u] = NoRow => row'[u].sub = hook[h].event.sub
      BY <2>2, <3>1, Upserted
    <3>5. row'[u].sub \in SubsOf(u)' /\ row'[u].of \in SubsOf(u)'
      BY <1>0, <3>2, <3>4 DEF Ledger
    <3>6. row'[u].n <= Len(past'[row'[u].of])
      BY <1>0, <3>2, <3>4
    <3>3. /\ row'[u].sub \in SubsOf(u)' /\ row'[u].of \in SubsOf(u)'
          /\ row'[u].n <= Len(past'[row'[u].of])
      BY <3>5, <3>6
    <3> QED BY <2>1, <2>2, <3>1, <3>3, Upserted
  <2>3. CASE UNCHANGED row
    BY <1>0, <2>1, <2>3
  <2> QED
    BY <2>2, <2>3
    DEF Next, Work, Fail, ReadCustomer, CheckoutStep, CreateCustomer, SaveCustomer, CreateSession,
        CheckoutFails, Pay, Change, Deliver, HookStep, Retrieve, FindUser, WritePlan, Answer,
        AnswerLost, HookFails, vars, db
<1>2. /\ plan' \in [Users -> {"free", "premium"}]
      /\ \A u \in Users : plan'[u] = "premium" => row'[u] # NoRow
  <2>1. ASSUME NEW h \in Hooks, WritePlan(h)
        PROVE  /\ plan' \in [Users -> {"free", "premium"}]
               /\ \A u \in Users : plan'[u] = "premium" => row'[u] # NoRow
    <3>1. row[hook[h].user] # NoRow /\ row' = row
      BY <2>1, LedgerFacts DEF WritePlan, OnEvent
    <3>2. Verdict(h) \in {"free", "premium"}
      BY DEF Verdict, PlanFor
    <3> QED BY <1>0, <2>1, <3>1, <3>2 DEF WritePlan, Ledger
  <2>2. CASE UNCHANGED plan
    BY <1>0, <2>2, RowKept DEF Ledger
  <2> QED
    BY <2>1, <2>2
    DEF Next, Work, Fail, ReadCustomer, CheckoutStep, CreateCustomer, SaveCustomer, CreateSession,
        CheckoutFails, Pay, Change, Deliver, HookStep, Retrieve, FindUser, UpsertSubscription, Answer,
        AnswerLost, HookFails, vars, db
<1> QED BY <1>1, <1>2

(* Every step keeps the types and the ties, and they hold at the start. *)
LEMMA TypedStep == Typed /\ [Next]_vars => Typed'
<1> SUFFICES ASSUME Typed, [Next]_vars PROVE Typed'
  OBVIOUS
<1>1. Bounded' /\ StripeKeeps /\ Accounts'
  BY BoundedStep, StripeKept, AccountsStep DEF Typed
<1>2. setBack' \subseteq Users /\ raced' \subseteq Users /\ torn' \subseteq Users
  BY DEF Next, Observe, vars, Typed, Tables
<1> QED
  BY <1>1, <1>2, EventsStep, HooksStep, RowsStep DEF Typed, Tables, Links, Accounts

(* At the start there is nothing. *)
LEMMA TypedInit == Init => Typed
<1> SUFFICES ASSUME Init PROVE Typed
  OBVIOUS
<1>1. Tables
  BY DEF Init, Tables
<1>2. Happened = {}
  BY DEF Init, Happened
<1>3. Bounded
  <2>1. \A s \in Subs : past[s] = <<>> /\ Len(past[s]) = 0
    BY DEF Init
  <2>2. IsFiniteSet(Happened) /\ Cardinality(Happened) = 0
    BY <1>2, FS_EmptySet
  <2> QED BY <2>1, <2>2, BillingAssumption DEF Bounded, BillingAssumption
<1>4. Links
  BY DEF Init, Links, Taken, Owned, Idle
<1> QED BY <1>1, <1>3, <1>4 DEF Typed

(* The tables, Stripe's objects, requests and webhooks keep their types. *)
THEOREM Typing == Spec => []TypeOK
<1>1. Typed => TypeOK
  BY LedgerFacts DEF Typed, Tables, Links, TypeOK, SubsOf, Shown, Ongoing, Handled
<1>2. Spec => []Typed
  BY TypedInit, TypedStep, PTL DEF Spec
<1> QED BY <1>1, <1>2, PTL

------------------------------------------------------------------------------
(* Payers. *)

(* Nobody is premium, or has a row, on the strength of another's payment. *)
THEOREM PremiumHolds == Spec => []OnlyPayersArePremium
<1>1. Typed => OnlyPayersArePremium
  BY DEF Typed, Links, OnlyPayersArePremium
<1>2. Spec => []Typed
  BY TypedInit, TypedStep, PTL DEF Spec
<1> QED BY <1>1, <1>2, PTL

(* What the database knows of u's customers while no two of u's checkouts   *)
(* create one: once it knows one, no checkout creates another, and it is    *)
(* the customer of every session and subscription of u.                     *)
KnownTo(u) ==
    /\ \A q, r \in Requests : q # r => ~(Creating(q, u) /\ Creating(r, u))
    /\ customerId[u] # NoOne => \A r \in Requests : ~Creating(r, u)
    /\ \A r \in Requests : checkout[r].at = "session" /\ checkout[r].user = u
                              => checkout[r].customer = customerId[u]
    /\ \A c \in sessions : createdFor[c] = u => customerId[u] = c
    /\ \A s \in Taken : createdFor[payer[s]] = u => customerId[u] = payer[s]
Known == \A u \in Users \ raced : KnownTo(u)

(* Every step keeps it: a customer is created only for a user without one,  *)
(* and saved before there is a session for it.                              *)
LEMMA KnownStep ==
    ASSUME Typed, [Next]_vars, NEW u \in Users, u \notin raced', Known
    PROVE  KnownTo(u)'
<1>0. /\ Accounts /\ StripeKeeps /\ KnownTo(u) /\ NoOne \notin Users \cup Customers
      /\ payer \in [Subs -> Customers \cup {NoOne}]
      /\ \A s \in Taken : payer[s] \in Customers /\ createdFor[payer[s]] # NoOne
      /\ \A r \in Requests : checkout[r].at # "idle" => checkout[r] \in Ongoing
  <2>1. u \notin raced
    BY RacedStep DEF Next, vars
  <2> QED
    BY <2>1, StripeKept, RecordsDiffer, BillingAssumption
    DEF Typed, Tables, Links, Accounts, Known, Taken, BillingAssumption
<1>1. \A q, r \in Requests : q # r => ~(Creating(q, u)' /\ Creating(r, u)')
  <2>1. CASE Next
    BY <2>1, RacedStep DEF Next
  <2>2. CASE UNCHANGED vars
    BY <1>0, <2>2 DEF KnownTo, Creating, vars
  <2> QED BY <2>1, <2>2
<1>2. ASSUME NEW r \in Requests, NEW c \in Ongoing \cup {Idle}, checkout' = [checkout EXCEPT ![r] = c],
             UNCHANGED <<customerId, createdFor, payer>>,
             c.user = u /\ c.at \in {"create", "save"} => customerId[u] = NoOne,
             c.user = u /\ c.at = "session" => c.customer = customerId[u],
             \A x \in sessions' : createdFor[x] = u => customerId[u] = x
      PROVE  KnownTo(u)'
  <2>1. \A q \in Requests : checkout'[q] = IF q = r THEN c ELSE checkout[q]
    BY <1>0, <1>2 DEF Accounts
  <2> QED BY <1>0, <1>1, <1>2, <2>1 DEF KnownTo, Creating, Taken
<1>3. ASSUME NEW r \in Requests, NEW v \in Users, ReadCustomer(r, v)
      PROVE  KnownTo(u)'
  <2> DEFINE c == [at |-> IF customerId[v] = NoOne THEN "create" ELSE "session",
                   user |-> v, customer |-> customerId[v]]
  <2>1. /\ c \in Ongoing /\ c.user = v /\ c.customer = customerId[v]
        /\ c.at = "session" \/ customerId[v] = NoOne
        /\ c.at # "save"
    BY <1>0 DEF Accounts, Ongoing
  <2>2. checkout' = [checkout EXCEPT ![r] = c] /\ UNCHANGED <<customerId, createdFor, payer, sessions>>
    BY <1>3 DEF ReadCustomer, db, stripe
  <2> HIDE DEF c
  <2> QED BY <1>0, <1>2, <2>1, <2>2 DEF KnownTo
<1>4. ASSUME NEW r \in Requests, CreateCustomer(r)
      PROVE  KnownTo(u)'
  <2>1. PICK x \in Customers :
             /\ createdFor[x] = NoOne
             /\ createdFor' = [createdFor EXCEPT ![x] = checkout[r].user]
             /\ checkout' = [checkout EXCEPT ![r].at = "save", ![r].customer = x]
    BY <1>4 DEF CreateCustomer
  <2> DEFINE c == [checkout[r] EXCEPT !.at = "save", !.customer = x]
  <2>2. checkout[r] \in Ongoing /\ checkout[r].at = "create"
        /\ UNCHANGED <<customerId, sessions, payer>>
    BY <1>0, <1>4 DEF CreateCustomer, db
  <2>3. c.at = "save" /\ c.user = checkout[r].user
    BY <2>2 DEF Ongoing
  <2>4. checkout' = [checkout EXCEPT ![r] = c]
    BY <1>0, <2>1 DEF Accounts
  <2> HIDE DEF c
  <2>5. \A q \in Requests : checkout'[q] = IF q = r THEN c ELSE checkout[q]
    BY <1>0, <2>4 DEF Accounts
  <2>6. customerId'[u] # NoOne => \A q \in Requests : ~Creating(q, u)'
    BY <1>0, <2>2, <2>3, <2>5 DEF KnownTo, Creating
  <2>7. \A q \in Requests : checkout'[q].at = "session" /\ checkout'[q].user = u
                               => checkout'[q].customer = customerId'[u]
    BY <1>0, <2>2, <2>3, <2>5 DEF KnownTo
  <2>8. \A y \in sessions' : createdFor'[y] = u => customerId'[u] = y
    BY <1>0, <2>2 DEF KnownTo, Accounts, StripeKeeps
  <2>9. \A s \in Taken' : createdFor'[payer'[s]] = u => customerId'[u] = payer'[s]
    BY <1>0, <2>2 DEF KnownTo, StripeKeeps, Taken
  <2> QED BY <1>1, <2>6, <2>7, <2>8, <2>9 DEF KnownTo
<1>5. ASSUME NEW r \in Requests, SaveCustomer(r)
      PROVE  KnownTo(u)'
  <2> DEFINE c == [checkout[r] EXCEPT !.at = "session"]
  <2>1. checkout[r] \in Ongoing /\ Owned(checkout[r], createdFor) /\ checkout[r].at = "save"
    BY <1>0, <1>5 DEF SaveCustomer, Accounts
  <2>2. /\ c.at = "session" /\ c.customer = checkout[r].customer /\ c.user = checkout[r].user
        /\ checkout[r].user \in Users
    BY <2>1 DEF Ongoing
  <2>3. /\ checkout' = [checkout EXCEPT ![r] = c]
        /\ customerId' = [customerId EXCEPT ![checkout[r].user] = checkout[r].customer]
        /\ UNCHANGED <<createdFor, sessions, payer>>
    BY <1>0, <1>5 DEF SaveCustomer, stripe, Accounts
  <2> HIDE DEF c
  <2>4. \A q \in Requests : checkout'[q] = IF q = r THEN c ELSE checkout[q]
    BY <1>0, <2>3 DEF Accounts
  <2>5. CASE checkout[r].user # u
    <3>1. customerId'[u] = customerId[u]
      BY <1>0, <2>3, <2>5 DEF Accounts
    <3>2. \A q \in Requests : q = r \/ checkout'[q] = checkout[q]
      BY <2>4
    <3>3. checkout'[r].user # u
      BY <2>2, <2>4, <2>5
    <3> QED BY <1>0, <1>1, <2>3, <3>1, <3>2, <3>3 DEF KnownTo, Creating, Taken
  <2>6. CASE checkout[r].user = u
    <3>1. /\ customerId'[u] = checkout[r].customer /\ Creating(r, u)
      BY <1>0, <2>1, <2>2, <2>3, <2>6 DEF Accounts, Creating
    <3>2. customerId[u] = NoOne /\ \A q \in Requests \ {r} : ~Creating(q, u)
      BY <1>0, <3>1 DEF KnownTo
    <3>3. \A q \in Requests : ~Creating(q, u)'
      BY <2>2, <2>4, <3>2 DEF Creating
    <3>4. \A q \in Requests \ {r} : ~(checkout[q].at = "session" /\ checkout[q].user = u)
      BY <1>0, <3>2 DEF KnownTo, Accounts, Owned
    <3>5. \A q \in Requests : checkout'[q].at = "session" /\ checkout'[q].user = u
                                 => checkout'[q].customer = customerId'[u]
      BY <2>2, <2>4, <3>1, <3>4
    <3>6. \A y \in sessions : createdFor[y] # u
      BY <1>0, <3>2 DEF KnownTo, Accounts
    <3>7. \A s \in Taken : createdFor[payer[s]] # u
      BY <1>0, <3>2 DEF KnownTo
    <3> QED BY <1>1, <2>3, <3>3, <3>5, <3>6, <3>7 DEF KnownTo, Taken
  <2> QED BY <2>5, <2>6
<1>6. ASSUME NEW r \in Requests, CreateSession(r)
      PROVE  KnownTo(u)'
  <2>1. /\ checkout[r] \in Ongoing /\ checkout[r].at = "session"
        /\ createdFor[checkout[r].customer] = checkout[r].user
    BY <1>0, <1>6 DEF CreateSession, Accounts, Owned
  <2>2. /\ checkout' = [checkout EXCEPT ![r] = Idle]
        /\ sessions' = sessions \cup {checkout[r].customer}
        /\ UNCHANGED <<customerId, createdFor, payer>>
    BY <1>6 DEF CreateSession, db
  <2>3. \A x \in sessions' : createdFor[x] = u => customerId[u] = x
    BY <1>0, <2>1, <2>2 DEF KnownTo
  <2> QED BY <1>2, <2>2, <2>3, RecordsDiffer
<1>7. ASSUME NEW r \in Requests, CheckoutFails(r)
      PROVE  KnownTo(u)'
  <2>1. /\ checkout' = [checkout EXCEPT ![r] = Idle]
        /\ UNCHANGED <<customerId, createdFor, payer, sessions>>
    BY <1>7 DEF CheckoutFails, db, stripe
  <2> QED BY <1>0, <1>2, <2>1, RecordsDiffer DEF KnownTo
<1>8. ASSUME NEW s \in Subs, NEW c \in Customers, Pay(s, c)
      PROVE  KnownTo(u)'
  <2>1. /\ UNCHANGED <<customerId, createdFor, checkout>> /\ c \in sessions /\ sessions' \subseteq sessions
        /\ payer' = [payer EXCEPT ![s] = c]
    BY <1>8 DEF Pay, db
  <2>2. \A t \in Taken' : payer'[t] = c \/ (t \in Taken /\ payer'[t] = payer[t])
    BY <1>0, <2>1 DEF Taken
  <2> QED BY <1>0, <1>1, <2>1, <2>2 DEF KnownTo, Creating
<1>9. CASE UNCHANGED <<customerId, createdFor, checkout, sessions, payer>>
  BY <1>0, <1>9 DEF KnownTo, Creating, Taken
<1> QED
  BY <1>3, <1>4, <1>5, <1>6, <1>7, <1>8, <1>9
  DEF Next, Work, Fail, CheckoutStep, Change,
      Deliver, HookStep, Retrieve, FindUser, UpsertSubscription, WritePlan, Answer,
      AnswerLost, HookFails, vars, db, stripe

(* A user who pays is known by the customer that pays, unless two of the    *)
(* user's checkouts created customers at the same time.                     *)
THEOREM PayersHold == Spec => []PayersKnown
<1>1. Init => Typed /\ Known
  <2>1. Init => Known
    BY DEF Init, Known, KnownTo, Creating, Idle, Taken
  <2> QED BY <2>1, TypedInit
<1>2. Typed /\ Known /\ [Next]_vars => (Typed /\ Known)'
  BY TypedStep, KnownStep DEF Known
<1>3. Typed /\ Known => PayersKnown
  <2> SUFFICES ASSUME Typed, Known, NEW s \in Taken
               PROVE  customerId[createdFor[payer[s]]] = payer[s] \/ createdFor[payer[s]] \in raced
    BY DEF PayersKnown
  <2>1. createdFor[payer[s]] \in Users
    BY DEF Typed, Tables, Links, Taken
  <2> QED BY <2>1 DEF Known, KnownTo
<1> QED BY <1>1, <1>2, <1>3, PTL DEF Spec

------------------------------------------------------------------------------
(* Rows and plans. *)

(* What u's rows and plan are made from: the table, the webhooks of u       *)
(* between their writes, and the events of u's subscriptions.               *)
Untouched(u) ==
    /\ plan'[u] = plan[u] /\ row'[u] = row[u]
    /\ \A h \in Hooks : /\ Writing(h, u)' <=> Writing(h, u)
                        /\ Writing(h, u) => hook'[h] = hook[h]
    /\ \A e \in events : e.sub \in SubsOf(u) => e \in events'

(* A step leaves them alone unless it is a webhook of u that writes.        *)
LEMMA Touching ==
    ASSUME Typed, [Next]_vars, NEW u \in Users, ~Untouched(u)
    PROVE  \/ \E h \in Hooks : UpsertSubscription(h) /\ hook[h].user = u
           \/ \E h \in Hooks : Writing(h, u) /\ (Answer(h) \/ AnswerLost(h) \/ HookFails(h))
<1>0. /\ Ledger /\ hook \in [Hooks -> Handled \cup {NoHook}]
      /\ plan \in [Users -> {"free", "premium"}]
  BY LedgerFacts DEF Ledger
<1>1. ASSUME NEW h \in Hooks, NEW k \in Handled \cup {NoHook}, hook' = [hook EXCEPT ![h] = k],
             ~Writing(h, u), k.at = "plan" => k.user # u,
             plan'[u] = plan[u], row'[u] = row[u],
             \A e \in events : e.sub \in SubsOf(u) => e \in events'
      PROVE  FALSE
  <2>1. \A g \in Hooks : hook'[g] = IF g = h THEN k ELSE hook[g]
    BY <1>0, <1>1
  <2> QED BY <1>1, <2>1 DEF Untouched, Writing
<1>2. ASSUME NEW h \in Hooks, NEW e \in events, Deliver(h, e)
      PROVE  FALSE
  <2> DEFINE k1 == [NoHook EXCEPT !.at = "retrieve", !.event = e]
             k2 == [NoHook EXCEPT !.at = "find", !.event = e, !.n = e.n]
  <2>1. \A g \in Hooks : hook'[g] = hook[g] \/ (g = h /\ (hook'[g] = k1 \/ hook'[g] = k2))
    BY <1>0, <1>2 DEF Deliver
  <2>2. k1.at = "retrieve" /\ k2.at = "find"
    BY DEF NoHook
  <2>3. hook[h].at = "idle" /\ UNCHANGED <<plan, row, events>>
    BY <1>2, RecordsDiffer DEF Deliver, db, stripe
  <2> HIDE DEF k1, k2
  <2> QED BY <2>1, <2>2, <2>3 DEF Untouched, Writing
<1>3. ASSUME NEW h \in Hooks, Retrieve(h)
      PROVE  FALSE
  <2>1. hook[h].at = "retrieve" /\ UNCHANGED <<plan, row, events>>
    BY <1>3 DEF Retrieve, db, stripe
  <2> DEFINE k == [hook[h] EXCEPT !.at = "find", !.n = Len(past[hook[h].event.sub])]
  <2>2. hook[h] \in Handled
    BY <2>1, LedgerFacts
  <2>3. hook' = [hook EXCEPT ![h] = k]
    BY <1>0, <1>3 DEF Retrieve
  <2>4. k.at = "find"
    BY <2>2 DEF Handled
  <2> HIDE DEF k
  <2>5. \A g \in Hooks : hook'[g] = IF g = h THEN k ELSE hook[g]
    BY <1>0, <2>3
  <2> QED BY <2>1, <2>4, <2>5 DEF Untouched, Writing
<1>4. ASSUME NEW h \in Hooks, FindUser(h)
      PROVE  FALSE
  <2>1. hook[h].at = "find" /\ UNCHANGED <<plan, row, events>>
    BY <1>4 DEF FindUser, db, stripe
  <2>2. hook[h] \in Handled
    BY <2>1, LedgerFacts
  <2>3. CASE hook' = [hook EXCEPT ![h] = NoHook]
    BY <1>1, <2>1, <2>3, RecordsDiffer DEF Writing
  <2>4. ASSUME NEW v \in Users, hook' = [hook EXCEPT ![h].at = "upsert", ![h].user = v]
        PROVE  FALSE
    <3> DEFINE k == [hook[h] EXCEPT !.at = "upsert", !.user = v]
    <3>1. hook' = [hook EXCEPT ![h] = k]
      BY <1>0, <2>4
    <3>2. k.at = "upsert" /\ k \in Handled
      BY <2>2 DEF Handled
    <3> HIDE DEF k
    <3> QED BY <1>1, <2>1, <3>1, <3>2 DEF Writing
  <2> QED BY <1>4, <2>3, <2>4 DEF FindUser
<1>5. ASSUME NEW h \in Hooks, UpsertSubscription(h), hook[h].user # u
      PROVE  FALSE
  <2>1. hook[h].at = "upsert" /\ UNCHANGED <<plan, events>> /\ row'[u] = row[u] /\ hook[h] \in Handled
    BY <1>5, Upserted DEF UpsertSubscription, stripe
  <2> DEFINE k == [hook[h] EXCEPT !.at = "plan"]
  <2>2. hook' = [hook EXCEPT ![h] = k]
    BY <1>0, <1>5 DEF UpsertSubscription
  <2>3. k \in Handled /\ k.user = hook[h].user
    BY <2>1 DEF Handled
  <2> HIDE DEF k
  <2> QED BY <1>1, <1>5, <2>1, <2>2, <2>3 DEF Writing
<1>6. ASSUME NEW h \in Hooks, ~Writing(h, u), Answer(h) \/ AnswerLost(h) \/ HookFails(h)
      PROVE  FALSE
  <2>1. hook' = [hook EXCEPT ![h] = NoHook] /\ row' = row
    BY <1>6 DEF Answer, AnswerLost, HookFails, WritePlan, db
  <2>2. CASE HookFails(h)
    BY <1>1, <1>6, <2>1, <2>2, RecordsDiffer DEF HookFails, db, stripe
  <2>3. CASE Answer(h) \/ AnswerLost(h)
    <3>1. /\ hook[h].at = "plan" /\ hook[h].user # u
          /\ hook[h].event.sub \in SubsOf(hook[h].user)
      BY <1>6, <2>3, LedgerFacts DEF Answer, AnswerLost, WritePlan, Writing, OnEvent
    <3>2. plan'[u] = plan[u]
      BY <1>0, <2>3, <3>1 DEF Answer, AnswerLost, WritePlan
    <3>3. \A e \in events : e.sub \in SubsOf(u) => e \in events'
      BY <2>3, <3>1 DEF Answer, AnswerLost, SubsOf
    <3> QED BY <1>1, <1>6, <2>1, <3>2, <3>3, RecordsDiffer
  <2> QED BY <1>6, <2>2, <2>3
<1>7. CASE UNCHANGED <<plan, row, hook>> /\ events \subseteq events'
  BY <1>7 DEF Untouched, Writing
<1> QED
  BY <1>2, <1>3, <1>4, <1>5, <1>6, <1>7
  DEF Next, Work, Fail, CheckoutStep, ReadCustomer, CreateCustomer, SaveCustomer, CreateSession,
      CheckoutFails, Pay, Change, HookStep, vars, db, stripe

(* What u's row says of u's plan. *)
Shows(u) == IF row[u] = NoRow THEN "free" ELSE PlanFor(past[row[u].of][row[u].n])

(* While webhooks of u neither overlap nor give up between their writes:    *)
(* the one there has just written the row, and without one the plan is the  *)
(* row's, or an event of u is still to be answered.                         *)
MatchedTo(u) ==
    /\ \A g, h \in Hooks : g # h => ~(Writing(g, u) /\ Writing(h, u))
    /\ \A h \in Hooks : Writing(h, u) => row[u].of = hook[h].event.sub /\ row[u].n = hook[h].n
    /\ \/ plan[u] = Shows(u)
       \/ \E h \in Hooks : Writing(h, u)
       \/ \E e \in events : e.sub \in SubsOf(u)
Matched == \A u \in Users \ torn : MatchedTo(u)

(* Every step keeps it. *)
LEMMA MatchedStep ==
    ASSUME Typed, [Next]_vars, NEW u \in Users, u \notin torn', Matched
    PROVE  MatchedTo(u)'
<1>0. /\ Ledger /\ StripeKeeps /\ MatchedTo(u) /\ SubsOf(u) \subseteq SubsOf(u)'
      /\ hook \in [Hooks -> Handled \cup {NoHook}]
      /\ plan \in [Users -> {"free", "premium"}]
  <2>1. u \notin torn
    BY TornStep DEF Next, vars
  <2>2. StripeKeeps /\ Tables /\ Links
    BY StripeKept DEF Typed
  <2> QED
    BY <2>1, <2>2, LedgerFacts, SubsKept DEF Ledger, Matched
<1>1. \A g, h \in Hooks : g # h => ~(Writing(g, u)' /\ Writing(h, u)')
  <2>1. CASE Next
    BY <2>1, TornStep DEF Next
  <2>2. CASE UNCHANGED vars
    BY <1>0, <2>2 DEF MatchedTo, Writing, vars
  <2> QED BY <2>1, <2>2
<1>2. row'[u] = row[u] => Shows(u)' = Shows(u)
  <2>1. ASSUME row[u] # NoRow
        PROVE  row[u].of \in Taken /\ row[u].n \in 1 .. Len(past[row[u].of])
    <3>1. row[u] \in Shown /\ row[u].n <= Len(past[row[u].of]) /\ row[u].of \in SubsOf(u)
      BY <1>0, <2>1 DEF Ledger
    <3>2. row[u].of \in Subs /\ row[u].of \in Taken /\ row[u].n \in Nat /\ row[u].n >= 1
      BY <3>1 DEF Shown, SubsOf
    <3>3. Len(past[row[u].of]) \in Nat
      BY <3>2, LedgerFacts
    <3> QED BY <3>1, <3>2, <3>3
  <2>2. row[u] # NoRow => past'[row[u].of][row[u].n] = past[row[u].of][row[u].n]
    BY <1>0, <2>1 DEF StripeKeeps
  <2> QED BY <2>2 DEF Shows
<1>3. \A h \in Hooks : Writing(h, u) =>
          /\ hook[h].event.sub \in SubsOf(u) /\ row[u] # NoRow /\ Verdict(h) = Shows(u)
  <2> SUFFICES ASSUME NEW h \in Hooks, Writing(h, u)
               PROVE  hook[h].event.sub \in SubsOf(u) /\ row[u] # NoRow /\ Verdict(h) = Shows(u)
    OBVIOUS
  <2>1. hook[h].event.sub \in SubsOf(u) /\ row[u] # NoRow
    BY LedgerFacts DEF Writing, OnEvent
  <2>2. row[u].of = hook[h].event.sub /\ row[u].n = hook[h].n
    BY <1>0 DEF MatchedTo
  <2> QED BY <2>1, <2>2 DEF Verdict, Shows
<1>4. CASE Untouched(u)
  <2>1. \A h \in Hooks : Writing(h, u)' =>
            row'[u].of = hook'[h].event.sub /\ row'[u].n = hook'[h].n
    BY <1>0, <1>4 DEF Untouched, MatchedTo
  <2>2. \/ plan'[u] = Shows(u)'
        \/ \E h \in Hooks : Writing(h, u)'
        \/ \E e \in events' : e.sub \in SubsOf(u)'
    BY <1>0, <1>2, <1>4 DEF Untouched, MatchedTo
  <2> QED BY <1>1, <2>1, <2>2 DEF MatchedTo
<1>5. ASSUME NEW h \in Hooks, UpsertSubscription(h), hook[h].user = u
      PROVE  MatchedTo(u)'
  <2>1. /\ hook[h] \in Handled
        /\ row'[u].of = hook[h].event.sub /\ row'[u].n = hook[h].n
    BY <1>5, Upserted
  <2> DEFINE k == [hook[h] EXCEPT !.at = "plan"]
  <2>2. hook' = [hook EXCEPT ![h] = k]
    BY <1>0, <1>5 DEF UpsertSubscription
  <2>3. k.at = "plan" /\ k.event = hook[h].event /\ k.n = hook[h].n /\ k.user = u
    BY <1>5, <2>1 DEF Handled
  <2> HIDE DEF k
  <2>4. Writing(h, u)' /\ hook'[h] = k
    BY <1>0, <2>2, <2>3 DEF Writing
  <2>5. \A g \in Hooks : Writing(g, u)' => g = h
    BY <1>1, <2>4
  <2> QED BY <1>1, <2>1, <2>3, <2>4, <2>5 DEF MatchedTo
<1>6. ASSUME NEW h \in Hooks, Writing(h, u), Answer(h) \/ AnswerLost(h) \/ HookFails(h)
      PROVE  MatchedTo(u)'
  <2>1. hook' = [hook EXCEPT ![h] = NoHook] /\ row' = row
    BY <1>6 DEF Answer, AnswerLost, HookFails, WritePlan, db
  <2>2. \A g \in Hooks : ~Writing(g, u)'
    <3>1. \A g \in Hooks : hook'[g] = IF g = h THEN NoHook ELSE hook[g]
      BY <1>0, <2>1
    <3> QED BY <1>0, <1>6, <3>1, RecordsDiffer DEF MatchedTo, Writing
  <2>3. plan'[u] = Shows(u)' \/ \E e \in events' : e.sub \in SubsOf(u)'
    <3>1. CASE Answer(h) \/ AnswerLost(h)
      <4>1. plan'[u] = Verdict(h)
        BY <1>0, <1>6, <3>1 DEF Answer, AnswerLost, WritePlan, Writing
      <4> QED BY <1>2, <1>3, <1>6, <2>1, <4>1
    <3>2. CASE HookFails(h)
      <4>1. ~Abandoned(h, u)
        <5>1. CASE Next
          BY <5>1, TornStep DEF Next
        <5>2. CASE UNCHANGED vars
          BY <1>6, <2>1, <5>2, <1>0, RecordsDiffer DEF vars, Writing
        <5> QED BY <5>1, <5>2
      <4>2. hook'[h] = NoHook /\ events' = events
        BY <1>0, <2>1, <3>2 DEF HookFails, stripe
      <4>3. plan'[u] = Verdict(h) \/ hook[h].event \in events
        BY <1>6, <4>1, <4>2 DEF Abandoned
      <4> QED BY <1>0, <1>2, <1>3, <1>6, <2>1, <4>2, <4>3
    <3> QED BY <1>6, <3>1, <3>2
  <2> QED BY <1>1, <2>2, <2>3 DEF MatchedTo
<1> QED BY <1>4, <1>5, <1>6, Touching

(* At the start nobody has a row, and everybody is on the free plan. *)
LEMMA MatchedInit == Init => Matched
BY DEF Init, Matched, MatchedTo, Writing, Shows, NoHook

(* A quiet user's webhooks are not between their writes. *)
LEMMA NoneWrites ==
    ASSUME Typed, NEW u \in Users, Quiet(u)
    PROVE  /\ \A h \in Hooks : ~Writing(h, u)
           /\ \A e \in events : e.sub \notin SubsOf(u)
<1>1. ASSUME NEW h \in Hooks, Writing(h, u) PROVE FALSE
  <2>1. hook[h].event.sub \in SubsOf(u) /\ hook[h] # NoHook
    BY <1>1, LedgerFacts, RecordsDiffer DEF Writing, OnEvent
  <2> QED BY <2>1 DEF Quiet, Handling
<1> QED BY <1>1 DEF Quiet

(* Once all events are through the row and the plan agree, unless two       *)
(* webhooks of the user were between their writes at once, or one failed    *)
(* there for good.                                                          *)
THEOREM PlanMatches == Spec => []PlanMatchesRow
<1>1. Typed /\ Matched /\ [Next]_vars => (Typed /\ Matched)'
  BY TypedStep, MatchedStep DEF Matched
<1>2. Typed /\ Matched => PlanMatchesRow
  BY NoneWrites DEF Matched, MatchedTo, PlanMatchesRow, Shows
<1> QED BY <1>1, <1>2, TypedInit, MatchedInit, PTL DEF Spec

(* Stripe tells of what happens: a status that is new has its event. *)
LEMMA NewStatus ==
    ASSUME Typed, [Next]_vars, NEW s \in Subs, NEW n \in 1 .. Len(past'[s]),
           n \notin 1 .. Len(past[s])
    PROVE  \E e \in events' : e.sub = s /\ e.n = n
<1>0. past \in [Subs -> Seq(Statuses)] /\ \A t \in Subs : payer[t] = NoOne => past[t] = <<>>
  BY DEF Typed, Tables, Bounded
<1>1. ASSUME NEW t \in Subs, NEW c \in Customers, Pay(t, c)
      PROVE  \E e \in events' : e.sub = s /\ e.n = n
  <2> DEFINE new == <<"active">>
             e == [type |-> "completed", sub |-> t, n |-> 1]
  <2>1. Len(new) = 1 /\ e.sub = t /\ e.n = 1
    OBVIOUS
  <2>2. past' = [past EXCEPT ![t] = new] /\ e \in events'
    BY <1>1 DEF Pay
  <2> HIDE DEF new, e
  <2>3. t = s /\ past'[s] = new
    BY <1>0, <2>2
  <2>4. n \in 1 .. 1
    <3>1. Len(past'[s]) = 1
      BY <2>1, <2>3
    <3> QED BY <3>1
  <2>5. n = 1
    BY <2>4
  <2> QED BY <2>1, <2>2, <2>3, <2>5
<1>2. ASSUME NEW t \in Subs, NEW status \in Statuses, Change(t, status)
      PROVE  \E e \in events' : e.sub = s /\ e.n = n
  <2> DEFINE new == Append(past[t], status)
             e == [type |-> "changed", sub |-> t, n |-> Len(past'[t])]
  <2>1. Len(new) = Len(past[t]) + 1 /\ Len(past[t]) \in Nat
    BY <1>0
  <2>2. past' = [past EXCEPT ![t] = new] /\ e \in events'
    BY <1>2 DEF Change
  <2>3. e.sub = t /\ e.n = Len(past'[t])
    OBVIOUS
  <2> HIDE DEF new, e
  <2>4. t = s /\ past'[s] = new
    BY <1>0, <2>2
  <2> QED BY <2>1, <2>2, <2>3, <2>4
<1>3. CASE UNCHANGED past
  BY <1>3
<1> QED
  BY <1>1, <1>2, <1>3
  DEF Next, Work, Fail, ReadCustomer, CheckoutStep, CreateCustomer, SaveCustomer, CreateSession,
      CheckoutFails, Deliver, HookStep, Retrieve, FindUser, UpsertSubscription, WritePlan, Answer,
      AnswerLost, HookFails, vars, db, stripe

(* A row nothing has taken back follows u's subscription: each status it    *)
(* has gone through, the row has reached or an event still tells of; and a  *)
(* webhook between its writes has written its own.                          *)
FollowedBy(u, s) ==
    /\ \A n \in 1 .. Len(past[s]) : \/ \E e \in events : e.sub = s /\ e.n = n
                                    \/ row[u].of = s /\ row[u].n >= n
    /\ \A h \in Hooks : Writing(h, u) => row[u].of = s /\ row[u].n >= hook[h].event.n
Followed == \A u \in Users \ setBack, s \in Subs : SubsOf(u) = {s} => FollowedBy(u, s)

(* Every step keeps it. *)
LEMMA FollowedStep ==
    ASSUME Typed, [Next]_vars, Followed, NEW u \in Users, u \notin setBack',
           NEW s \in Subs, SubsOf(u)' = {s}
    PROVE  FollowedBy(u, s)'
<1>0. /\ Ledger /\ StripeKeeps /\ SubsOf(u) \subseteq {s} /\ u \notin setBack
      /\ hook \in [Hooks -> Handled \cup {NoHook}] /\ row[u].n \in Nat
      /\ \A h \in Hooks : Writing(h, u) =>
            /\ hook[h] \in Handled /\ hook[h].event.sub \in SubsOf(u) /\ hook[h].event.n \in Nat
  <2>1. u \notin setBack
    BY DEF Next, Observe, vars
  <2>2. StripeKeeps /\ Tables /\ Links
    BY StripeKept DEF Typed
  <2>3. row[u].n \in Nat
    BY <2>2, RecordsDiffer DEF Tables, Shown
  <2>4. \A h \in Hooks : Writing(h, u) =>
            /\ hook[h] \in Handled /\ hook[h].event.sub \in SubsOf(u) /\ hook[h].event.n \in Nat
    BY LedgerFacts DEF Writing, OnEvent, Event
  <2> QED
    BY <2>1, <2>2, <2>3, <2>4, LedgerFacts, SubsKept DEF Ledger
<1>1. Len(past[s]) \in Nat /\ (s \notin SubsOf(u) => Len(past[s]) = 0)
  <2>1. s \in Taken => s \in SubsOf(u)
    BY <1>0 DEF StripeKeeps, Ledger, SubsOf, Taken, Typed, Tables
  <2>2. s \notin Taken => Len(past[s]) = 0
    BY DEF Typed, Bounded, Taken
  <2> QED BY <2>1, <2>2, LedgerFacts
<1>2. FollowedBy(u, s)
  <2>1. CASE s \in SubsOf(u)
    BY <1>0, <2>1 DEF Followed
  <2>2. CASE s \notin SubsOf(u)
    BY <1>0, <1>1, <2>2 DEF FollowedBy
  <2> QED BY <2>1, <2>2
<1>3. ASSUME \A n \in 1 .. Len(past[s]) : \/ \E e \in events' : e.sub = s /\ e.n = n
                                          \/ row'[u].of = s /\ row'[u].n >= n
      PROVE  \A n \in 1 .. Len(past'[s]) : \/ \E e \in events' : e.sub = s /\ e.n = n
                                           \/ row'[u].of = s /\ row'[u].n >= n
  BY <1>3, NewStatus
<1>4. CASE Untouched(u)
  <2>1. \A n \in 1 .. Len(past[s]) : \/ \E e \in events' : e.sub = s /\ e.n = n
                                     \/ row'[u].of = s /\ row'[u].n >= n
    BY <1>1, <1>2, <1>4 DEF Untouched, FollowedBy
  <2>2. \A h \in Hooks : Writing(h, u)' => row'[u].of = s /\ row'[u].n >= hook'[h].event.n
    BY <1>2, <1>4 DEF Untouched, FollowedBy
  <2> QED BY <1>3, <2>1, <2>2 DEF FollowedBy
<1>5. ASSUME NEW h \in Hooks, UpsertSubscription(h), hook[h].user = u
      PROVE  FollowedBy(u, s)'
  <2>1. /\ hook[h] \in Handled /\ hook[h].event.sub = s /\ events' = events
        /\ row'[u].of = s /\ row'[u].n = hook[h].n
        /\ hook[h].event.n \in Nat /\ hook[h].n \in Nat /\ hook[h].n >= hook[h].event.n
    <3>1. /\ hook[h] \in Handled /\ OnEvent(hook[h]) /\ hook[h].at = "upsert"
          /\ row'[u].of = hook[h].event.sub /\ row'[u].n = hook[h].n /\ hook[h].n \in 1 .. MaxChanges
      BY <1>5, Upserted
    <3>2. hook[h].event.sub \in SubsOf(u) /\ hook[h].event.n \in Nat
          /\ hook[h].n >= hook[h].event.n
      BY <1>5, <3>1, LedgerFacts DEF OnEvent, Event
    <3> QED BY <1>0, <1>5, <3>1, <3>2 DEF UpsertSubscription, stripe
  <2>2. row[u].of = s => row'[u].n >= row[u].n
    <3>1. CASE Next
      BY <1>0, <2>1, <3>1 DEF Next, Observe
    <3>2. CASE UNCHANGED vars
      BY <1>0, <3>2 DEF vars, db
    <3> QED BY <3>1, <3>2
  <2> DEFINE k == [hook[h] EXCEPT !.at = "plan"]
  <2>3. hook' = [hook EXCEPT ![h] = k]
    BY <1>0, <1>5 DEF UpsertSubscription
  <2>4. k.event = hook[h].event
    BY <2>1 DEF Handled
  <2> HIDE DEF k
  <2>5. \A g \in Hooks : hook'[g] = IF g = h THEN k ELSE hook[g]
    BY <1>0, <2>3
  <2>6. \A g \in Hooks : Writing(g, u)' => row'[u].of = s /\ row'[u].n >= hook'[g].event.n
    <3>1. ASSUME NEW g \in Hooks \ {h}, Writing(g, u)' PROVE row'[u].n >= hook'[g].event.n
      <4>1. Writing(g, u) /\ hook'[g] = hook[g]
        BY <2>5, <3>1 DEF Writing
      <4>2. hook[g].event.n \in Nat /\ row[u].of = s /\ row[u].n >= hook[g].event.n
        BY <1>0, <1>2, <4>1 DEF FollowedBy
      <4> QED BY <1>0, <2>1, <2>2, <4>1, <4>2
    <3> QED BY <2>1, <2>4, <2>5, <3>1
  <2>7. \A n \in 1 .. Len(past[s]) : \/ \E e \in events' : e.sub = s /\ e.n = n
                                     \/ row'[u].of = s /\ row'[u].n >= n
    BY <1>0, <1>1, <1>2, <2>1, <2>2 DEF FollowedBy
  <2> QED BY <1>3, <2>6, <2>7 DEF FollowedBy
<1>6. ASSUME NEW h \in Hooks, Writing(h, u), Answer(h) \/ AnswerLost(h) \/ HookFails(h)
      PROVE  FollowedBy(u, s)'
  <2>1. /\ hook' = [hook EXCEPT ![h] = NoHook] /\ row' = row
        /\ events \ {hook[h].event} \subseteq events'
    BY <1>6 DEF Answer, AnswerLost, HookFails, WritePlan, db, stripe
  <2>2. row[u].of = s /\ row[u].n >= hook[h].event.n /\ hook[h].event.n \in Nat
    BY <1>0, <1>2, <1>6 DEF FollowedBy
  <2>3. \A n \in 1 .. Len(past[s]) : \/ \E e \in events' : e.sub = s /\ e.n = n
                                     \/ row'[u].of = s /\ row'[u].n >= n
    <3> SUFFICES ASSUME NEW n \in 1 .. Len(past[s]), ~(row[u].of = s /\ row[u].n >= n)
                 PROVE  \E e \in events' : e.sub = s /\ e.n = n
      BY <2>1
    <3>1. PICK e \in events : e.sub = s /\ e.n = n
      BY <1>2 DEF FollowedBy
    <3> QED BY <2>1, <2>2, <3>1
  <2>4. \A g \in Hooks : Writing(g, u)' => Writing(g, u) /\ hook'[g] = hook[g]
    <3>1. \A g \in Hooks : hook'[g] = IF g = h THEN NoHook ELSE hook[g]
      BY <1>0, <2>1
    <3> QED BY <3>1, RecordsDiffer DEF Writing
  <2> QED BY <1>2, <1>3, <2>1, <2>3, <2>4 DEF FollowedBy
<1> QED BY <1>4, <1>5, <1>6, Touching

(* At the start there are no subscriptions. *)
LEMMA FollowedInit == Init => Followed
BY DEF Init, Followed, SubsOf, Taken

(* A user with one subscription has the plan Stripe says, once all events   *)
(* are through, unless an older event took the row back.                    *)
THEOREM PlanFollows == Spec => []PlanFollowsStripe
<1>1. Typed /\ Matched /\ Followed /\ [Next]_vars => (Typed /\ Matched /\ Followed)'
  BY TypedStep, MatchedStep, FollowedStep DEF Matched, Followed
<1>2. Typed /\ Matched /\ Followed => PlanFollowsStripe
  <2> SUFFICES ASSUME Typed, Matched, Followed, NEW u \in Users, NEW s \in Subs,
                      Quiet(u), SubsOf(u) = {s}, u \notin torn, u \notin setBack
               PROVE  plan[u] = Deserved(s)
    BY DEF PlanFollowsStripe
  <2>1. Len(past[s]) \in Nat /\ Len(past[s]) # 0
    <3>1. s \in Taken /\ past[s] # <<>> /\ past[s] \in Seq(Statuses)
      BY DEF SubsOf, Typed, Links, Tables
    <3> QED BY <3>1
  <2>2. row[u].of = s /\ row[u].n >= Len(past[s])
    BY <2>1, NoneWrites DEF Followed, FollowedBy
  <2>3. row[u] # NoRow
    BY <2>2, RecordsDiffer, BillingAssumption DEF BillingAssumption
  <2>4. row[u].n = Len(past[s])
    <3>1. row[u] \in Shown /\ row[u].n <= Len(past[s])
      BY <2>2, <2>3 DEF Typed, Tables, Links
    <3> QED BY <2>1, <2>2, <3>1 DEF Shown
  <2>5. plan[u] = Shows(u)
    BY NoneWrites DEF Matched, MatchedTo
  <2> QED BY <2>2, <2>3, <2>4, <2>5 DEF Shows, Deserved, Current
<1> QED BY <1>1, <1>2, TypedInit, MatchedInit, FollowedInit, PTL DEF Spec
==============================================================================
