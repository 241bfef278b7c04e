------------------------------- MODULE Billing -------------------------------
(***************************************************************************)
(* BillingService (apps/api/src/billing): checkout sessions and Stripe's   *)
(* webhooks.  Stripe keeps customers and subscriptions and tells of every  *)
(* change with an event that it delivers until it is answered 2xx: at      *)
(* least once, in any order and several at the same time.                  *)
(* What an event carries is the subscription as it was when it happened.   *)
(***************************************************************************)
EXTENDS Naturals, FiniteSets, Sequences

CONSTANTS Users,
          Customers,    \* ids Stripe gives to customers
          Subs,         \* ids Stripe gives to subscriptions
          Requests,     \* slots for checkout requests in flight
          Hooks,        \* slots for webhook requests in flight
          NoOne,        \* null
          MaxChanges    \* bound: payments and changes of subscriptions, together

ASSUME BillingAssumption ==
          /\ NoOne \notin Users \cup Customers \cup Subs
          /\ MaxChanges \in Nat \ {0}

VARIABLES customerId,   \* User.stripeCustomerId
          plan,         \* User.plan
          row,          \* the Subscription of each user: its stripeSubscriptionId,
                        \* and which status of which subscription it shows
          createdFor,   \* Stripe: the user a customer was created for
          sessions,     \* Stripe: customers with an open checkout session
          payer,        \* Stripe: the customer of each subscription
          past,         \* Stripe: the statuses a subscription has gone through
          events,       \* Stripe: events not yet answered 2xx for good
          checkout,     \* the checkout each request serves
          hook,         \* the event each webhook request handles
          setBack,      \* history: users whose row an older status has replaced
          raced,        \* history: users with two customers created at once
          torn          \* history: users with two webhooks between their writes
                        \* at once, or one that failed there for good

db == <<customerId, plan, row>>
stripe == <<createdFor, sessions, payer, past, events>>
vars == <<db, stripe, checkout, hook, setBack, raced, torn>>

------------------------------------------------------------------------------
Statuses == {"active", "past_due", "canceled"}
Event == [type : {"completed", "changed"}, sub : Subs, n : 1 .. MaxChanges]

Idle == [at |-> "idle", user |-> NoOne, customer |-> NoOne]
NoHook == [at |-> "idle", event |-> NoOne, n |-> 0, user |-> NoOne]
NoRow == [sub |-> NoOne, of |-> NoOne, n |-> 0]

Happened == UNION {{<<s, n>> : n \in DOMAIN past[s]} : s \in Subs}
Current(s) == past[s][Len(past[s])]
Taken == {s \in Subs : payer[s] # NoOne}
SubsOf(u) == {s \in Taken : createdFor[payer[s]] = u}
IsActive(status) == status = "active"     \* "trialing" is the same to the code
PlanFor(status) == IF IsActive(status) THEN "premium" ELSE "free"

Handling(s) == \E h \in Hooks : hook[h] # NoHook /\ hook[h].event.sub = s

Init == /\ customerId = [u \in Users |-> NoOne]
        /\ plan = [u \in Users |-> "free"]
        /\ row = [u \in Users |-> NoRow]
        /\ createdFor = [c \in Customers |-> NoOne]
        /\ sessions = {}
        /\ payer = [s \in Subs |-> NoOne]
        /\ past = [s \in Subs |-> <<>>]
        /\ events = {}
        /\ checkout = [r \in Requests |-> Idle]
        /\ hook = [h \in Hooks |-> NoHook]
        /\ setBack = {}
        /\ raced = {}
        /\ torn = {}

------------------------------------------------------------------------------
(* Plausible mistakes, each in place of the definition named before "_".   *)

(* Each checkout creates a customer. *)
ReadCustomer_alwaysCreates(r, u) ==
    /\ checkout[r] = Idle
    /\ checkout' = [checkout EXCEPT ![r] = [at |-> "create", user |-> u,
                                           customer |-> NoOne]]
    /\ UNCHANGED <<db, stripe, hook>>

(* findFirst without its where clause. *)
FindUser_first(h) ==
    /\ hook[h].at = "find"
    /\ \E u \in Users : hook' = [hook EXCEPT ![h].at = "upsert", ![h].user = u]
    /\ UNCHANGED <<db, stripe, checkout>>

(* Every status but "canceled" counts as active. *)
Verdict_notCanceled(h) ==
    IF past[hook[h].event.sub][hook[h].n] = "canceled" THEN "free" ELSE "premium"

(* Errors are caught and answered 200. *)
HookFails_answered(h) ==
    /\ hook[h] # NoHook
    /\ hook' = [hook EXCEPT ![h] = NoHook]
    /\ events' = events \ {hook[h].event}
    /\ UNCHANGED <<db, createdFor, sessions, payer, past, checkout>>

------------------------------------------------------------------------------
(* createCheckoutSession. *)

ReadCustomer(r, u) ==
    /\ checkout[r] = Idle
    /\ checkout' = [checkout EXCEPT ![r] =
          [at |-> IF customerId[u] = NoOne THEN "create" ELSE "session",
           user |-> u, customer |-> customerId[u]]]
    /\ UNCHANGED <<db, stripe, hook>>

(* customers.create makes a new customer each time it is called. *)
CreateCustomer(r) ==
    /\ checkout[r].at = "create"
    /\ \E c \in Customers :
          /\ createdFor[c] = NoOne
          /\ createdFor' = [createdFor EXCEPT ![c] = checkout[r].user]
          /\ checkout' = [checkout EXCEPT ![r].at = "save", ![r].customer = c]
    /\ UNCHANGED <<db, sessions, payer, past, events, hook>>

SaveCustomer(r) ==
    /\ checkout[r].at = "save"
    /\ customerId' = [customerId EXCEPT ![checkout[r].user] = checkout[r].customer]
    /\ checkout' = [checkout EXCEPT ![r].at = "session"]
    /\ UNCHANGED <<plan, row, stripe, hook>>

CreateSession(r) ==
    /\ checkout[r].at = "session"
    /\ sessions' = sessions \cup {checkout[r].customer}
    /\ checkout' = [checkout EXCEPT ![r] = Idle]
    /\ UNCHANGED <<db, createdFor, payer, past, events, hook>>

CheckoutFails(r) ==
    /\ checkout[r] # Idle
    /\ checkout' = [checkout EXCEPT ![r] = Idle]
    /\ UNCHANGED <<db, stripe, hook>>

------------------------------------------------------------------------------
(* Stripe: the user pays, and the subscription goes its way. *)

Pay(s, c) ==
    /\ Cardinality(Happened) < MaxChanges
    /\ c \in sessions /\ payer[s] = NoOne
    /\ sessions' = sessions \ {c}
    /\ payer' = [payer EXCEPT ![s] = c]
    /\ past' = [past EXCEPT ![s] = <<"active">>]
    /\ events' = events \cup {[type |-> "completed", sub |-> s, n |-> 1]}
    /\ UNCHANGED <<db, createdFor, checkout, hook>>

Change(s, status) ==
    /\ s \in Taken /\ Cardinality(Happened) < MaxChanges
    /\ Current(s) \notin {status, "canceled"}
    /\ past' = [past EXCEPT ![s] = Append(@, status)]
    /\ events' = events \cup {[type |-> "changed", sub |-> s, n |-> Len(past'[s])]}
    /\ UNCHANGED <<db, createdFor, sessions, payer, checkout, hook>>

Deliver(h, e) ==
    /\ hook[h] = NoHook /\ e \in events
    /\ hook' = [hook EXCEPT ![h] =
          IF e.type = "completed"
          THEN [NoHook EXCEPT !.at = "retrieve", !.event = e]
          ELSE [NoHook EXCEPT !.at = "find", !.event = e,
                              !.n = e.n]]
    /\ UNCHANGED <<db, stripe, checkout>>

------------------------------------------------------------------------------
(* handleWebhookEvent and upsertSubscription. *)

Retrieve(h) ==
    /\ hook[h].at = "retrieve"
    /\ hook' = [hook EXCEPT ![h].at = "find",
                            ![h].n = Len(past[hook[h].event.sub])]
    /\ UNCHANGED <<db, stripe, checkout>>

(* No user with that customer: 404, and Stripe will try again. *)
FindUser(h) ==
    /\ hook[h].at = "find"
    /\ LET c == payer[hook[h].event.sub]
           found == {u \in Users : customerId[u] = c}
       IN  \/ \E u \in found :
                 hook' = [hook EXCEPT ![h].at = "upsert", ![h].user = u]
           \/ found = {} /\ hook' = [hook EXCEPT ![h] = NoHook]
    /\ UNCHANGED <<db, stripe, checkout>>

(* The update of an existing row leaves its stripeSubscriptionId.          *)
UpsertSubscription(h) ==
    /\ hook[h].at = "upsert"
    /\ LET u == hook[h].user
           s == hook[h].event.sub
       IN  row' = [row EXCEPT ![u] = [sub |-> IF @ = NoRow THEN s ELSE @.sub,
                                      of |-> s, n |-> hook[h].n]]
    /\ hook' = [hook EXCEPT ![h].at = "plan"]
    /\ UNCHANGED <<customerId, plan, stripe, checkout>>

Verdict(h) == PlanFor(past[hook[h].event.sub][hook[h].n])
WritePlan(h) ==
    /\ hook[h].at = "plan"
    /\ plan' = [plan EXCEPT ![hook[h].user] = Verdict(h)]
    /\ hook' = [hook EXCEPT ![h] = NoHook]
    /\ UNCHANGED <<customerId, row, createdFor, sessions, payer, past, checkout>>

(* 200 reaches Stripe, which drops the event. *)
Answer(h) == WritePlan(h) /\ events' = events \ {hook[h].event}

(* 200 is lost, and Stripe will deliver the event again. *)
AnswerLost(h) == WritePlan(h) /\ hook[h].event \in events /\ UNCHANGED events

HookFails(h) ==
    /\ hook[h] # NoHook
    /\ hook' = [hook EXCEPT ![h] = NoHook]
    /\ UNCHANGED <<db, stripe, checkout>>

------------------------------------------------------------------------------
CheckoutStep(r) == CreateCustomer(r) \/ SaveCustomer(r) \/ CreateSession(r)
HookStep(h) == \/ Retrieve(h) \/ FindUser(h)
               \/ UpsertSubscription(h) \/ Answer(h)

Fail == \/ \E r \in Requests : CheckoutFails(r)
        \/ \E h \in Hooks : HookFails(h) \/ AnswerLost(h)

(* The history variables. *)
Creating(r, u) == checkout[r].at \in {"create", "save"} /\ checkout[r].user = u
Writing(h, u) == hook[h].at = "plan" /\ hook[h].user = u
Abandoned(h, u) == /\ Writing(h, u) /\ hook'[h] = NoHook
                   /\ plan'[u] # Verdict(h) /\ hook[h].event \notin events
Twice(S, P(_)) == \E x, y \in S : x # y /\ P(x) /\ P(y)
Observe ==
    /\ raced' = raced \cup {u \in Users : Twice(Requests, LAMBDA r : Creating(r, u))'}
    /\ setBack' = setBack \cup {u \in Users : row'[u].of = row[u].of /\ row'[u].n < row[u].n}
    /\ torn' = torn \cup {u \in Users :
                  \/ Twice(Hooks, LAMBDA h : Writing(h, u))'
                  \/ \E h \in Hooks : Abandoned(h, u)}

Work == \/ \E r \in Requests, u \in Users : ReadCustomer(r, u)
        \/ \E r \in Requests : CheckoutStep(r)
        \/ \E s \in Subs, c \in Customers : Pay(s, c)
        \/ \E s \in Subs, status \in Statuses : Change(s, status)
        \/ \E h \in Hooks, e \in events : Deliver(h, e)
        \/ \E h \in Hooks : HookStep(h)

Next == (Work \/ Fail) /\ Observe
Spec == Init /\ [][Next]_vars

------------------------------------------------------------------------------
(* Properties. *)

(* Types of the tables, of Stripe's objects and of the requests. *)
TypeOK ==
    /\ customerId \in [Users -> Customers \cup {NoOne}]
    /\ plan \in [Users -> {"free", "premium"}]
    /\ \A u \in Users : row[u] = NoRow \/
          row[u] \in [sub : Taken, of : Taken, n : 1 .. MaxChanges]
    /\ createdFor \in [Customers -> Users \cup {NoOne}]
    /\ sessions \subseteq {c \in Customers : createdFor[c] # NoOne}
    /\ payer \in [Subs -> Customers \cup {NoOne}]
    /\ \A s \in Subs : past[s] \in Seq(Statuses) /\ Len(past[s]) <= MaxChanges
    /\ events \subseteq Event
    /\ \A r \in Requests : checkout[r] = Idle \/
          checkout[r] \in [at : {"create", "save", "session"}, user : Users,
                           customer : Customers \cup {NoOne}]
    /\ \A h \in Hooks : hook[h] = NoHook \/
          hook[h] \in [at : {"retrieve", "find", "upsert", "plan"}, event : Event,
                       n : 0 .. MaxChanges, user : Users \cup {NoOne}]
    /\ setBack \subseteq Users /\ raced \subseteq Users /\ torn \subseteq Users

(* Webhooks find their user by stripeCustomerId, which a second checkout    *)
(* may overwrite: a user who pays is known by the customer that pays,       *)
(* unless two of the user's checkouts created customers at the same time.   *)
PayersKnown ==
    \A s \in Taken : LET u == createdFor[payer[s]]
                     IN  customerId[u] = payer[s] \/ u \in raced

(* Nobody is premium, or has a row, on the strength of another's payment. *)
OnlyPayersArePremium ==
    \A u \in Users :
       plan[u] = "premium" \/ row[u] # NoRow =>
          /\ SubsOf(u) # {}
          /\ row[u].sub \in SubsOf(u) /\ row[u].of \in SubsOf(u)

(* Stripe has heard 200 for every event of the user's subscriptions. *)
Quiet(u) == \A s \in SubsOf(u) : ~Handling(s) /\ \A e \in events : e.sub # s

(* The row and the plan are two writes.  Once all events are through they   *)
(* agree, whatever failed and was delivered again, unless two webhooks of   *)
(* the user were between their writes at the same time, or one failed there *)
(* after another delivery of its event had been answered.                   *)
PlanMatchesRow ==
    \A u \in Users : Quiet(u) /\ u \notin torn =>
       plan[u] = IF row[u] = NoRow THEN "free" ELSE PlanFor(past[row[u].of][row[u].n])

(* A user with one subscription has the plan Stripe says, once all events   *)
(* are through, unless an older event took the row back: the code compares  *)
(* neither dates nor statuses.                                             *)
Deserved(s) == PlanFor(Current(s))
PlanFollowsStripe ==
    \A u \in Users, s \in Subs :
       Quiet(u) /\ SubsOf(u) = {s} /\ u \notin torn \cup setBack => plan[u] = Deserved(s)
==============================================================================
