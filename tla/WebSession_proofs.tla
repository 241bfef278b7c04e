-------------------------- MODULE WebSession_proofs --------------------------
(***************************************************************************)
(* Theorems about WebSession, for every number of requests in flight, of   *)
(* tokens and of failing calls.                                            *)
(***************************************************************************)
EXTENDS WebSession, TLAPS

(* A request that has no answer yet has not run: what is refreshed and     *)
(* tried again was refused by the guard.                                   *)
NotRunYet == \A r \in Requests : /\ call[r].ran <= 1
                                 /\ call[r].at # "reply" => call[r].ran = 0

IInv == TypeOK /\ NotRunYet

Calls == [kind : Kinds, at : Places, sent : Cookies, sets : SUBSET Cookies, ran : 0 .. 2,
          status : {"none", "ok", "401", "error"}]

(* The first cookies are types of theirs. *)
LEMMA CookiesTyped ==
    /\ Empty \in Cookies
    /\ Idle \in Calls /\ Idle.ran = 0
    /\ \A a, b \in {None} \cup Tokens : AuthCookies(a, b) \subseteq Cookies
  BY DEF Empty, Cookies, Idle, Calls, Kinds, Places, AuthCookies

(* A request that is sent carries the browser's cookies. *)
LEMMA SendTyped ==
    ASSUME IInv, NEW r \in Requests, NEW kind \in Kinds, NEW place \in Places \ {"reply"},
           Send(r, kind, place)
    PROVE  /\ call' \in [Requests -> Calls]
           /\ NotRunYet'
  BY CookiesTyped DEF IInv, TypeOK, NotRunYet, Send, Idle, Calls, At

(* One request is put in place of another: what must hold of it. *)
LEMMA CallReplaced ==
    ASSUME IInv, NEW r \in Requests, NEW c \in Calls, c.ran = 0 \/ (c.at = "reply" /\ c.ran <= 1),
           call' = [call EXCEPT ![r] = c]
    PROVE  /\ call' \in [Requests -> Calls]
           /\ NotRunYet'
  BY DEF IInv, TypeOK, NotRunYet, Calls

(* An answer leaves alone how often the request has run. *)
LEMMA AnswerTyped ==
    ASSUME IInv, NEW r \in Requests, NEW status \in {"none", "ok", "401", "error"},
           NEW sets \in SUBSET Cookies, Answer(r, status, sets)
    PROVE  /\ call' \in [Requests -> Calls]
           /\ NotRunYet'
<1> DEFINE c == [call[r] EXCEPT !.at = "reply", !.status = status, !.sets = sets]
<1>1. call[r] \in Calls /\ call[r].ran <= 1
  BY DEF IInv, TypeOK, NotRunYet, Calls
<1>2. c \in Calls /\ c.at = "reply" /\ c.ran <= 1
  BY <1>1 DEF Calls, Places
<1>3. call' = [call EXCEPT ![r] = c]
  BY DEF Answer, IInv, TypeOK
<1> QED BY <1>2, <1>3, CallReplaced

(* What a step does to the calls, step by step. *)
LEMMA CallStep ==
    ASSUME SessionAssumption, IInv, Next
    PROVE  /\ call' \in [Requests -> Calls]
           /\ NotRunYet'
<1> USE SessionAssumption
<1>0. /\ call \in [Requests -> Calls] /\ NotRunYet
      /\ jar \in Cookies
      /\ signed \in 0 .. MaxTokens
  BY DEF IInv, TypeOK, Calls
<1>1. ASSUME NEW r \in Requests, RequestStep(r)
      PROVE  /\ call' \in [Requests -> Calls] /\ NotRunYet'
  <2>1. CASE SignIn(r)
    BY <2>1, SendTyped DEF SignIn, Kinds, Places
  <2>2. CASE Grant(r)
    <3>1. signed' \in Tokens
      BY <2>2, <1>0 DEF Grant, Tokens
    <3>2. AuthCookies(signed', signed') \in SUBSET Cookies /\ {} \in SUBSET Cookies
      BY <3>1, CookiesTyped
    <3> QED BY <2>2, <3>2, AnswerTyped DEF Grant
  <2>3. CASE Refuse(r)
    BY <2>3, AnswerTyped DEF Refuse
  <2>4. CASE Logout(r)
    <3> DEFINE c == [Idle EXCEPT !.kind = "logout", !.at = "nest", !.sent = jar]
               d == [Idle EXCEPT !.kind = "logout", !.at = "reply", !.sent = jar, !.sets = {Empty}]
    <3>1. call' = [call EXCEPT ![r] = IF jar.access # None THEN c ELSE d]
      BY <2>4 DEF Logout
    <3>2. c \in Calls /\ c.ran = 0 /\ d \in Calls /\ d.ran = 0
      BY <1>0, CookiesTyped DEF Calls, Kinds, Places
    <3> HIDE DEF c, d
    <3> QED BY <3>1, <3>2, CallReplaced
  <2>5. CASE Revoke(r)
    BY <2>5, AnswerTyped, CookiesTyped DEF Revoke
  <2>6. CASE Click(r)
    <3>1. CASE jar.access # None
      BY <2>6, <3>1, SendTyped DEF Click, Kinds, Places
    <3>2. CASE jar.access = None
      <4> DEFINE c == [Idle EXCEPT !.kind = "api", !.at = "reply", !.sent = jar, !.status = "401"]
      <4>1. call' = [call EXCEPT ![r] = c]
        BY <2>6, <3>2 DEF Click
      <4>2. c \in Calls /\ c.ran = 0
        BY <1>0, CookiesTyped DEF Calls, Kinds, Places
      <4> HIDE DEF c
      <4> QED BY <4>1, <4>2, CallReplaced
    <3> QED BY <3>1, <3>2
  <2>7. CASE Forward(r)
    <3>1. call[r].at = "nest" /\ call[r].ran = 0
      BY <2>7, <1>0 DEF Forward, At, NotRunYet
    <3> QED BY <2>7, <3>1, <1>0 DEF Forward, NotRunYet, Calls, Places
  <2>8. CASE Refresh(r)
    <3>1. signed' \in Tokens /\ call[r].sent.refresh \in {None} \cup Tokens
      BY <2>8, <1>0 DEF Refresh, Tokens, Calls, Cookies
    <3>2. AuthCookies(signed', call[r].sent.refresh) \in SUBSET Cookies
      BY <3>1, CookiesTyped
    <3>3. call[r].at = "refresh"
      BY <2>8 DEF Refresh, At
    <3> QED BY <2>8, <3>2, <3>3, <1>0 DEF Refresh, NotRunYet, Calls, Places
  <2>9. CASE RefreshDenied(r)
    BY <2>9, AnswerTyped, CookiesTyped DEF RefreshDenied
  <2>10. CASE RefreshThrows(r)
    BY <2>10, AnswerTyped DEF RefreshThrows
  <2>11. CASE Retry(r)
    <3>1. call[r].at = "retry" /\ call[r].ran = 0 /\ call[r].sets \in SUBSET Cookies
      BY <2>11, <1>0 DEF Retry, At, NotRunYet, Calls
    <3> QED BY <2>11, <3>1, <1>0 DEF Retry, NotRunYet, Calls, Places
  <2>12. CASE Arrive(r)
    BY <2>12, <1>0, CookiesTyped DEF Arrive, NotRunYet, Idle
  <2>13. CASE ReplyLost(r)
    BY <2>13, <1>0, CookiesTyped DEF ReplyLost, NotRunYet, Idle
  <2> QED BY <1>1, <2>1, <2>2, <2>3, <2>4, <2>5, <2>6, <2>7, <2>8, <2>9, <2>10, <2>11,
             <2>12, <2>13 DEF RequestStep
<1>2. CASE Clock \/ OtherSignsIn \/ OtherLogsOut
  BY <1>0, <1>2 DEF Clock, AccessExpires, AccessCookieAges, RefreshExpires,
                    RefreshCookieAges, OtherSignsIn, OtherLogsOut, NotRunYet
<1> QED BY <1>1, <1>2 DEF Next

(* The browser's cookies are those it had or those of a reply. *)
LEMMA JarStep ==
    ASSUME SessionAssumption, IInv, Next
    PROVE  jar' \in Cookies
<1>1. ASSUME NEW r \in Requests, Arrive(r)
      PROVE  jar' \in Cookies
  BY <1>1 DEF Arrive, IInv, TypeOK
<1>2. CASE AccessCookieAges \/ RefreshCookieAges
  BY <1>2 DEF AccessCookieAges, RefreshCookieAges, IInv, TypeOK, Cookies
<1>3. CASE UNCHANGED jar
  BY <1>3 DEF IInv, TypeOK
<1> QED
  BY <1>1, <1>2, <1>3
  DEF Next, RequestStep, Clock, SignIn, Grant, Refuse, Logout, Revoke, Click, Forward,
      Refresh, RefreshDenied, RefreshThrows, Retry, ReplyLost, AccessExpires,
      RefreshExpires, OtherSignsIn, OtherLogsOut

(* Tokens are signed and expire within their bounds. *)
LEMMA ClockStep ==
    ASSUME SessionAssumption, IInv, Next
    PROVE  /\ signed' \in 0 .. MaxTokens /\ spent' \in 0 .. signed' /\ lapsed' \in 0 .. spent'
           /\ outages' \in 0 .. MaxOutages
<1> USE SessionAssumption DEF IInv, TypeOK, clocks, Fail
<1>1. CASE \E r \in Requests : RequestStep(r)
  BY <1>1 DEF RequestStep, SignIn, Grant, Refuse, Logout, Revoke, Click, Forward, Refresh,
              RefreshDenied, RefreshThrows, Retry, Arrive, ReplyLost
<1>2. CASE Clock \/ OtherSignsIn \/ OtherLogsOut
  BY <1>2 DEF Clock, AccessExpires, AccessCookieAges, RefreshExpires, RefreshCookieAges,
              OtherSignsIn, OtherLogsOut
<1> QED BY <1>1, <1>2 DEF Next

(* Session and history variables. *)
LEMMA FlagStep ==
    ASSUME IInv, Next
    PROVE  session' \in BOOLEAN /\ calm' \in [yes : BOOLEAN, early : SUBSET Requests]
           /\ out' \in [yes : BOOLEAN, late : SUBSET Requests]
<1> DEFINE Calms == [yes : BOOLEAN, early : SUBSET Requests]
<1>0. session \in BOOLEAN /\ calm \in Calms /\ out \in [yes : BOOLEAN, late : SUBSET Requests]
  BY DEF IInv, TypeOK
<1>1. Disturbed \in Calms /\ StillIn \in [yes : BOOLEAN, late : SUBSET Requests]
  BY DEF Disturbed, StillIn
<1>2. ASSUME NEW r \in Requests
      PROVE  CalmAfter(r) \in Calms /\ [calm EXCEPT !.early = @ \ {r}] \in Calms
  BY <1>0, <1>1 DEF CalmAfter, InFlight
<1> HIDE DEF Calms
<1>3. ASSUME session' \in BOOLEAN, calm' \in {calm, Disturbed}, UNCHANGED out
      PROVE  /\ session' \in BOOLEAN /\ calm' \in Calms
             /\ out' \in [yes : BOOLEAN, late : SUBSET Requests]
  BY <1>0, <1>1, <1>3
<1>4. ASSUME NEW r \in Requests, RequestStep(r)
      PROVE  /\ session' \in BOOLEAN /\ calm' \in Calms
             /\ out' \in [yes : BOOLEAN, late : SUBSET Requests]
  <2>1. CASE Arrive(r)
    <3>1. calm' = CalmAfter(r) /\ session' = session
      BY <2>1 DEF Arrive
    <3>2. out' \in [yes : BOOLEAN, late : SUBSET Requests]
      BY <1>0, <1>1, <2>1 DEF Arrive, InFlight
    <3> QED BY <1>0, <1>2, <3>1, <3>2
  <2>2. CASE ReplyLost(r)
    <3>1. calm' = [calm EXCEPT !.early = @ \ {r}] /\ session' = session
      BY <2>2 DEF ReplyLost
    <3>2. out' \in [yes : BOOLEAN, late : SUBSET Requests]
      BY <1>0, <2>2 DEF ReplyLost
    <3> QED BY <1>0, <1>2, <3>1, <3>2
  <2>3. CASE Revoke(r)
    <3>1. session' \in BOOLEAN
      BY <1>0, <2>3 DEF Revoke
    <3> QED BY <1>3, <2>3, <3>1 DEF Revoke
  <2>4. CASE Grant(r)
    BY <1>3, <2>4 DEF Grant
  <2>5. CASE \/ SignIn(r) \/ Refuse(r) \/ Logout(r) \/ Click(r) \/ Forward(r)
             \/ Refresh(r) \/ RefreshDenied(r) \/ RefreshThrows(r) \/ Retry(r)
    <3>1. session' = session /\ calm' \in {calm, Disturbed} /\ UNCHANGED out
      BY <2>5 DEF SignIn, Refuse, Logout, Click, Forward, Refresh, RefreshDenied,
                  RefreshThrows, Retry
    <3> QED BY <1>0, <1>3, <3>1
  <2> QED BY <1>4, <2>1, <2>2, <2>3, <2>4, <2>5 DEF RequestStep
<1>5. ASSUME Clock
      PROVE  /\ session' \in BOOLEAN /\ calm' \in Calms
             /\ out' \in [yes : BOOLEAN, late : SUBSET Requests]
  <2>1. session' = session /\ calm' \in {calm, Disturbed} /\ UNCHANGED out
    BY <1>5 DEF Clock, AccessExpires, AccessCookieAges, RefreshExpires, RefreshCookieAges
  <2> QED BY <1>0, <1>3, <2>1
<1>6. ASSUME OtherSignsIn \/ OtherLogsOut
      PROVE  /\ session' \in BOOLEAN /\ calm' \in Calms
             /\ out' \in [yes : BOOLEAN, late : SUBSET Requests]
  BY <1>3, <1>6 DEF OtherSignsIn, OtherLogsOut
<1> QED BY <1>4, <1>5, <1>6 DEF Next, Calms

(* The inductive invariant. *)
THEOREM Inductive == Spec => []IInv
<1>1. Init => IInv
  <2> SUFFICES ASSUME Init PROVE IInv
    OBVIOUS
  <2>1. call \in [Requests -> Calls] /\ NotRunYet
    BY CookiesTyped DEF Init, NotRunYet
  <2>2. StillIn \in [yes : BOOLEAN, late : SUBSET Requests]
    BY DEF StillIn
  <2>3. jar \in Cookies /\ session \in BOOLEAN /\ calm \in [yes : BOOLEAN, early : SUBSET Requests]
    BY CookiesTyped DEF Init, Disturbed
  <2>4. /\ signed \in 0 .. MaxTokens /\ spent \in 0 .. signed /\ lapsed \in 0 .. spent
        /\ outages \in 0 .. MaxOutages
    BY SessionAssumption DEF Init, SessionAssumption
  <2>5. out \in [yes : BOOLEAN, late : SUBSET Requests]
    BY <2>2 DEF Init
  <2> QED BY <2>1, <2>3, <2>4, <2>5 DEF IInv, TypeOK, Calls
<1>2. IInv /\ [Next]_vars => IInv'
  <2> SUFFICES ASSUME IInv, [Next]_vars PROVE IInv'
    OBVIOUS
  <2>1. CASE Next
    BY <2>1, SessionAssumption, CallStep, JarStep, ClockStep, FlagStep
    DEF IInv, TypeOK, Calls
  <2>2. CASE UNCHANGED vars
    BY <2>2 DEF IInv, TypeOK, NotRunYet, vars, clocks
  <2> QED BY <2>1, <2>2
<1> QED BY <1>1, <1>2, PTL DEF Spec

(* Cookies, tokens and requests keep their types. *)
THEOREM Typing == Spec => []TypeOK
  BY Inductive, PTL DEF IInv

(* The proxy's retry never executes a request a second time (ExecutedOnce). *)
THEOREM RetriesHold == Spec => []ExecutedOnce
<1>1. IInv => ExecutedOnce
  BY DEF IInv, NotRunYet, ExecutedOnce
<1> QED BY <1>1, Inductive, PTL

------------------------------------------------------------------------------
(* How requests go on, and what their replies set.                          *)

(* A request when n tokens have been signed.  What a reply sets is nothing, *)
(* or no cookies, or a refresh token no older than the one it was sent with.*)
Whole(c, n) ==
    /\ c.at = "idle" => c = Idle
    /\ c.at # "reply" => c.status = "none"
    /\ c.at \in {"refresh", "retry"} => c.kind = "api"
    /\ c.kind = "logout" /\ c.at = "reply" => c.sets = {Empty}
    /\ c.sent.refresh <= n
    /\ \A k \in c.sets : /\ k.refresh <= n
                         /\ (k = Empty /\ c.at = "reply") \/ k.refresh >= c.sent.refresh

AllWhole == jar.refresh <= signed /\ \A r \in Requests : Whole(call[r], signed)

(* A request that was sent by a browser without cookies takes no effect     *)
(* before its reply arrives, unless it signs in.                            *)
Harmless(c) == \/ c.kind = "signIn"
               \/ c.kind = "api" /\ c.at = "reply" /\ c.sets = {} /\ c.ran = 0
               \/ c.kind = "logout" /\ c.at = "reply"

(* A request is sent, with the cookies the browser has.                     *)
Sent(c, d) == /\ c.at = "idle" /\ d.at # "idle"
              /\ d.sent = jar
              /\ d.kind = "logout" => ~calm'.yes
              /\ d.kind # "logout" => d.sets = {}
              /\ d.status = "401" => d.sent.access = None
              /\ jar = Empty => Harmless(d)

(* A request goes on.  Only a logout, or a refresh that is refused or fails,*)
(* is answered by clearing the cookies, or by 401; and a refresh that fails *)
(* disturbs, unless the request is from before the sign-in.                 *)
GoesOn(r, d) ==
    /\ call[r].at \notin {"idle", "reply"} /\ d.at # "idle"
    /\ d.kind = call[r].kind /\ d.sent = call[r].sent
    /\ \/ ~calm'.yes \/ r \in calm.early
       \/ ~MayRefresh(call[r].sent.refresh) \/ call[r].kind = "logout"
       \/ d.status # "401" /\ \A k \in d.sets : k.refresh >= call[r].sent.refresh

LEMMA IdleWhole == ASSUME NEW n \in Nat PROVE Whole(Idle, n)
BY DEF Whole, Idle, Empty, None

LEMMA WholeGrows ==
    ASSUME NEW n \in Nat, NEW m \in Nat, n <= m, NEW c \in Calls, Whole(c, n)
    PROVE  Whole(c, m)
<1>1. c.sent.refresh \in Nat /\ \A k \in c.sets : k.refresh \in Nat
    BY DEF Calls, Cookies, Tokens, None
<1> QED
    BY <1>1 DEF Whole

(* What a step of a request makes of it.                                    *)
LEMMA RequestGoes ==
    ASSUME IInv, AllWhole, NEW r \in Requests, RequestStep(r)
    PROVE  \E d \in Calls : /\ call' = [call EXCEPT ![r] = d]
                            /\ Whole(d, signed')
                            /\ \/ d = Idle /\ (Arrive(r) \/ ReplyLost(r))
                               \/ Sent(call[r], d) /\ UNCHANGED <<jar, session, out>>
                               \/ GoesOn(r, d) /\ UNCHANGED <<jar, out>>
<1> USE SessionAssumption DEF SessionAssumption
<1>0. /\ call \in [Requests -> Calls] /\ call[r] \in Calls /\ Whole(call[r], signed)
      /\ jar \in Cookies /\ jar.refresh \in Nat /\ call[r].sent \in Cookies
      /\ call[r].sent.refresh \in Nat
      /\ signed \in Nat /\ jar.refresh <= signed
      /\ call[r].at # "reply" => call[r].ran = 0
      /\ \A k \in call[r].sets : k \in Cookies
  <2>1. signed \in Nat
    BY DEF IInv, TypeOK
  <2> QED BY <2>1 DEF IInv, TypeOK, Calls, AllWhole, NotRunYet, Cookies, Tokens, None
<1>1. Empty \in Cookies /\ Empty.refresh = 0 /\ Empty.access = None
  BY CookiesTyped DEF Empty, None
<1>2. Idle \in Calls /\ Idle.kind = "none" /\ Idle.at = "idle" /\ Idle.sets = {}
      /\ Idle.status = "none" /\ Idle.ran = 0
  BY CookiesTyped DEF Idle
<1>3. CASE SignIn(r) \/ Click(r) \/ Logout(r)
  <2>1. PICK d \in Calls :
             /\ call' = [call EXCEPT ![r] = d] /\ call[r].at = "idle"
             /\ d.sent = jar /\ d.ran = 0
             /\ \/ d.kind = "signIn" /\ d.at = "nest" /\ d.status = "none" /\ d.sets = {}
                \/ /\ d.kind = "logout" /\ d.at = "nest" /\ d.status = "none" /\ d.sets = {}
                   /\ ~calm'.yes /\ jar.access # None
                \/ /\ d.kind = "logout" /\ d.at = "reply" /\ d.status = "none" /\ d.sets = {Empty}
                   /\ ~calm'.yes
                \/ /\ d.kind = "api" /\ d.at = "nest" /\ d.status = "none" /\ d.sets = {}
                   /\ jar.access # None
                \/ /\ d.kind = "api" /\ d.at = "reply" /\ d.status = "401" /\ d.sets = {}
                   /\ jar.access = None
    <3> DEFINE d1 == [Idle EXCEPT !.kind = "signIn", !.at = "nest", !.sent = jar]
               d2 == [Idle EXCEPT !.kind = "logout", !.at = "nest", !.sent = jar]
               d3 == [Idle EXCEPT !.kind = "logout", !.at = "reply", !.sent = jar, !.sets = {Empty}]
               d4 == [Idle EXCEPT !.kind = "api", !.at = "nest", !.sent = jar]
               d5 == [Idle EXCEPT !.kind = "api", !.at = "reply", !.sent = jar, !.status = "401"]
    <3>1. /\ d1 \in Calls /\ d1.sent = jar /\ d1.ran = 0
          /\ d1.kind = "signIn" /\ d1.at = "nest" /\ d1.status = "none" /\ d1.sets = {}
      BY <1>0, <1>2 DEF Calls, Kinds, Places
    <3>2. /\ d2 \in Calls /\ d2.sent = jar /\ d2.ran = 0
          /\ d2.kind = "logout" /\ d2.at = "nest" /\ d2.status = "none" /\ d2.sets = {}
      BY <1>0, <1>2 DEF Calls, Kinds, Places
    <3>3. /\ d3 \in Calls /\ d3.sent = jar /\ d3.ran = 0
          /\ d3.kind = "logout" /\ d3.at = "reply" /\ d3.status = "none" /\ d3.sets = {Empty}
      BY <1>0, <1>1, <1>2 DEF Calls, Kinds, Places
    <3>4. /\ d4 \in Calls /\ d4.sent = jar /\ d4.ran = 0
          /\ d4.kind = "api" /\ d4.at = "nest" /\ d4.status = "none" /\ d4.sets = {}
      BY <1>0, <1>2 DEF Calls, Kinds, Places
    <3>5. /\ d5 \in Calls /\ d5.sent = jar /\ d5.ran = 0
          /\ d5.kind = "api" /\ d5.at = "reply" /\ d5.status = "401" /\ d5.sets = {}
      BY <1>0, <1>2 DEF Calls, Kinds, Places
    <3>6. /\ call[r].at = "idle"
          /\ \/ call' = [call EXCEPT ![r] = d1]
             \/ call' = [call EXCEPT ![r] = d2] /\ ~calm'.yes /\ jar.access # None
             \/ call' = [call EXCEPT ![r] = d3] /\ ~calm'.yes
             \/ call' = [call EXCEPT ![r] = d4] /\ jar.access # None
             \/ call' = [call EXCEPT ![r] = d5] /\ jar.access = None
      BY <1>3 DEF SignIn, Click, Logout, Send, At, Disturbed
    <3> HIDE DEF d1, d2, d3, d4, d5
    <3> QED BY <3>1, <3>2, <3>3, <3>4, <3>5, <3>6
  <2>2. UNCHANGED <<jar, session, out, signed>>
    BY <1>3 DEF SignIn, Click, Logout
  <2>3. Whole(d, signed')
    BY <1>0, <1>1, <2>1, <2>2 DEF Whole
  <2>4. Sent(call[r], d)
    BY <1>1, <2>1 DEF Sent, Harmless
  <2> QED BY <2>1, <2>2, <2>3, <2>4
<1>4. CASE Arrive(r) \/ ReplyLost(r)
  BY <1>0, <1>2, <1>4, IdleWhole DEF Arrive, ReplyLost
<1>5. CASE Grant(r) \/ Refuse(r) \/ Revoke(r) \/ RefreshDenied(r) \/ RefreshThrows(r)
  <2>1. PICK status \in {"none", "ok", "401", "error"}, sets \in SUBSET Cookies :
             /\ Answer(r, status, sets)
             /\ \A k \in sets : /\ k.refresh <= signed'
                                /\ k = Empty \/ k.refresh >= call[r].sent.refresh
             /\ call[r].kind = "logout" => sets = {Empty}
             /\ \/ ~calm'.yes \/ r \in calm.early
                \/ ~MayRefresh(call[r].sent.refresh) \/ call[r].kind = "logout"
                \/ status # "401" /\ \A k \in sets : k.refresh >= call[r].sent.refresh
    <3>1. CASE Grant(r)
      <4>1. signed' \in Tokens /\ signed' = signed + 1
        BY <1>0, <3>1 DEF Grant, Tokens
      <4>2. AuthCookies(signed', signed') \subseteq Cookies
        BY <4>1, CookiesTyped
      <4>3. \A k \in AuthCookies(signed', signed') : k.refresh = signed'
        BY DEF AuthCookies
      <4>4. /\ call[r].kind = "signIn"
            /\ Answer(r, "ok", AuthCookies(signed', signed')) \/ Answer(r, "error", {})
        BY <3>1 DEF Grant
      <4> HIDE DEF AuthCookies
      <4>5. CASE Answer(r, "ok", AuthCookies(signed', signed'))
        BY <1>0, <4>1, <4>2, <4>3, <4>4, <4>5 DEF Whole
      <4>6. CASE Answer(r, "error", {})
        BY <4>4, <4>6
      <4> QED BY <4>4, <4>5, <4>6
    <3>2. CASE Refuse(r)
      BY <3>2 DEF Refuse
    <3>3. CASE Revoke(r)
      BY <1>0, <1>1, <3>3 DEF Revoke
    <3>4. CASE RefreshDenied(r)
      BY <1>0, <1>1, <3>4 DEF RefreshDenied, Disturbed, At, Whole
    <3>5. CASE RefreshThrows(r)
      BY <1>0, <3>5 DEF RefreshThrows, At, Whole
    <3> QED BY <1>5, <3>1, <3>2, <3>3, <3>4, <3>5
  <2> DEFINE d == [call[r] EXCEPT !.at = "reply", !.status = status, !.sets = sets]
  <2>2. call' = [call EXCEPT ![r] = d]
    BY <1>0, <2>1 DEF Answer
  <2>3. /\ d \in Calls /\ d.at = "reply" /\ d.kind = call[r].kind /\ d.sent = call[r].sent
        /\ d.status = status /\ d.sets = sets
    BY <1>0 DEF Calls, Places
  <2> HIDE DEF d
  <2>4. UNCHANGED <<jar, out>> /\ signed' \in Nat /\ signed <= signed'
    BY <1>0, <1>5 DEF Grant, Refuse, Revoke, RefreshDenied, RefreshThrows
  <2>5. Whole(d, signed')
    <3>1. \A k \in d.sets : /\ k.refresh <= signed'
                            /\ (k = Empty /\ d.at = "reply") \/ k.refresh >= d.sent.refresh
      BY <2>1, <2>3
    <3>2. d.sent.refresh <= signed'
      BY <1>0, <2>3, <2>4 DEF Whole
    <3>3. d.kind = "logout" => d.sets = {Empty}
      BY <2>1, <2>3
    <3> QED BY <2>3, <3>1, <3>2, <3>3 DEF Whole
  <2>6. call[r].at \notin {"idle", "reply"}
    BY <1>5 DEF Grant, Refuse, Revoke, RefreshDenied, RefreshThrows, At
  <2>7. GoesOn(r, d)
    BY <2>1, <2>3, <2>6 DEF GoesOn
  <2> QED BY <2>2, <2>3, <2>4, <2>5, <2>7
<1>6. CASE Forward(r) \/ Refresh(r) \/ Retry(r)
  <2>1. /\ call[r].ran = 0 /\ call[r].status = "none" /\ call[r].kind = "api"
        /\ call[r].at \notin {"idle", "reply"}
        /\ \A k \in call[r].sets : k.refresh <= signed /\ k.refresh >= call[r].sent.refresh
        /\ signed' \in Nat /\ signed <= signed'
        /\ UNCHANGED <<jar, out>>
    BY <1>0, <1>6 DEF Forward, Refresh, Retry, At, Whole
  <2>2. ASSUME NEW d \in Calls, call' = [call EXCEPT ![r] = d],
               d.at \in {"refresh", "retry", "reply"}, d.status # "401",
               d.at # "reply" => d.status = "none",
               d.kind = call[r].kind, d.sent = call[r].sent,
               \A k \in d.sets : k.refresh >= call[r].sent.refresh /\ k.refresh <= signed
        PROVE  Whole(d, signed') /\ GoesOn(r, d)
    <3>1. \A k \in d.sets : k.refresh \in Nat
      BY DEF Calls, Cookies, Tokens, None
    <3>2. Whole(d, signed')
      BY <1>0, <2>1, <2>2, <3>1 DEF Whole
    <3>3. GoesOn(r, d)
      BY <2>1, <2>2 DEF GoesOn
    <3> QED BY <3>2, <3>3
  <2>3. CASE Forward(r)
    <3>1. PICK d \in Calls :
             /\ call' = [call EXCEPT ![r] = d]
             /\ d.at \in {"refresh", "reply"} /\ d.status # "401"
             /\ d.at # "reply" => d.status = "none"
             /\ d.kind = call[r].kind /\ d.sent = call[r].sent /\ d.sets = call[r].sets
      <4>1. CASE call' = [call EXCEPT ![r].at = "refresh"]
        <5> DEFINE d == [call[r] EXCEPT !.at = "refresh"]
        <5>1. /\ d \in Calls /\ d.at = "refresh" /\ d.status = "none"
              /\ d.kind = call[r].kind /\ d.sent = call[r].sent /\ d.sets = call[r].sets
          BY <1>0, <2>1 DEF Calls, Places
        <5>2. call' = [call EXCEPT ![r] = d]
          BY <1>0, <4>1
        <5> HIDE DEF d
        <5> QED BY <5>1, <5>2
      <4>2. ASSUME NEW status \in {"ok", "error"}, NEW n \in {0, 1},
                   call' = [call EXCEPT ![r].at = "reply", ![r].status = status, ![r].ran = @ + n]
            PROVE  \E d \in Calls :
                     /\ call' = [call EXCEPT ![r] = d]
                     /\ d.at = "reply" /\ d.status # "401"
                     /\ d.kind = call[r].kind /\ d.sent = call[r].sent /\ d.sets = call[r].sets
        <5> DEFINE d == [call[r] EXCEPT !.at = "reply", !.status = status, !.ran = call[r].ran + n]
        <5>0. call[r].ran + n \in 0 .. 2
          BY <2>1
        <5>1. /\ d \in Calls /\ d.at = "reply" /\ d.status = status
              /\ d.kind = call[r].kind /\ d.sent = call[r].sent /\ d.sets = call[r].sets
          BY <1>0, <2>1, <5>0 DEF Calls, Places
        <5>2. call' = [call EXCEPT ![r] = d]
          BY <1>0, <4>2
        <5> HIDE DEF d
        <5> QED BY <5>1, <5>2
      <4>3. \/ call' = [call EXCEPT ![r].at = "refresh"]
            \/ \E status \in {"ok", "error"}, n \in {0, 1} :
                 call' = [call EXCEPT ![r].at = "reply", ![r].status = status, ![r].ran = @ + n]
        BY <2>3 DEF Forward
      <4> QED BY <4>1, <4>2, <4>3
    <3>2. Whole(d, signed') /\ GoesOn(r, d)
      BY <2>1, <2>2, <3>1
    <3> QED BY <2>1, <3>1, <3>2
  <2>4. CASE Refresh(r)
    <3> DEFINE sets == AuthCookies(signed', call[r].sent.refresh)
               d == [call[r] EXCEPT !.at = "retry", !.sets = sets]
    <3>1. signed' \in Tokens /\ call[r].sent.refresh \in {None} \cup Tokens
      BY <1>0, <2>4 DEF Refresh, Tokens, Cookies
    <3>2. sets \in SUBSET Cookies /\ \A k \in sets : k.refresh = call[r].sent.refresh
      BY <3>1, CookiesTyped DEF AuthCookies
    <3>3. call' = [call EXCEPT ![r] = d]
      BY <1>0, <2>4 DEF Refresh
    <3> HIDE DEF sets
    <3>4. /\ d \in Calls /\ d.at = "retry" /\ d.status = "none"
          /\ d.kind = call[r].kind /\ d.sent = call[r].sent /\ d.sets = sets
      BY <1>0, <2>1, <3>2 DEF Calls, Places
    <3> HIDE DEF d
    <3>5. \A k \in d.sets : k.refresh >= call[r].sent.refresh /\ k.refresh <= signed
      BY <1>0, <3>2, <3>4 DEF Whole
    <3>6. Whole(d, signed') /\ GoesOn(r, d)
      BY <2>2, <3>3, <3>4, <3>5
    <3> QED BY <2>1, <3>3, <3>4, <3>6
  <2>5. CASE Retry(r)
    <3>1. PICK d \in Calls :
             /\ call' = [call EXCEPT ![r] = d]
             /\ d.at = "reply" /\ d.status # "401"
             /\ d.kind = call[r].kind /\ d.sent = call[r].sent /\ d.sets \subseteq call[r].sets
      <4>1. CASE call' = [call EXCEPT ![r].at = "reply", ![r].status = "ok", ![r].ran = @ + 1]
        <5> DEFINE d == [call[r] EXCEPT !.at = "reply", !.status = "ok", !.ran = call[r].ran + 1]
        <5>0. call[r].ran + 1 \in 0 .. 2
          BY <2>1
        <5>1. /\ d \in Calls /\ d.at = "reply" /\ d.status = "ok"
              /\ d.kind = call[r].kind /\ d.sent = call[r].sent /\ d.sets = call[r].sets
          BY <1>0, <2>1, <5>0 DEF Calls, Places
        <5>2. call' = [call EXCEPT ![r] = d]
          BY <1>0, <4>1
        <5> HIDE DEF d
        <5> QED BY <5>1, <5>2
      <4>2. ASSUME NEW n \in {0, 1}, NEW sets \in {{}, call[r].sets},
                   call' = [call EXCEPT ![r].at = "reply", ![r].status = "error",
                                        ![r].ran = @ + n, ![r].sets = sets]
            PROVE  \E d \in Calls :
                     /\ call' = [call EXCEPT ![r] = d]
                     /\ d.at = "reply" /\ d.status = "error"
                     /\ d.kind = call[r].kind /\ d.sent = call[r].sent /\ d.sets \subseteq call[r].sets
        <5> DEFINE d == [call[r] EXCEPT !.at = "reply", !.status = "error",
                                        !.ran = call[r].ran + n, !.sets = sets]
        <5>0. call[r].ran + n \in 0 .. 2
          BY <2>1
        <5>1. /\ d \in Calls /\ d.at = "reply" /\ d.status = "error"
              /\ d.kind = call[r].kind /\ d.sent = call[r].sent /\ d.sets \subseteq call[r].sets
          BY <1>0, <2>1, <5>0 DEF Calls, Places
        <5>2. call' = [call EXCEPT ![r] = d]
          BY <1>0, <4>2
        <5> HIDE DEF d
        <5> QED BY <5>1, <5>2
      <4> QED BY <2>5, <4>1, <4>2 DEF Retry
    <3>2. Whole(d, signed') /\ GoesOn(r, d)
      BY <2>1, <2>2, <3>1
    <3> QED BY <2>1, <3>1, <3>2
  <2> QED BY <1>6, <2>3, <2>4, <2>5
<1> QED BY <1>3, <1>4, <1>5, <1>6 DEF RequestStep

(* What cookies of a reply the browser takes.                               *)
LEMMA JarGoes ==
    ASSUME IInv, AllWhole, NEW r \in Requests, Arrive(r) \/ ReplyLost(r)
    PROVE  /\ jar' \in {jar} \cup call[r].sets
           /\ call[r].at = "reply"
           /\ UNCHANGED <<session, signed, lapsed>>
BY DEF Arrive, ReplyLost, At, clocks

LEMMA SignedGrows ==
    ASSUME IInv, [Next]_vars
    PROVE  /\ signed \in Nat /\ signed' \in Nat /\ signed <= signed'
           /\ jar.refresh \in Nat /\ lapsed \in Nat /\ lapsed <= signed
<1>0. signed \in Nat /\ jar.refresh \in Nat /\ lapsed \in Nat /\ lapsed <= signed
  <2>1. signed \in Nat /\ spent \in 0 .. signed /\ lapsed \in 0 .. spent
    BY DEF IInv, TypeOK
  <2>2. jar.refresh \in Nat
    BY DEF IInv, TypeOK, Cookies, Tokens, None
  <2> QED BY <2>1, <2>2
<1>1. ASSUME NEW r \in Requests, RequestStep(r)
      PROVE  signed' = signed \/ signed' = signed + 1
  BY <1>1 DEF RequestStep, SignIn, Grant, Refuse, Logout, Revoke, Click, Forward, Refresh,
              RefreshDenied, RefreshThrows, Retry, Arrive, ReplyLost
<1>2. ASSUME Clock \/ OtherSignsIn \/ OtherLogsOut \/ UNCHANGED vars
      PROVE  signed' = signed
  BY <1>2 DEF Clock, AccessExpires, AccessCookieAges, RefreshExpires, RefreshCookieAges,
              OtherSignsIn, OtherLogsOut, vars
<1> QED
  <2>1. signed' = signed \/ signed' = signed + 1
    BY <1>1, <1>2 DEF Next
  <2> QED BY <1>0, <2>1

LEMMA WholeStep == IInv /\ AllWhole /\ [Next]_vars => AllWhole'
<1> SUFFICES ASSUME IInv, AllWhole, [Next]_vars PROVE AllWhole'
  OBVIOUS
<1>0. /\ call \in [Requests -> Calls]
      /\ \A r \in Requests : Whole(call[r], signed')
  <2>1. call \in [Requests -> Calls]
    BY DEF IInv, TypeOK, Calls
  <2> QED BY <2>1, SignedGrows, WholeGrows DEF AllWhole
<1>1. ASSUME NEW r \in Requests, RequestStep(r)
      PROVE  AllWhole'
  <2>1. PICK d \in Calls : call' = [call EXCEPT ![r] = d] /\ Whole(d, signed')
                           /\ (UNCHANGED jar \/ Arrive(r) \/ ReplyLost(r))
    BY <1>1, RequestGoes
  <2>2. \A k \in {jar} \cup call[r].sets : k.refresh <= signed
    BY DEF AllWhole, Whole
  <2>3. jar' \in {jar} \cup call[r].sets
    BY <2>1, JarGoes
  <2>4. jar'.refresh \in Nat
    <3>1. \A k \in {jar} \cup call[r].sets : k.refresh \in Nat
      BY <1>0 DEF IInv, TypeOK, Calls, Cookies, Tokens, None
    <3> QED BY <2>3, <3>1
  <2>5. jar'.refresh <= signed'
    BY <2>2, <2>3, <2>4, SignedGrows
  <2> QED BY <1>0, <2>1, <2>5 DEF AllWhole
<1>2. CASE AccessCookieAges \/ RefreshCookieAges
  BY <1>0, <1>2, SignedGrows
  DEF AccessCookieAges, RefreshCookieAges, AllWhole, IInv, TypeOK, Cookies, None
<1>3. CASE UNCHANGED <<jar, call>>
  BY <1>0, <1>3, SignedGrows DEF AllWhole
<1> QED
  BY <1>1, <1>2, <1>3
  DEF Next, Clock, AccessExpires, RefreshExpires, OtherSignsIn, OtherLogsOut, vars

------------------------------------------------------------------------------
(* After a logout.                                                          *)

(* Requests that the browser sent since it was told of a logout have no     *)
(* effect, and change no cookies, unless they sign it in.                   *)
LoggedOut == out.yes => /\ jar = Empty
                        /\ \A r \in InFlight \ out.late : Harmless(call[r])

LEMMA LoggedOutStep == IInv /\ AllWhole /\ LoggedOut /\ [Next]_vars => LoggedOut'
<1> SUFFICES ASSUME IInv, AllWhole, LoggedOut, [Next]_vars, out'.yes PROVE LoggedOut'
  BY DEF LoggedOut
<1>0. /\ call \in [Requests -> Calls] /\ out \in [yes : BOOLEAN, late : SUBSET Requests]
      /\ \A r \in Requests : Whole(call[r], signed)
      /\ Idle.at = "idle"
  BY DEF IInv, TypeOK, Calls, AllWhole, Idle
<1>1. ASSUME NEW r \in Requests, RequestStep(r)
      PROVE  LoggedOut'
  <2>1. PICK d \in Calls :
           /\ call' = [call EXCEPT ![r] = d]
           /\ \/ d = Idle /\ (Arrive(r) \/ ReplyLost(r))
              \/ Sent(call[r], d) /\ UNCHANGED <<jar, out>>
              \/ GoesOn(r, d) /\ UNCHANGED <<jar, out>>
    BY <1>1, RequestGoes
  <2>2. CASE Sent(call[r], d) /\ UNCHANGED <<jar, out>>
    BY <1>0, <2>1, <2>2 DEF Sent, LoggedOut, InFlight, At
  <2>3. CASE GoesOn(r, d) /\ UNCHANGED <<jar, out>>
    BY <1>0, <2>1, <2>3 DEF GoesOn, LoggedOut, InFlight, At, Harmless
  <2>4. CASE d = Idle /\ ReplyLost(r)
    <3>1. out'.yes = out.yes /\ out'.late = out.late \ {r} /\ jar' = jar
      BY <1>0, <2>4 DEF ReplyLost
    <3> QED BY <1>0, <2>1, <2>4, <3>1 DEF LoggedOut, InFlight, At
  <2>5. CASE d = Idle /\ Arrive(r)
    <3>1. call[r].at = "reply" /\ jar' \in (IF call[r].sets = {} THEN {jar} ELSE call[r].sets)
      BY <2>5 DEF Arrive, At
    <3>2. CASE call[r].kind = "logout"
      <4>1. out'.late = InFlight \ {r} /\ jar' = Empty
        BY <1>0, <2>5, <3>1, <3>2 DEF Arrive, Whole
      <4> QED BY <1>0, <2>1, <2>5, <4>1 DEF LoggedOut, InFlight, At
    <3>3. CASE call[r].kind # "logout"
      <4>1. /\ out' = [out EXCEPT !.late = @ \ {r}]
            /\ call[r].kind = "signIn" => call[r].sets = {}
            /\ r \in out.late => call[r].sets \subseteq {Empty}
        BY <2>5, <3>3 DEF Arrive, StillIn
      <4>2. out.yes /\ out'.late = out.late \ {r}
        BY <1>0, <4>1
      <4>3. call[r].sets \subseteq {Empty}
        BY <3>1, <3>3, <4>1, <4>2 DEF LoggedOut, InFlight, At, Harmless
      <4>4. jar' = Empty
        BY <3>1, <4>2, <4>3 DEF LoggedOut
      <4> QED BY <1>0, <2>1, <2>5, <4>2, <4>4 DEF LoggedOut, InFlight, At
    <3> QED BY <3>2, <3>3
  <2> QED BY <2>1, <2>2, <2>3, <2>4, <2>5
<1>2. CASE AccessCookieAges \/ RefreshCookieAges
  BY <1>2 DEF AccessCookieAges, RefreshCookieAges, LoggedOut, Empty, InFlight, At
<1>3. CASE UNCHANGED <<jar, call, out>>
  BY <1>3 DEF LoggedOut, InFlight, At
<1> QED
  BY <1>1, <1>2, <1>3
  DEF Next, Clock, AccessExpires, RefreshExpires, OtherSignsIn, OtherLogsOut, vars

(* Requests and cookies at the start.                                       *)
LEMMA WholeInit == Init => AllWhole /\ LoggedOut
BY IdleWhole DEF Init, AllWhole, LoggedOut, StillIn, Empty, None

LEMMA WholeHolds == Spec => [](IInv /\ AllWhole /\ LoggedOut)
  BY Inductive, WholeInit, WholeStep, LoggedOutStep, PTL DEF Spec

(* Once the browser has been told of a logout it has no cookies, and what   *)
(* it asks is not executed, until it signs in or a reply to a request from  *)
(* before arrives (LogoutStays).                                            *)
THEOREM LogoutHolds == Spec => []LogoutStays
<1>1. LoggedOut => LogoutStays
  BY DEF LoggedOut, LogoutStays, Harmless
<1> QED BY <1>1, WholeHolds, PTL

------------------------------------------------------------------------------
(* While nothing ends the session.                                          *)

(* A request on its way that cannot end the session: it is no logout, and   *)
(* what it was sent with, and what it will set, can be refreshed.           *)
Lasting(c) == /\ c.kind # "logout"
              /\ c.sent.refresh > lapsed
              /\ c.status = "401" => c.sent.access = None
              /\ \A k \in c.sets : k.refresh > lapsed

(* Those sent since the sign-in are all like that; the others end the calm  *)
(* if their replies take the session away.                                  *)
Undisturbed == /\ calm.early \subseteq InFlight
               /\ calm.yes => /\ session /\ jar.refresh > lapsed
                              /\ \A r \in InFlight \ calm.early : Lasting(call[r])

(* Only a sign-in's reply begins the calm, when it leaves the browser with  *)
(* a session; what is in flight then came before.                           *)
LEMMA CalmStep ==
    ASSUME IInv, Undisturbed, NEW r \in Requests, RequestStep(r)
    PROVE  /\ calm'.early \subseteq calm.early \cup (InFlight \ {r})
           /\ Arrive(r) \/ ReplyLost(r) => r \notin calm'.early
           /\ calm'.yes =>
                \/ /\ calm.yes
                   /\ calm'.early = calm.early \ (IF Arrive(r) \/ ReplyLost(r) THEN {r} ELSE {})
                   /\ session'
                   /\ r \in calm.early /\ Arrive(r) => jar'.refresh > lapsed
                \/ /\ ~calm.yes /\ Arrive(r)
                   /\ calm'.early = InFlight \ {r}
                   /\ session' /\ jar'.refresh > lapsed
<1>0. calm \in [yes : BOOLEAN, early : SUBSET Requests] /\ (calm.yes => session /\ jar.refresh > lapsed)
  BY DEF IInv, TypeOK, Undisturbed
<1>1. CASE Arrive(r)
  <2>1. calm' = CalmAfter(r) /\ session' = session
    BY <1>1 DEF Arrive
  <2> QED BY <1>0, <1>1, <2>1 DEF CalmAfter, Disturbed
<1>2. CASE ReplyLost(r)
  BY <1>0, <1>2 DEF ReplyLost
<1>3. CASE Revoke(r)
  <2>1. ~Arrive(r) /\ ~ReplyLost(r)
    BY <1>3 DEF Revoke, Arrive, ReplyLost, At
  <2> QED BY <1>0, <1>3, <2>1 DEF Revoke, Disturbed
<1>4. CASE Grant(r)
  <2>1. ~Arrive(r) /\ ~ReplyLost(r)
    BY <1>4 DEF Grant, Arrive, ReplyLost, At
  <2> QED BY <1>0, <1>4, <2>1 DEF Grant
<1>5. CASE \/ SignIn(r) \/ Refuse(r) \/ Logout(r) \/ Click(r) \/ Forward(r)
           \/ Refresh(r) \/ RefreshDenied(r) \/ RefreshThrows(r) \/ Retry(r)
  <2>1. ~Arrive(r) /\ ~ReplyLost(r)
    BY <1>5 DEF SignIn, Refuse, Logout, Click, Forward, Refresh, RefreshDenied, RefreshThrows,
                Retry, Send, Arrive, ReplyLost, At
  <2>2. calm' \in {calm, Disturbed} /\ session' = session
    BY <1>5 DEF SignIn, Refuse, Logout, Click, Forward, Refresh, RefreshDenied, RefreshThrows,
                Retry
  <2> QED BY <1>0, <2>1, <2>2 DEF Disturbed
<1> QED BY <1>1, <1>2, <1>3, <1>4, <1>5 DEF RequestStep

LEMMA UndisturbedStep == IInv /\ AllWhole /\ Undisturbed /\ [Next]_vars => Undisturbed'
<1> SUFFICES ASSUME IInv, AllWhole, Undisturbed, [Next]_vars PROVE Undisturbed'
  OBVIOUS
<1>0. /\ call \in [Requests -> Calls] /\ signed \in Nat /\ lapsed \in Nat /\ lapsed <= signed
      /\ jar.refresh \in Nat /\ calm.early \subseteq InFlight
      /\ \A r \in Requests : /\ Whole(call[r], signed)
                             /\ call[r].sent.refresh \in Nat
                             /\ \A k \in call[r].sets : k.refresh \in Nat
      /\ Idle.at = "idle"
  <2>1. call \in [Requests -> Calls]
    BY DEF IInv, TypeOK, Calls
  <2> QED BY <2>1, SignedGrows DEF AllWhole, Idle, Calls, Cookies, Tokens, None, Undisturbed
<1>1. ASSUME NEW r \in Requests, RequestStep(r)
      PROVE  Undisturbed'
  <2>1. PICK d \in Calls :
           /\ call' = [call EXCEPT ![r] = d]
           /\ \/ d = Idle /\ (Arrive(r) \/ ReplyLost(r))
              \/ Sent(call[r], d) /\ UNCHANGED <<jar, session>>
              \/ GoesOn(r, d) /\ UNCHANGED jar
    BY <1>1, RequestGoes
  <2>2. UNCHANGED lapsed
    BY <1>1 DEF RequestStep, SignIn, Grant, Refuse, Logout, Revoke, Click, Forward, Refresh,
                RefreshDenied, RefreshThrows, Retry, Arrive, ReplyLost, clocks
  <2>3. calm'.early \subseteq InFlight'
    <3>1. \A q \in Requests : q # r => call'[q] = call[q]
      BY <1>0, <2>1
    <3>2. d = Idle \/ call'[r].at # "idle"
      BY <1>0, <2>1 DEF Sent, GoesOn
    <3>3. calm'.early \subseteq calm.early \cup (InFlight \ {r})
          /\ (Arrive(r) \/ ReplyLost(r) => r \notin calm'.early)
      BY <1>1, CalmStep
    <3>4. calm'.early \subseteq InFlight
      BY <1>0, <3>3
    <3>5. r \in calm'.early => call'[r].at # "idle"
      BY <1>0, <2>1, <3>2, <3>3 DEF Sent, GoesOn
    <3> QED BY <3>1, <3>4, <3>5 DEF InFlight, At
  <2>4. ASSUME calm'.yes
        PROVE  /\ session' /\ jar'.refresh > lapsed'
               /\ \A q \in InFlight' \ calm'.early : Lasting(call[q])'
    <3>1. CASE ~calm.yes
      <4>1. Arrive(r) /\ calm'.early = InFlight \ {r} /\ session' /\ jar'.refresh > lapsed
        BY <1>1, <2>4, <3>1, CalmStep
      <4>2. d = Idle
        BY <2>1, <4>1 DEF Arrive, At, Sent, GoesOn
      <4>3. InFlight' = InFlight \ {r}
        BY <1>0, <2>1, <4>2 DEF InFlight, At
      <4> QED BY <2>2, <4>1, <4>3
    <3>2. CASE calm.yes
      <4>1. /\ calm'.early = calm.early \ (IF Arrive(r) \/ ReplyLost(r) THEN {r} ELSE {})
            /\ session'
            /\ r \in calm.early /\ Arrive(r) => jar'.refresh > lapsed
        BY <1>1, <2>4, <3>2, CalmStep
      <4>2. /\ session /\ jar.refresh > lapsed
            /\ \A q \in InFlight \ calm.early : Lasting(call[q])
        BY <3>2 DEF Undisturbed
      <4>3. ASSUME NEW q \in InFlight' \ calm'.early, q # r
            PROVE  Lasting(call[q])'
        <5>1. q \in Requests /\ call'[q] = call[q]
          BY <1>0, <2>1, <4>3 DEF InFlight
        <5>2. q \in InFlight \ calm.early
          BY <4>1, <4>3, <5>1 DEF InFlight, At
        <5> QED BY <2>2, <4>2, <5>1, <5>2 DEF Lasting
      <4>4. CASE d = Idle /\ (Arrive(r) \/ ReplyLost(r))
        <5>1. r \notin InFlight'
          BY <1>0, <2>1, <4>4 DEF InFlight, At
        <5>2. jar'.refresh > lapsed
          <6>1. jar' \in {jar} \cup call[r].sets /\ r \in InFlight
            BY <4>4, JarGoes DEF InFlight, At
          <6>2. CASE r \in calm.early
            <7>1. Arrive(r) \/ jar' = jar
              BY <4>4 DEF ReplyLost
            <7> QED BY <4>1, <4>2, <6>2, <7>1
          <6>3. CASE r \notin calm.early
            BY <4>2, <6>1, <6>3 DEF Lasting
          <6> QED BY <6>2, <6>3
        <5> QED BY <2>2, <4>1, <4>3, <5>1, <5>2
      <4>5. CASE Sent(call[r], d) /\ UNCHANGED <<jar, session>>
        <5>1. Lasting(d)
          BY <2>4, <4>2, <4>5 DEF Sent, Lasting
        <5>2. Lasting(call[r])'
          BY <1>0, <2>1, <2>2, <5>1 DEF Lasting
        <5> QED BY <2>2, <4>1, <4>2, <4>3, <4>5, <5>2
      <4>6. CASE GoesOn(r, d) /\ UNCHANGED jar
        <5>1. ~(Arrive(r) \/ ReplyLost(r)) /\ r \in InFlight
          BY <4>6 DEF GoesOn, Arrive, ReplyLost, InFlight, At
        <5>2. ASSUME r \notin calm.early PROVE Lasting(call[r])'
          <6>1. Lasting(call[r])
            BY <4>2, <5>1, <5>2
          <6>2. MayRefresh(call[r].sent.refresh)
            BY <4>2, <6>1 DEF MayRefresh, Lasting
          <6>3. d.kind = call[r].kind /\ d.sent = call[r].sent
                /\ d.status # "401" /\ \A k \in d.sets : k.refresh >= call[r].sent.refresh
            BY <2>4, <4>6, <5>2, <6>1, <6>2 DEF GoesOn, Lasting
          <6>4. \A k \in d.sets : k.refresh \in Nat
            BY DEF Calls, Cookies, Tokens, None
          <6>5. Lasting(d)
            BY <1>0, <6>1, <6>3, <6>4 DEF Lasting
          <6> QED BY <1>0, <2>1, <2>2, <6>5 DEF Lasting
        <5>3. calm'.early = calm.early
          BY <4>1, <5>1
        <5> QED BY <2>2, <4>1, <4>2, <4>3, <4>6, <5>2, <5>3
      <4> QED BY <2>1, <4>4, <4>5, <4>6
    <3> QED BY <3>1, <3>2
  <2> QED BY <2>3, <2>4 DEF Undisturbed
<1>2. CASE RefreshExpires
  <2>1. /\ lapsed' = lapsed + 1 /\ calm' \in {calm, Disturbed}
        /\ UNCHANGED <<jar, session, call>>
    BY <1>2 DEF RefreshExpires
  <2>2. InFlight' = InFlight
    BY <2>1 DEF InFlight, At
  <2>3. CASE calm' = Disturbed
    BY <2>3 DEF Undisturbed, Disturbed
  <2>4. CASE calm' = calm /\ calm.yes /\ calm # Disturbed
    <3>1. /\ jar.refresh > lapsed'
          /\ \A r \in InFlight \ calm.early : call[r].sent.refresh # lapsed'
      BY <1>2, <2>4 DEF RefreshExpires
    <3>2. ASSUME NEW r \in InFlight \ calm.early PROVE Lasting(call[r])'
      <4>1. Lasting(call[r]) /\ r \in Requests
        BY <2>4 DEF Undisturbed, InFlight
      <4>2. call[r].sent.refresh > lapsed'
        BY <1>0, <2>1, <3>1, <4>1 DEF Lasting
      <4>3. \A k \in call[r].sets : k = Empty \/ k.refresh >= call[r].sent.refresh
        BY <1>0, <4>1 DEF Whole
      <4>4. \A k \in call[r].sets : k.refresh > lapsed'
        BY <1>0, <2>1, <4>1, <4>2, <4>3 DEF Lasting, Empty, None
      <4> QED BY <2>1, <4>1, <4>2, <4>4 DEF Lasting
    <3> QED BY <2>1, <2>2, <2>4, <3>1, <3>2 DEF Undisturbed
  <2>5. CASE calm' = calm /\ ~calm.yes
    BY <2>2, <2>5 DEF Undisturbed
  <2> QED BY <2>1, <2>3, <2>4, <2>5
<1>3. CASE AccessCookieAges
  BY <1>3 DEF AccessCookieAges, Undisturbed, InFlight, At, Lasting, clocks, IInv, TypeOK, Cookies
<1>4. CASE RefreshCookieAges
  BY <1>0, <1>4 DEF RefreshCookieAges, Undisturbed, InFlight, At
<1>5. CASE OtherLogsOut
  BY <1>5 DEF OtherLogsOut, Undisturbed, Disturbed
<1>6. CASE OtherSignsIn \/ AccessExpires \/ UNCHANGED vars
  BY <1>6 DEF OtherSignsIn, AccessExpires, vars, clocks, Undisturbed, InFlight, At, Lasting
<1> QED
  BY <1>1, <1>2, <1>3, <1>4, <1>5, <1>6 DEF Next, Clock

(* A browser that signed in keeps its session, and is told 401 only when    *)
(* its access cookie had aged away, until somebody logs out, the refresh    *)
(* token expires or a refresh fails, or the reply to a request that it had  *)
(* sent before it was signed in takes the cookies away (SignedInStays).     *)
THEOREM SignedInHolds == Spec => []SignedInStays
<1>1. Init => Undisturbed
  BY DEF Init, Undisturbed, Disturbed
<1>2. IInv /\ AllWhole /\ Undisturbed => SignedInStays
  <2> SUFFICES ASSUME IInv, AllWhole, Undisturbed, calm.yes,
                      NEW r \in Requests \ calm.early, call[r].status = "401"
               PROVE  call[r].sent.access = None
    BY DEF SignedInStays, Undisturbed
  <2>1. r \in InFlight \ calm.early
    BY DEF AllWhole, Whole, InFlight, At, Idle
  <2> QED BY <2>1 DEF Undisturbed, Lasting
<1>3. Spec => [](IInv /\ AllWhole /\ Undisturbed)
  BY <1>1, WholeHolds, UndisturbedStep, PTL DEF Spec
<1> QED BY <1>2, <1>3, PTL

==============================================================================
