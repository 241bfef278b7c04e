----------------------------- MODULE WebSession ------------------------------
(***************************************************************************)
(* One browser's session (apps/web): two cookies that sign-ins, the API    *)
(* proxy and logouts set or clear with replies that arrive in any order,   *)
(* the proxy's refresh and retry, and the account's session in the API,    *)
(* which other devices begin and end too.  Tabs share the cookies, so a    *)
(* request may start at any time.  Access tokens are numbered as they are  *)
(* signed; a refresh token bears the number of the sign-in that signed it. *)
(***************************************************************************)
EXTENDS Naturals, FiniteSets

CONSTANTS Requests,    \* slots for requests of the browser's tabs in flight
          MaxTokens,   \* access tokens signed for this browser in all
          MaxOutages   \* failed calls from the web server to the API in all

ASSUME SessionAssumption == MaxTokens \in Nat /\ MaxOutages \in Nat

None == 0
Tokens == 1 .. MaxTokens
Cookies == [access : {None} \cup Tokens, refresh : {None} \cup Tokens]
Empty == [access |-> None, refresh |-> None]

VARIABLES jar,      \* the browser's cookies
          session,  \* is a refresh token's hash stored with the account?
          signed,   \* access tokens signed so far
          spent,    \* the access tokens that have expired: those up to this one
          lapsed,   \* the refresh tokens that have expired: those up to this one
          call,     \* each request: its cookies, where it is, its answer
          outages,  \* failed calls so far
          calm,     \* history: has nothing ended or disturbed the session
                    \* since this browser's sign-in, and which requests were
                    \* in flight when the browser was told of that?
          out       \* history: the requests that were in flight when the browser
                    \* was told of a logout, if nothing has signed it in since

vars == <<jar, session, signed, spent, lapsed, call, outages, calm, out>>
clocks == <<spent, lapsed>>

StillIn == [yes |-> FALSE, late |-> {}]
Disturbed == [yes |-> FALSE, early |-> {}]

(* sets: the cookies that the reply will set, if any; ran: how often the    *)
(* API has run the handler the request is for.                              *)
Idle == [kind |-> "none", at |-> "idle", sent |-> Empty, sets |-> {},
         status |-> "none", ran |-> 0]

Kinds == {"none", "signIn", "logout", "api"}
Places == {"idle", "nest", "refresh", "retry", "reply"}

TypeOK == /\ jar \in Cookies /\ session \in BOOLEAN
          /\ signed \in 0 .. MaxTokens /\ spent \in 0 .. signed /\ lapsed \in 0 .. spent
          /\ call \in [Requests -> [kind : Kinds, at : Places, sent : Cookies,
                                    sets : SUBSET Cookies, ran : 0 .. 2,
                                    status : {"none", "ok", "401", "error"}]]
          /\ outages \in 0 .. MaxOutages
          /\ calm \in [yes : BOOLEAN, early : SUBSET Requests]
          /\ out \in [yes : BOOLEAN, late : SUBSET Requests]

Init == /\ jar = Empty /\ session = FALSE
        /\ signed = 0 /\ spent = 0 /\ lapsed = 0
        /\ call = [r \in Requests |-> Idle]
        /\ outages = 0
        /\ calm = Disturbed /\ out = StillIn

At(r, place) == call[r].at = place
InFlight == {r \in Requests : ~At(r, "idle")}

Send(r, kind, place) ==
    /\ At(r, "idle")
    /\ call' = [call EXCEPT ![r] = [Idle EXCEPT !.kind = kind, !.at = place, !.sent = jar]]

Answer(r, status, sets) ==
    call' = [call EXCEPT ![r].at = "reply", ![r].status = status, ![r].sets = sets]

Fail == outages < MaxOutages /\ outages' = outages + 1

(* getAccessToken reads the cookies the request came with; the API's guard  *)
(* verifies the token and nothing else.                                     *)
GuardAdmits(token) == token > spent

------------------------------------------------------------------------------
(* Signing in: /api/auth/login, 2fa-verify, verify-email, oauth-callback.   *)

SignIn(r) == /\ Send(r, "signIn", "nest")
             /\ UNCHANGED <<jar, session, signed, clocks, outages, calm, out>>

(* setAuthCookies. *)
AuthCookies(access, refresh) == {[access |-> access, refresh |-> refresh]}

(* The answer may be lost on its way to the web server: then nothing is set. *)
Grant(r) ==
    /\ At(r, "nest") /\ call[r].kind = "signIn"
    /\ signed < MaxTokens
    /\ signed' = signed + 1
    /\ session' = TRUE
    /\ \/ Answer(r, "ok", AuthCookies(signed', signed')) /\ UNCHANGED outages
       \/ Answer(r, "error", {}) /\ Fail
    /\ UNCHANGED <<jar, clocks, calm, out>>

(* A wrong password, code or link, a second factor to ask for, or no API. *)
Refuse(r) == /\ At(r, "nest") /\ call[r].kind = "signIn"
             /\ Answer(r, "error", {})
             /\ UNCHANGED <<jar, session, signed, clocks, outages, calm, out>>

------------------------------------------------------------------------------
(* /api/auth/logout.  Without an access cookie the API is not told.         *)

(* Without an access cookie there is nothing to log out of. *)
Logout_needsCookie(r) ==
    /\ At(r, "idle")
    /\ call' = [call EXCEPT ![r] =
         IF jar.access # None
         THEN [Idle EXCEPT !.kind = "logout", !.at = "nest", !.sent = jar]
         ELSE [Idle EXCEPT !.kind = "logout", !.at = "reply", !.sent = jar]]
    /\ calm' = Disturbed
    /\ UNCHANGED <<jar, session, signed, clocks, outages, out>>

Logout(r) ==
    /\ At(r, "idle")
    /\ call' = [call EXCEPT ![r] =
         IF jar.access # None
         THEN [Idle EXCEPT !.kind = "logout", !.at = "nest", !.sent = jar]
         ELSE [Idle EXCEPT !.kind = "logout", !.at = "reply", !.sent = jar, !.sets = {Empty}]]
    /\ calm' = Disturbed
    /\ UNCHANGED <<jar, session, signed, clocks, outages, out>>

(* Best effort: the cookies go whether or not the session is revoked. *)
Revoke(r) ==
    /\ At(r, "nest") /\ call[r].kind = "logout"
    /\ \/ GuardAdmits(call[r].sent.access) /\ session' = FALSE /\ UNCHANGED outages
       \/ ~GuardAdmits(call[r].sent.access) /\ UNCHANGED <<session, outages>>
       \/ Fail /\ session' \in {session, session /\ ~GuardAdmits(call[r].sent.access)}
    /\ calm' = IF session' THEN calm ELSE Disturbed
    /\ Answer(r, "ok", {Empty})
    /\ UNCHANGED <<jar, signed, clocks, out>>

------------------------------------------------------------------------------
(* The proxy.  A page's request, and what its handler may answer.           *)

Click(r) ==
    /\ IF jar.access # None
       THEN Send(r, "api", "nest")
       ELSE /\ At(r, "idle")
            /\ call' = [call EXCEPT ![r] = [Idle EXCEPT !.kind = "api", !.at = "reply",
                                                       !.sent = jar, !.status = "401"]]
    /\ UNCHANGED <<jar, session, signed, clocks, outages, calm, out>>

(* Any answer but a success is refreshed and tried again. *)
Forward_retriesErrors(r) ==
    /\ At(r, "nest") /\ call[r].kind = "api"
    /\ IF GuardAdmits(call[r].sent.access)
       THEN \/ /\ call' = [call EXCEPT ![r].at = "reply", ![r].status = "ok", ![r].ran = @ + 1]
               /\ UNCHANGED outages
            \/ /\ call' = [call EXCEPT ![r].at = "refresh", ![r].ran = @ + 1]
               /\ Fail
       ELSE call' = [call EXCEPT ![r].at = "refresh"] /\ UNCHANGED outages
    /\ UNCHANGED <<jar, session, signed, clocks, calm, out>>

(* A 401 comes from the guard, before any handler; every other answer, and  *)
(* a call that throws, is final.                                            *)
Forward(r) ==
    /\ At(r, "nest") /\ call[r].kind = "api"
    /\ IF GuardAdmits(call[r].sent.access)
       THEN \/ /\ call' = [call EXCEPT ![r].at = "reply", ![r].status = "ok", ![r].ran = @ + 1]
               /\ UNCHANGED outages
            \/ \E n \in {0, 1} :
                 /\ call' = [call EXCEPT ![r].at = "reply", ![r].status = "error", ![r].ran = @ + n]
                 /\ Fail
       ELSE call' = [call EXCEPT ![r].at = "refresh"] /\ UNCHANGED outages
    /\ UNCHANGED <<jar, session, signed, clocks, calm, out>>

(* refreshTokens: bcrypt compares what all tokens of a user have in common  *)
(* (Auth's BcryptReads), so any one of them that has not expired will do    *)
(* while a hash is stored, be it the hash of another device's token.        *)
MayRefresh(token) == token > lapsed /\ session

(* The refreshed access token is handed back alone. *)
Refresh_accessOnly(r) ==
    /\ At(r, "refresh") /\ MayRefresh(call[r].sent.refresh)
    /\ signed < MaxTokens
    /\ signed' = signed + 1
    /\ call' = [call EXCEPT ![r].at = "retry", ![r].sets = AuthCookies(signed', None)]
    /\ UNCHANGED <<jar, session, clocks, outages, calm, out>>

(* The refresh token comes back as it was: it is not rotated. *)
Refresh(r) ==
    /\ At(r, "refresh") /\ MayRefresh(call[r].sent.refresh)
    /\ signed < MaxTokens
    /\ signed' = signed + 1
    /\ call' = [call EXCEPT ![r].at = "retry",
                            ![r].sets = AuthCookies(signed', call[r].sent.refresh)]
    /\ UNCHANGED <<jar, session, clocks, outages, calm, out>>

(* tryRefresh gives null for any status but 200: the 401 is passed on, and  *)
(* the cookies are cleared, those of a sign-in since the request included.  *)
RefreshDenied(r) ==
    /\ At(r, "refresh")
    /\ \/ ~MayRefresh(call[r].sent.refresh) /\ UNCHANGED <<outages, calm>>
       \/ /\ call[r].sent.refresh # None /\ Fail
          /\ calm' = IF r \in calm.early THEN calm ELSE Disturbed
    /\ Answer(r, "401", {Empty})
    /\ UNCHANGED <<jar, session, signed, clocks, out>>

(* An exception becomes a 500 that sets no cookies. *)
RefreshThrows(r) ==
    /\ At(r, "refresh") /\ call[r].sent.refresh # None
    /\ Fail
    /\ Answer(r, "error", {})
    /\ UNCHANGED <<jar, session, signed, clocks, calm, out>>

(* Once more, with the token just signed. *)
Retry(r) ==
    /\ At(r, "retry")
    /\ \/ /\ call' = [call EXCEPT ![r].at = "reply", ![r].status = "ok", ![r].ran = @ + 1]
          /\ UNCHANGED outages
       \/ \E n \in {0, 1}, sets \in {{}, call[r].sets} :
            /\ call' = [call EXCEPT ![r].at = "reply", ![r].status = "error",
                                    ![r].ran = @ + n, ![r].sets = sets]
            /\ Fail
    /\ UNCHANGED <<jar, session, signed, clocks, calm, out>>

------------------------------------------------------------------------------
(* The browser applies a reply's cookies when the reply arrives.            *)

(* A reply that signs the browser in. *)
SignsIn(r) == call[r].kind = "signIn" /\ call[r].sets # {}

(* What is late for the sign-in are the replies to what was sent before it  *)
(* arrived: one may clear its cookies, or put back others that have expired. *)
CalmAfter(r) ==
    LET good == session /\ jar'.refresh > lapsed
    IN  IF SignsIn(r) /\ good /\ ~calm.yes
        THEN [yes |-> TRUE, early |-> InFlight \ {r}]
        ELSE IF r \in calm.early /\ ~good THEN Disturbed
        ELSE [calm EXCEPT !.early = @ \ {r}]

Arrive(r) ==
    /\ At(r, "reply")
    /\ jar' \in IF call[r].sets = {} THEN {jar} ELSE call[r].sets
    /\ call' = [call EXCEPT ![r] = Idle]
    /\ calm' = CalmAfter(r)
    /\ out' = IF call[r].kind = "logout"
              THEN [yes |-> TRUE, late |-> InFlight \ {r}]
              ELSE IF call[r].kind = "signIn" /\ call[r].sets # {} THEN StillIn
              ELSE IF r \in out.late /\ call[r].sets \ {Empty} # {} THEN StillIn
              ELSE [out EXCEPT !.late = @ \ {r}]
    /\ UNCHANGED <<session, signed, clocks, outages>>

(* The connection breaks, or the tab is closed. *)
ReplyLost(r) ==
    /\ At(r, "reply")
    /\ call' = [call EXCEPT ![r] = Idle]
    /\ out' = [out EXCEPT !.late = @ \ {r}]
    /\ calm' = [calm EXCEPT !.early = @ \ {r}]
    /\ UNCHANGED <<jar, session, signed, clocks, outages>>

------------------------------------------------------------------------------
(* Time.  Tokens expire in the order of signing; a retry takes less than    *)
(* the quarter of an hour a token lives.  A cookie's age counts from its    *)
(* arrival, so that it is dropped after the token in it has expired, and    *)
(* a refresh token outlives the access token signed with it.                *)

AccessExpires == /\ spent < signed
                 /\ \A r \in Requests : At(r, "retry") =>
                       \A c \in call[r].sets : c.access > spent + 1
                 /\ spent' = spent + 1
                 /\ UNCHANGED <<jar, session, signed, lapsed, call, outages, calm, out>>

AccessCookieAges == /\ jar.access # None /\ jar.access <= spent
                    /\ jar' = [jar EXCEPT !.access = None]
                    /\ UNCHANGED <<session, signed, clocks, call, outages, calm, out>>

RefreshExpires == /\ lapsed < spent
                  /\ lapsed' = lapsed + 1
                  /\ calm' = IF /\ jar.refresh > lapsed'
                                /\ \A r \in InFlight \ calm.early :
                                      call[r].sent.refresh # lapsed'
                             THEN calm ELSE Disturbed
                  /\ UNCHANGED <<jar, session, signed, spent, call, outages, out>>

RefreshCookieAges == /\ jar.refresh # None /\ jar.refresh <= lapsed
                     /\ jar' = [jar EXCEPT !.refresh = None]
                     /\ UNCHANGED <<session, signed, clocks, call, outages, calm, out>>

(* The account's other devices sign in and out. *)
OtherSignsIn == /\ ~session /\ session' = TRUE
                /\ UNCHANGED <<jar, signed, clocks, call, outages, calm, out>>

OtherLogsOut == /\ session /\ session' = FALSE
                /\ calm' = Disturbed
                /\ UNCHANGED <<jar, signed, clocks, call, outages, out>>

------------------------------------------------------------------------------
RequestStep(r) == \/ SignIn(r) \/ Grant(r) \/ Refuse(r)
                  \/ Logout(r) \/ Revoke(r)
                  \/ Click(r) \/ Forward(r)
                  \/ Refresh(r) \/ RefreshDenied(r) \/ RefreshThrows(r) \/ Retry(r)
                  \/ Arrive(r) \/ ReplyLost(r)

Clock == AccessExpires \/ AccessCookieAges \/ RefreshExpires \/ RefreshCookieAges

Next == (\E r \in Requests : RequestStep(r)) \/ Clock \/ OtherSignsIn \/ OtherLogsOut

Spec == Init /\ [][Next]_vars

------------------------------------------------------------------------------
(* Properties. *)

(* A browser that signed in keeps what its session rests on, and is told    *)
(* 401 only when its access cookie had aged away before it asked, until     *)
(* somebody logs out, the refresh token expires or a refresh fails: in      *)
(* whatever order panels refresh and replies arrive, no reply to a request  *)
(* sent since the sign-in's own reply takes the session away.  A reply to a *)
(* request from before may: the proxy clears the cookies when the refresh   *)
(* token that came with the request is no longer any good (route.ts:35),    *)
(* and does not know of a sign-in meanwhile.                                *)
SignedInStays ==
    calm.yes => /\ session /\ jar.refresh > lapsed
                /\ \A r \in Requests \ calm.early :
                      call[r].status = "401" => call[r].sent.access = None

(* Once the browser has been told of a logout it has no cookies until it    *)
(* signs in again or a reply to a request from before arrives, and what it  *)
(* asks in the meantime is not executed.                                    *)
LogoutStays ==
    out.yes => /\ jar = Empty
               /\ \A r \in InFlight \ out.late : call[r].kind = "api" => call[r].ran = 0

(* A page's request is executed at most once, however often the proxy has   *)
(* to ask: what is tried again is only what the guard had refused.          *)
ExecutedOnce == \A r \in Requests : call[r].ran <= 1

==============================================================================
