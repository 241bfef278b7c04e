-------------------------------- MODULE Auth ---------------------------------
(***************************************************************************)
(* Signing in (AuthService): registration and its link, password and       *)
(* Google sign-in, the second factor, sessions and their refresh.  One     *)
(* account: nothing but unique columns relates two of them.  Every request *)
(* decides by what it read and writes later; the values it draws at random *)
(* (links, tokens, secrets, codes) are numbered in the order of drawing.   *)
(***************************************************************************)
EXTENDS Naturals, FiniteSets

CONSTANTS Requests,      \* slots for requests in flight at the same time
          BackupCodes,   \* backup codes drawn at a time (8 in the code)
          MaxDraws       \* random values drawn in all

ASSUME AuthAssumption == BackupCodes \in Nat /\ MaxDraws \in Nat

Null == 0
Nonces == 1 .. MaxDraws

VARIABLES user,        \* the User row; session: whose hash hashedRefreshToken is
          challenges,  \* Redis: pending two-factor challenges
          stash,       \* Redis: OAuth codes and the tokens behind them
          drawn,       \* how many random values have been drawn
          told,        \* what mails, redirects and replies have told the user
          clients,     \* refresh tokens that browsers have been given
          call,        \* what each request does next, and what it has read
          used, reused,  \* history: one-time values accepted once, and again
          contested,   \* history: accepted while another request held them
          loggedOut,   \* history: how many values had been drawn at the last logout
          confirmed,   \* history: the secret the second factor was enabled with
          upset        \* history: has a setup or disabling overlapped an enabling,
                       \* or a setup hit an active factor, since the last setup?

redis == <<challenges, stash>>
onetime == <<used, reused, contested>>
factor == <<confirmed, upset>>
vars == <<user, redis, drawn, told, clients, call, onetime, loggedOut, factor>>

Steps == {"create", "mail", "relink", "mark", "byEmail", "link", "createGoogle",
          "challenge", "session", "stash", "take", "enable", "user", "consume",
          "disable", "spend"}
Ops == {"register", "resend", "verifyEmail", "login", "google", "exchange",
        "enable", "disable", "verify"}

(* item: what the request presents or has drawn; code: a backup code, or    *)
(* the token of an exchange; codes: the backup codes it has read; on: the   *)
(* second factor was on when it came and has been since.                    *)
Idle == [op |-> "none", next |-> "idle", item |-> Null, code |-> Null,
         codes |-> {}, on |-> FALSE]

Init == /\ user = [exists |-> FALSE, password |-> FALSE, google |-> FALSE,
                   verified |-> FALSE, link |-> Null, session |-> Null,
                   enabled |-> FALSE, secret |-> Null, backup |-> {}]
        /\ challenges = {} /\ stash = {}
        /\ drawn = 0
        /\ told = {} /\ clients = {}
        /\ call = [r \in Requests |-> Idle]
        /\ used = {} /\ reused = {} /\ contested = {}
        /\ loggedOut = 0
        /\ confirmed = Null /\ upset = FALSE

At(r, next) == call[r].next = next
Arrive(r, op, next, item) ==
    /\ At(r, "idle")
    /\ call' = [call EXCEPT ![r] = [Idle EXCEPT !.op = op, !.next = next,
                                               !.item = item, !.on = user.enabled]]
Goto(r, next) == call' = [call EXCEPT ![r].next = next]
Done(r) == call' = [call EXCEPT ![r] = Idle]

(* A fresh random value. *)
Fresh == drawn + 1
Draw(n) == drawn + n <= MaxDraws /\ drawn' = drawn + n

(* A one-time value is accepted; rivals are the requests that hold it too. *)
Accept(x, rivals) ==
    /\ used' = used \cup {x}
    /\ reused' = IF x \in used THEN reused \cup {x} ELSE reused
    /\ contested' = IF rivals # {} THEN contested \cup {x} ELSE contested

(* The password or Google is proved; what is left is the second factor. *)
SecondStep == IF user.enabled THEN "challenge" ELSE "session"

------------------------------------------------------------------------------
(* register, resendVerification, verifyEmail. *)

Register(r) == /\ ~user.exists
               /\ Arrive(r, "register", "create", Null)
               /\ UNCHANGED <<user, redis, drawn, told, clients, onetime, loggedOut, factor>>

(* A unique index refuses a second row for the email. *)
CreateUser(r) ==
    /\ At(r, "create") /\ ~user.exists
    /\ Draw(1)
    /\ user' = [user EXCEPT !.exists = TRUE, !.password = TRUE, !.link = Fresh]
    /\ call' = [call EXCEPT ![r].next = "mail", ![r].item = Fresh]
    /\ UNCHANGED <<redis, told, clients, onetime, loggedOut, factor>>

(* A mail that fails is logged, and the request succeeds. *)
SendMail(r) ==
    /\ At(r, "mail")
    /\ told' \in {told, told \cup {call[r].item}}
    /\ Done(r)
    /\ UNCHANGED <<user, redis, drawn, clients, onetime, loggedOut, factor>>

ResendVerification(r) ==
    /\ user.exists /\ ~user.verified
    /\ Arrive(r, "resend", "relink", Null)
    /\ UNCHANGED <<user, redis, drawn, told, clients, onetime, loggedOut, factor>>

Relink(r) ==
    /\ At(r, "relink")
    /\ Draw(1)
    /\ user' = [user EXCEPT !.link = Fresh]
    /\ call' = [call EXCEPT ![r].next = "mail", ![r].item = Fresh]
    /\ UNCHANGED <<redis, told, clients, onetime, loggedOut, factor>>

FindLink(r, x) ==
    /\ x \in told /\ user.link = x
    /\ Arrive(r, "verifyEmail", "mark", x)
    /\ UNCHANGED <<user, redis, drawn, told, clients, onetime, loggedOut, factor>>

MarkVerified(r) ==
    /\ At(r, "mark")
    /\ user' = [user EXCEPT !.verified = TRUE, !.link = Null]
    /\ Accept(call[r].item, {q \in Requests \ {r} : At(q, "mark") /\ call[q].item = call[r].item})
    /\ Goto(r, "session")
    /\ UNCHANGED <<redis, drawn, told, clients, loggedOut, factor>>

------------------------------------------------------------------------------
(* login and findOrCreateGoogleUser. *)

Login(r) ==
    /\ user.exists /\ user.password /\ user.verified
    /\ Arrive(r, "login", SecondStep, Null)
    /\ UNCHANGED <<user, redis, drawn, told, clients, onetime, loggedOut, factor>>

FindGoogle(r) ==
    /\ Arrive(r, "google", IF user.google THEN SecondStep ELSE "byEmail", Null)
    /\ UNCHANGED <<user, redis, drawn, told, clients, onetime, loggedOut, factor>>

FindByEmail(r) ==
    /\ At(r, "byEmail")
    /\ Goto(r, IF user.exists THEN "link" ELSE "createGoogle")
    /\ UNCHANGED <<user, redis, drawn, told, clients, onetime, loggedOut, factor>>

(* A linked account is signed in without its second factor. *)
LinkGoogle_skipsFactor(r) ==
    /\ At(r, "link")
    /\ user' = [user EXCEPT !.google = TRUE, !.verified = TRUE]
    /\ Goto(r, "session")
    /\ UNCHANGED <<redis, drawn, told, clients, onetime, loggedOut, factor>>

LinkGoogle(r) ==
    /\ At(r, "link")
    /\ user' = [user EXCEPT !.google = TRUE, !.verified = TRUE]
    /\ Goto(r, SecondStep)
    /\ UNCHANGED <<redis, drawn, told, clients, onetime, loggedOut, factor>>

CreateGoogle(r) ==
    /\ At(r, "createGoogle") /\ ~user.exists
    /\ user' = [user EXCEPT !.exists = TRUE, !.google = TRUE, !.verified = TRUE]
    /\ Goto(r, "session")
    /\ UNCHANGED <<redis, drawn, told, clients, onetime, loggedOut, factor>>

CreateChallenge(r) ==
    /\ At(r, "challenge")
    /\ Draw(1)
    /\ challenges' = challenges \cup {Fresh}
    /\ told' = told \cup {Fresh}
    /\ Done(r)
    /\ UNCHANGED <<user, stash, clients, onetime, loggedOut, factor>>

(* Tokens are signed and the hash of the refresh token is stored.  Google   *)
(* sign-in hands them over by a code in its redirect.                       *)
HandOver(r) ==
    IF call[r].op = "google"
    THEN /\ call' = [call EXCEPT ![r].next = "stash", ![r].item = Fresh]
         /\ UNCHANGED clients
    ELSE /\ clients' = clients \cup {Fresh}
         /\ Done(r)

(* The hash is not stored. *)
StoreSession_onlyTokens(r) ==
    /\ At(r, "session")
    /\ Draw(1)
    /\ HandOver(r)
    /\ UNCHANGED <<user, redis, told, onetime, loggedOut, factor>>

StoreSession(r) ==
    /\ At(r, "session")
    /\ Draw(1)
    /\ user' = [user EXCEPT !.session = Fresh]
    /\ HandOver(r)
    /\ UNCHANGED <<redis, told, onetime, loggedOut, factor>>

IssueOAuthCode(r) ==
    /\ At(r, "stash")
    /\ Draw(1)
    /\ stash' = stash \cup {[code |-> Fresh, token |-> call[r].item]}
    /\ told' = told \cup {Fresh}
    /\ Done(r)
    /\ UNCHANGED <<user, challenges, clients, onetime, loggedOut, factor>>

ExchangeOAuthCode(r, s) ==
    /\ s \in stash /\ At(r, "idle")
    /\ call' = [call EXCEPT ![r] = [Idle EXCEPT !.op = "exchange", !.next = "take",
                                               !.item = s.code, !.code = s.token]]
    /\ UNCHANGED <<user, redis, drawn, told, clients, onetime, loggedOut, factor>>

TakeTokens(r) ==
    /\ At(r, "take")
    /\ stash' = {s \in stash : s.code # call[r].item}
    /\ Accept(call[r].item, {q \in Requests \ {r} : At(q, "take") /\ call[q].item = call[r].item})
    /\ clients' = clients \cup {call[r].code}
    /\ Done(r)
    /\ UNCHANGED <<user, challenges, drawn, told, loggedOut, factor>>

------------------------------------------------------------------------------
(* Sessions.  An access token outlives its logout by up to 15 minutes.     *)

SignedIn == clients # {}

Logout == /\ SignedIn
          /\ user' = [user EXCEPT !.session = Null]
          /\ loggedOut' = drawn
          /\ UNCHANGED <<redis, drawn, told, clients, call, onetime, factor>>

(* What bcrypt reads of a token when it hashes or compares it: 72 bytes,    *)
(* and those of a signed token are its header and the start of the user's   *)
(* id, the same for every token of the user.                                *)
BcryptReads(token) == "header and start of the user id"

(* bcrypt.compare with the stored hash, of which there is one per user.     *)
MayRefresh(t) == /\ user.session # Null
                 /\ BcryptReads(t) = BcryptReads(user.session)

(* Nothing is written; the token serves again. *)
RefreshTokens(t) == t \in clients /\ MayRefresh(t) /\ UNCHANGED vars

------------------------------------------------------------------------------
(* The second factor.  A six-digit code stands for the secret it is made   *)
(* from: whoever was shown the secret can give one.                        *)

SetupTwoFactor ==
    /\ SignedIn
    /\ Draw(1)
    /\ user' = [user EXCEPT !.secret = Fresh]
    /\ told' = told \cup {Fresh}
    /\ upset' = (user.enabled \/ \E r \in Requests : At(r, "enable"))
    /\ UNCHANGED <<redis, clients, call, onetime, loggedOut, confirmed>>

(* Any six digits will do. *)
EnableTwoFactor_anyCode(r, x) ==
    /\ SignedIn /\ user.secret # Null /\ x \in told
    /\ Arrive(r, "enable", "enable", x)
    /\ UNCHANGED <<user, redis, drawn, told, clients, onetime, loggedOut, factor>>

EnableTwoFactor(r, x) ==
    /\ SignedIn /\ x \in told /\ user.secret = x
    /\ Arrive(r, "enable", "enable", x)
    /\ UNCHANGED <<user, redis, drawn, told, clients, onetime, loggedOut, factor>>

WriteEnabled(r) ==
    LET codes == Fresh .. drawn + BackupCodes
    IN  /\ At(r, "enable")
        /\ Draw(BackupCodes)
        /\ user' = [user EXCEPT !.enabled = TRUE, !.backup = codes]
        /\ told' = told \cup codes
        /\ confirmed' = call[r].item
        /\ Done(r)
        /\ UNCHANGED <<redis, clients, onetime, loggedOut, upset>>

(* verifyAndConsumeCode up to its write: a code of the secret first, else a *)
(* backup code.                                                             *)
CheckCode(r, x, c, then) ==
    \/ /\ user.secret = x
       /\ call' = [call EXCEPT ![r] = [c EXCEPT !.next = then]]
    \/ /\ x \in user.backup
       /\ call' = [call EXCEPT ![r] = [c EXCEPT !.next = "consume", !.code = x,
                                               !.codes = user.backup]]

DisableTwoFactor(r, x) ==
    /\ SignedIn /\ x \in told /\ user.enabled
    /\ At(r, "idle")
    /\ CheckCode(r, x, [Idle EXCEPT !.op = "disable", !.on = TRUE], "disable")
    /\ UNCHANGED <<user, redis, drawn, told, clients, onetime, loggedOut, factor>>

(* The code stays on the list. *)
ConsumeCode_keeps(r) ==
    /\ At(r, "consume")
    /\ user' = [user EXCEPT !.backup = call[r].codes]
    /\ Accept(call[r].code, {q \in Requests \ {r} : At(q, "consume") /\ call[r].code \in call[q].codes})
    /\ Goto(r, IF call[r].op = "disable" THEN "disable" ELSE "spend")
    /\ UNCHANGED <<redis, drawn, told, clients, loggedOut, factor>>

(* The list is written back as it was read, without the code. *)
ConsumeCode(r) ==
    /\ At(r, "consume")
    /\ user' = [user EXCEPT !.backup = call[r].codes \ {call[r].code}]
    /\ Accept(call[r].code, {q \in Requests \ {r} : At(q, "consume") /\ call[r].code \in call[q].codes})
    /\ Goto(r, IF call[r].op = "disable" THEN "disable" ELSE "spend")
    /\ UNCHANGED <<redis, drawn, told, clients, loggedOut, factor>>

WriteDisabled(r) ==
    /\ At(r, "disable")
    /\ user' = [user EXCEPT !.enabled = FALSE, !.secret = Null, !.backup = {}]
    /\ call' = [q \in Requests |-> IF q = r THEN Idle ELSE [call[q] EXCEPT !.on = FALSE]]
    /\ upset' = (\E q \in Requests : At(q, "enable"))
    /\ UNCHANGED <<redis, drawn, told, clients, onetime, loggedOut, confirmed>>

(* verifyTwoFactorChallenge. *)
FindChallenge(r, x) ==
    /\ x \in challenges
    /\ Arrive(r, "verify", "user", x)
    /\ UNCHANGED <<user, redis, drawn, told, clients, onetime, loggedOut, factor>>

CheckChallenge(r, x) ==
    /\ At(r, "user") /\ x \in told
    /\ CheckCode(r, x, call[r], "spend")
    /\ UNCHANGED <<user, redis, drawn, told, clients, onetime, loggedOut, factor>>

SpendChallenge(r) ==
    /\ At(r, "spend")
    /\ challenges' = challenges \ {call[r].item}
    /\ Accept(call[r].item, {q \in Requests \ {r} : call[q].op = "verify" /\ call[q].item = call[r].item
                                                  /\ ~At(q, "session")})
    /\ Goto(r, "session")
    /\ UNCHANGED <<user, stash, drawn, told, clients, loggedOut, factor>>

------------------------------------------------------------------------------
(* A query rejects or the process dies; Redis drops what has expired.      *)

RequestFails(r) ==
    /\ ~At(r, "idle")
    /\ Done(r)
    /\ UNCHANGED <<user, redis, drawn, told, clients, onetime, loggedOut, factor>>

Expire == /\ \/ \E x \in challenges : challenges' = challenges \ {x} /\ UNCHANGED stash
             \/ \E s \in stash : stash' = stash \ {s} /\ UNCHANGED challenges
          /\ UNCHANGED <<user, drawn, told, clients, call, onetime, loggedOut, factor>>

AccountStep(r) ==
    \/ Register(r) \/ CreateUser(r) \/ SendMail(r)
    \/ ResendVerification(r) \/ Relink(r)
    \/ (\E x \in told : FindLink(r, x)) \/ MarkVerified(r)
    \/ Login(r) \/ FindGoogle(r) \/ FindByEmail(r) \/ LinkGoogle(r) \/ CreateGoogle(r)
    \/ CreateChallenge(r) \/ StoreSession(r) \/ IssueOAuthCode(r)
    \/ (\E s \in stash : ExchangeOAuthCode(r, s)) \/ TakeTokens(r)

FactorStep(r) ==
    \/ \E x \in told : EnableTwoFactor(r, x) \/ DisableTwoFactor(r, x) \/ CheckChallenge(r, x)
    \/ \E x \in challenges : FindChallenge(r, x)
    \/ WriteEnabled(r) \/ ConsumeCode(r) \/ WriteDisabled(r) \/ SpendChallenge(r)

Next == \/ \E r \in Requests : AccountStep(r) \/ FactorStep(r) \/ RequestFails(r)
        \/ Logout \/ SetupTwoFactor \/ Expire
        \/ \E t \in clients : RefreshTokens(t)

Spec == Init /\ [][Next]_vars

------------------------------------------------------------------------------
(* Properties. *)

Account == [exists : BOOLEAN, password : BOOLEAN, google : BOOLEAN, verified : BOOLEAN,
            link : Nonces \cup {Null}, session : Nonces \cup {Null},
            enabled : BOOLEAN, secret : Nonces \cup {Null}, backup : SUBSET Nonces]
Call == [op : Ops \cup {"none"}, next : Steps \cup {"idle"}, item : Nonces \cup {Null},
         code : Nonces \cup {Null}, codes : SUBSET Nonces, on : BOOLEAN]

(* Types of the row, of Redis and of the requests. *)
TypeOK == /\ user \in Account
          /\ challenges \subseteq Nonces
          /\ stash \subseteq [code : Nonces, token : Nonces]
          /\ drawn \in 0 .. MaxDraws /\ loggedOut \in 0 .. MaxDraws
          /\ \A s \in {told, clients, used, reused, contested} : s \subseteq Nonces
          /\ \A r \in Requests : call[r] \in Call
          /\ confirmed \in Nonces \cup {Null}
          /\ upset \in BOOLEAN

(* Who is about to be signed in has proved what the account asks: its      *)
(* email is verified, in whatever order registration, links and Google     *)
(* come; and by password or Google a code was given, if the second factor  *)
(* was on when the request came and stayed on: the row it decides by is    *)
(* never older than its arrival.  (The link asks for no second factor.)    *)
SignInsProven ==
    \A r \in Requests : At(r, "session") =>
       /\ user.verified
       /\ call[r].on => call[r].op \in {"verify", "verifyEmail"}

(* Links, OAuth codes, challenges and backup codes are good for one use:   *)
(* one that is accepted again was held by two requests when it was         *)
(* accepted first.                                                         *)
UsedOnce == reused \subseteq contested

(* An active second factor goes with the secret its owner has confirmed,   *)
(* unless the secret was set up anew, or disabled, in the middle of it.    *)
FactorUsable == user.enabled /\ ~upset => user.secret = confirmed

(* A browser can refresh the session it was given until somebody logs out,  *)
(* whichever sign-ins, refreshes and late exchanges come in between.  That  *)
(* is not what the code says of itself: a sign-in replaces the one hash     *)
(* there is (auth.service.ts:166, "Deliberately does NOT rotate the refresh *)
(* token here (only login/verifyEmail do, since those start a genuinely new *)
(* session)"), and a token that is not the one hashed is to be rejected     *)
(* (auth.service.spec.ts:256).  It holds because of BcryptReads alone: the  *)
(* earlier token passes for the later one.  Were whole tokens compared, a   *)
(* second sign-in would end the first.                                      *)
SessionLasts == \A t \in clients : t > loggedOut => MayRefresh(t)

==============================================================================
