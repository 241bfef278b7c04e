---------------------------- MODULE Auth_proofs -----------------------------
(***************************************************************************)
(* Theorems about Auth, for every set of requests, every number of backup  *)
(* codes and of random values.                                             *)
(***************************************************************************)
EXTENDS Auth, TLAPS

------------------------------------------------------------------------------
(* Type correctness. *)

(* The record of a request when n values have been drawn: what it holds has *)
(* been drawn, and it has what its next step uses.                          *)
Sound(c, n) ==
    /\ c \in Call
    /\ c.item <= n /\ c.code <= n /\ \A x \in c.codes : x <= n
    /\ c.next \in {"mail", "mark", "stash", "take", "enable", "user", "spend"} => c.item # Null
    /\ c.op = "verify" => c.item # Null /\ c.next \in {"user", "consume", "spend", "session"}
    /\ c.next = "mark" => c.op = "verifyEmail"
    /\ c.next = "take" => c.code # Null
    /\ c.next \in {"user", "spend"} => c.op = "verify"
    /\ c.next = "consume" => c.op \in {"verify", "disable"} /\ c.code \in c.codes

CallsTyped == /\ call \in [Requests -> Call]
              /\ \A r \in Requests : Sound(call[r], drawn)

RowTyped == /\ user \in Account
            /\ user.link <= drawn /\ user.secret <= drawn
            /\ \A x \in user.backup : x <= drawn

RestTyped ==
    /\ drawn \in 0 .. MaxDraws /\ loggedOut \in 0 .. drawn
    /\ told \subseteq 1 .. drawn /\ clients \subseteq 1 .. drawn
    /\ challenges \subseteq 1 .. drawn /\ stash \subseteq [code : 1 .. drawn, token : 1 .. drawn]
    /\ used \subseteq 1 .. drawn /\ reused \subseteq Nonces /\ contested \subseteq Nonces
    /\ confirmed \in Nonces \cup {Null} /\ upset \in BOOLEAN

Typed == RowTyped /\ CallsTyped /\ RestTyped

(* This is more than the type invariant asks. *)
LEMMA TypedTypes == Typed => TypeOK
<1> SUFFICES ASSUME Typed PROVE TypeOK
    OBVIOUS
<1>1. 0 .. drawn \subseteq 0 .. MaxDraws /\ 1 .. drawn \subseteq Nonces
    BY AuthAssumption DEF AuthAssumption, Typed, RestTyped, Nonces
<1>2. stash \subseteq [code : Nonces, token : Nonces]
    BY <1>1 DEF Typed, RestTyped
<1> QED
    BY <1>1, <1>2 DEF Typed, RowTyped, CallsTyped, RestTyped, TypeOK

LEMMA TypedInit == Init => Typed
<1> SUFFICES ASSUME Init PROVE Typed
    OBVIOUS
<1>1. Idle \in Call /\ Sound(Idle, 0)
    BY DEF Idle, Call, Sound, Null
<1>2. user \in Account /\ user.link = 0 /\ user.secret = 0 /\ user.backup = {}
    BY DEF Init, Account, Null
<1>3. drawn \in 0 .. MaxDraws /\ loggedOut \in 0 .. drawn
    BY AuthAssumption DEF AuthAssumption, Init
<1>4. RowTyped
    BY <1>2 DEF Init, RowTyped
<1>5. CallsTyped
    BY <1>1 DEF Init, CallsTyped
<1>6. RestTyped
    BY <1>3 DEF Init, RestTyped, Null
<1> QED
    BY <1>4, <1>5, <1>6 DEF Typed

(* What a request holds has been drawn, however much is drawn besides. *)
LEMMA SoundGrows ==
    ASSUME NEW n \in Nat, NEW m \in Nat, n <= m, NEW c, Sound(c, n)
    PROVE  Sound(c, m)
BY DEF Sound, Call, Nonces, Null

LEMMA DrawnNat ==
    Typed => drawn \in Nat /\ MaxDraws \in Nat /\ BackupCodes \in Nat /\ drawn <= MaxDraws
BY AuthAssumption DEF AuthAssumption, Typed, RestTyped

(* The token whose hash is stored is a value that was drawn. *)
LEMMA StoredToken ==
    ASSUME Typed, NEW r \in Requests, StoreSession(r)
    PROVE  /\ user' = [user EXCEPT !.session = Fresh] /\ Fresh \in Nonces
           /\ user'.session # Null
<1>1. drawn \in Nat /\ drawn + 1 <= MaxDraws /\ user' = [user EXCEPT !.session = Fresh]
    BY DrawnNat DEF StoreSession, Draw
<1>2. Fresh \in Nonces /\ Fresh # Null
    BY <1>1, DrawnNat DEF Fresh, Nonces, Null
<1>3. user'.session = Fresh
    BY <1>1 DEF Typed, RowTyped, Account
<1> QED
    BY <1>1, <1>2, <1>3

(* Values are drawn one after the other. *)
LEMMA DrawnGrows ==
    ASSUME Typed, [Next]_vars
    PROVE  drawn \in Nat /\ drawn' \in Nat /\ drawn <= drawn' /\ drawn' <= MaxDraws
<1>0. drawn \in Nat /\ drawn <= MaxDraws /\ BackupCodes \in Nat /\ MaxDraws \in Nat
    BY DrawnNat
<1> USE DEF Draw, onetime, factor, redis
<1>1. ASSUME NEW r \in Requests, AccountStep(r)
      PROVE  drawn' = drawn \/ Draw(1)
    BY <1>1 DEF AccountStep, Register, CreateUser, SendMail, ResendVerification, Relink, FindLink,
        MarkVerified, Login, FindGoogle, FindByEmail, LinkGoogle, CreateGoogle, CreateChallenge,
        StoreSession, IssueOAuthCode, ExchangeOAuthCode, TakeTokens
<1>2. ASSUME NEW r \in Requests, FactorStep(r) \/ RequestFails(r)
      PROVE  drawn' = drawn \/ Draw(BackupCodes)
    BY <1>2 DEF FactorStep, RequestFails, EnableTwoFactor, DisableTwoFactor, CheckChallenge,
        FindChallenge, WriteEnabled, ConsumeCode, WriteDisabled, SpendChallenge
<1>3. CASE Logout \/ SetupTwoFactor \/ Expire \/ UNCHANGED vars \/ \E t \in clients : RefreshTokens(t)
    <2>1. drawn' = drawn \/ Draw(1)
        BY <1>3 DEF Logout, SetupTwoFactor, Expire, RefreshTokens, vars
    <2> QED
        BY <1>0, <2>1
<1> QED
    BY <1>0, <1>1, <1>2, <1>3 DEF Next

(* A step that gives a new record to one request. *)
LEMMA CallTyped ==
    ASSUME Typed, NEW r \in Requests, NEW c, call' = [call EXCEPT ![r] = c],
           drawn' \in Nat, drawn <= drawn', Sound(c, drawn')
    PROVE  CallsTyped'
<1>1. \A q \in Requests : Sound(call[q], drawn')
    BY SoundGrows, DrawnNat DEF Typed, CallsTyped
<1> QED
    BY <1>1 DEF Typed, CallsTyped, Sound

LEMMA ArriveTyped ==
    ASSUME Typed, drawn' = drawn, NEW r \in Requests, NEW op \in Ops, NEW item \in 0 .. drawn,
           NEW next \in Steps \ {"stash", "take", "consume", "spend"},
           item = 0 => next \notin {"mail", "mark", "enable", "user"},
           op = "verify" <=> next = "user", next = "mark" => op = "verifyEmail",
           Arrive(r, op, next, item)
    PROVE  CallsTyped'
<1> DEFINE c == [Idle EXCEPT !.op = op, !.next = next, !.item = item, !.on = user.enabled]
<1>0. drawn' \in Nat /\ user.enabled \in BOOLEAN /\ item \in Nat /\ item <= drawn'
      /\ item \in Nonces \cup {Null}
    BY DrawnNat DEF Typed, RowTyped, Account, Null, Nonces
<1>1. Sound(c, drawn')
    <2>1. /\ c \in Call
          /\ c.op = op /\ c.next = next /\ c.item = item /\ c.code = 0 /\ c.codes = {}
        BY <1>0 DEF Idle, Call, Null
    <2> HIDE DEF c
    <2> QED
        BY <1>0, <2>1 DEF Sound, Null
<1> HIDE DEF c
<1>2. call' = [call EXCEPT ![r] = c]
    BY DEF Arrive, c
<1>3. drawn' \in Nat /\ drawn <= drawn'
    BY DrawnNat
<1> QED
    BY <1>1, <1>2, <1>3, CallTyped

LEMMA GotoTyped ==
    ASSUME Typed, drawn' = drawn, NEW r \in Requests,
           NEW next \in {"session", "challenge", "link", "createGoogle", "disable", "spend"},
           Goto(r, next),
           call[r].op = "verify" => next \in {"session", "spend"},
           next = "spend" => call[r].op = "verify"
    PROVE  CallsTyped'
<1> DEFINE c == [call[r] EXCEPT !.next = next]
<1>0. Sound(call[r], drawn')
    BY DEF Typed, CallsTyped
<1>1. Sound(c, drawn')
    <2>1. /\ c \in Call
          /\ c.op = call[r].op /\ c.next = next /\ c.item = call[r].item
          /\ c.code = call[r].code /\ c.codes = call[r].codes
        BY <1>0 DEF Sound, Call, Steps
    <2> HIDE DEF c
    <2> QED
        BY <1>0, <2>1 DEF Sound
<1> HIDE DEF c
<1>2. call' = [call EXCEPT ![r] = c]
    BY DEF Goto, c, Typed, CallsTyped
<1>3. drawn' \in Nat /\ drawn <= drawn'
    BY DrawnNat
<1> QED
    BY <1>1, <1>2, <1>3, CallTyped

(* A request goes on with a value it has drawn. *)
LEMMA KeepTyped ==
    ASSUME Typed, drawn' = drawn + 1, drawn' <= MaxDraws, NEW r \in Requests,
           NEW next \in {"mail", "stash"}, call[r].op # "verify",
           call' = [call EXCEPT ![r].next = next, ![r].item = Fresh]
    PROVE  CallsTyped'
<1> DEFINE c == [call[r] EXCEPT !.next = next, !.item = Fresh]
<1>0. /\ drawn \in Nat /\ drawn' \in Nat /\ drawn <= drawn' /\ Fresh = drawn'
      /\ Fresh \in Nonces /\ Fresh # 0
    BY DrawnNat DEF Fresh, Nonces
<1>1. Sound(call[r], drawn')
    BY <1>0, SoundGrows DEF Typed, CallsTyped
<1>2. Sound(c, drawn')
    <2>1. /\ c \in Call
          /\ c.op = call[r].op /\ c.next = next /\ c.item = drawn'
          /\ c.code = call[r].code /\ c.codes = call[r].codes
        BY <1>0, <1>1 DEF Sound, Call, Steps
    <2> HIDE DEF c
    <2> QED
        BY <1>0, <1>1, <2>1 DEF Sound, Null
<1> HIDE DEF c
<1>3. call' = [call EXCEPT ![r] = c]
    BY DEF c, Typed, CallsTyped
<1> QED
    BY <1>0, <1>2, <1>3, CallTyped

LEMMA DoneTyped ==
    ASSUME Typed, drawn' \in Nat, drawn <= drawn', NEW r \in Requests, Done(r)
    PROVE  CallsTyped'
<1>1. Sound(Idle, drawn')
    BY DEF Idle, Sound, Call, Null
<1> QED
    BY <1>1, CallTyped DEF Done

(* The next step of a request whose code has been looked at. *)
LEMMA CheckTyped ==
    ASSUME Typed, drawn' = drawn, NEW r \in Requests, NEW x \in told, NEW c, Sound(c, drawn'),
           NEW then \in {"disable", "spend"}, CheckCode(r, x, c, then),
           c.op = (IF then = "spend" THEN "verify" ELSE "disable")
    PROVE  CallsTyped'
<1>0. /\ drawn' \in Nat /\ drawn <= drawn'
      /\ x \in Nonces /\ x <= drawn' /\ user.backup \subseteq Nonces
      /\ \A y \in user.backup : y <= drawn'
    BY DrawnNat DEF Typed, RowTyped, RestTyped, Account, Nonces
<1>1. CASE call' = [call EXCEPT ![r] = [c EXCEPT !.next = then]]
    <2> DEFINE d == [c EXCEPT !.next = then]
    <2>1. /\ d \in Call /\ d.op = c.op /\ d.next = then /\ d.item = c.item
          /\ d.code = c.code /\ d.codes = c.codes
        BY DEF Sound, Call, Steps
    <2> HIDE DEF d
    <2>2. Sound(d, drawn')
        BY <2>1 DEF Sound, Null
    <2>3. call' = [call EXCEPT ![r] = d]
        BY <1>1 DEF d
    <2> QED
        BY <1>0, <2>2, <2>3, CallTyped
<1>2. CASE x \in user.backup /\ call' = [call EXCEPT ![r] =
              [c EXCEPT !.next = "consume", !.code = x, !.codes = user.backup]]
    <2> DEFINE d == [c EXCEPT !.next = "consume", !.code = x, !.codes = user.backup]
    <2>1. /\ d \in Call /\ d.op = c.op /\ d.next = "consume" /\ d.item = c.item
          /\ d.code = x /\ d.codes = user.backup
        BY <1>0 DEF Sound, Call, Steps
    <2> HIDE DEF d
    <2>2. Sound(d, drawn')
        BY <1>0, <1>2, <2>1 DEF Sound, Null
    <2>3. call' = [call EXCEPT ![r] = d]
        BY <1>2 DEF d
    <2> QED
        BY <1>0, <2>2, <2>3, CallTyped
<1> QED
    BY <1>1, <1>2 DEF CheckCode

(* What requests hold and do next stays sound. *)
LEMMA CallStep ==
    ASSUME Typed, [Next]_vars
    PROVE  CallsTyped'
<1>0. /\ drawn \in Nat /\ drawn' \in Nat /\ drawn <= drawn'
      /\ told \subseteq 1 .. drawn /\ challenges \subseteq 1 .. drawn
      /\ stash \subseteq [code : 1 .. drawn, token : 1 .. drawn]
      /\ \A r \in Requests : Sound(call[r], drawn)
    BY DrawnNat, DrawnGrows DEF Typed, RestTyped, CallsTyped
<1>1. ASSUME NEW r \in Requests, AccountStep(r)
      PROVE  CallsTyped'
  <2>1. CASE Register(r) \/ ResendVerification(r) \/ Login(r) \/ FindGoogle(r)
    BY <1>0, <2>1, ArriveTyped DEF Register, ResendVerification, Login, FindGoogle, SecondStep,
                                   Ops, Steps, Null
  <2>2. CASE CreateUser(r)
    BY <2>2, KeepTyped, <1>0 DEF CreateUser, Draw, At, Sound
  <2>3. CASE SendMail(r) \/ CreateChallenge(r)
    BY <1>0, <2>3, DoneTyped DEF SendMail, CreateChallenge
  <2>4. CASE Relink(r)
    BY <2>4, KeepTyped, <1>0 DEF Relink, Draw, At, Sound
  <2>5. ASSUME NEW x \in told, FindLink(r, x) PROVE CallsTyped'
    BY <1>0, <2>5, ArriveTyped DEF FindLink, Ops, Steps, Null
  <2>6. CASE MarkVerified(r)
    BY <2>6, GotoTyped DEF MarkVerified
  <2>7. CASE FindByEmail(r) \/ LinkGoogle(r) \/ CreateGoogle(r)
    BY <2>7, GotoTyped, <1>0 DEF FindByEmail, LinkGoogle, CreateGoogle, SecondStep, At, Sound
  <2>8. CASE StoreSession(r)
    <3>1. CASE call[r].op = "google"
      BY <2>8, <3>1, KeepTyped DEF StoreSession, HandOver, Draw
    <3>2. CASE call[r].op # "google"
      BY <2>8, <3>2, DoneTyped, <1>0 DEF StoreSession, HandOver
    <3> QED BY <3>1, <3>2
  <2>9. CASE IssueOAuthCode(r)
    BY <1>0, <2>9, DoneTyped DEF IssueOAuthCode
  <2>10. ASSUME NEW s \in stash, ExchangeOAuthCode(r, s) PROVE CallsTyped'
    <3> DEFINE c == [Idle EXCEPT !.op = "exchange", !.next = "take", !.item = s.code, !.code = s.token]
    <3>1. s.code \in 1 .. drawn /\ s.token \in 1 .. drawn
      BY <1>0
    <3>2. /\ s.code \in Nonces /\ s.code # 0 /\ s.code <= drawn
          /\ s.token \in Nonces /\ s.token # 0 /\ s.token <= drawn
      BY <3>1, DrawnNat DEF Nonces
    <3>3. /\ c \in Call /\ c.op = "exchange" /\ c.next = "take"
          /\ c.item = s.code /\ c.code = s.token /\ c.codes = {}
      BY <3>2 DEF Idle, Call, Null, Ops, Steps
    <3>4. call' = [call EXCEPT ![r] = c] /\ drawn' = drawn
      BY <2>10 DEF ExchangeOAuthCode
    <3> HIDE DEF c
    <3>5. Sound(c, drawn')
      BY <3>2, <3>3, <3>4 DEF Sound, Null
    <3> QED BY <1>0, <3>4, <3>5, CallTyped
  <2>11. CASE TakeTokens(r)
    BY <1>0, <2>11, DoneTyped DEF TakeTokens
  <2> QED
    BY <1>1, <2>1, <2>2, <2>3, <2>4, <2>5, <2>6, <2>7, <2>8, <2>9, <2>10, <2>11 DEF AccountStep
<1>2. ASSUME NEW r \in Requests, FactorStep(r)
      PROVE  CallsTyped'
  <2>1. ASSUME NEW x \in told, EnableTwoFactor(r, x) PROVE CallsTyped'
    BY <1>0, <2>1, ArriveTyped DEF EnableTwoFactor, Ops, Steps, Null
  <2>2. ASSUME NEW x \in told, DisableTwoFactor(r, x) PROVE CallsTyped'
    <3> DEFINE c == [Idle EXCEPT !.op = "disable", !.on = TRUE]
    <3>1. /\ c \in Call /\ c.op = "disable" /\ c.next = "idle"
          /\ c.item = 0 /\ c.code = 0 /\ c.codes = {}
      BY DEF Idle, Call, Null, Ops
    <3>2. CheckCode(r, x, c, "disable") /\ drawn' = drawn
      BY <2>2 DEF DisableTwoFactor
    <3> HIDE DEF c
    <3>3. Sound(c, drawn')
      BY <1>0, <3>1 DEF Sound, Null
    <3> QED BY <3>1, <3>2, <3>3, CheckTyped
  <2>3. ASSUME NEW x \in told, CheckChallenge(r, x) PROVE CallsTyped'
    BY <1>0, <2>3, CheckTyped DEF CheckChallenge, At, Sound
  <2>4. ASSUME NEW x \in challenges, FindChallenge(r, x) PROVE CallsTyped'
    BY <1>0, <2>4, ArriveTyped DEF FindChallenge, Ops, Steps, Null
  <2>5. CASE WriteEnabled(r)
    BY <1>0, <2>5, DoneTyped DEF WriteEnabled
  <2>6. CASE ConsumeCode(r)
    BY <1>0, <2>6, GotoTyped DEF ConsumeCode, At, Sound
  <2>7. CASE WriteDisabled(r)
    <3>1. \A q \in Requests : Sound([call[q] EXCEPT !.on = FALSE], drawn)
      BY <1>0 DEF Sound, Call
    <3>2. Sound(Idle, drawn)
      BY <1>0 DEF Idle, Sound, Call, Null
    <3>3. call' \in [Requests -> Call]
      BY <2>7, <3>1, <3>2 DEF WriteDisabled, Sound
    <3>4. \A q \in Requests : Sound(call'[q], drawn')
      BY <2>7, <3>1, <3>2 DEF WriteDisabled
    <3> QED BY <3>3, <3>4 DEF CallsTyped
  <2>8. CASE SpendChallenge(r)
    BY <1>0, <2>8, GotoTyped DEF SpendChallenge
  <2> QED
    BY <1>2, <2>1, <2>2, <2>3, <2>4, <2>5, <2>6, <2>7, <2>8 DEF FactorStep
<1>3. ASSUME NEW r \in Requests, RequestFails(r)
      PROVE  CallsTyped'
  BY <1>0, <1>3, DoneTyped DEF RequestFails
<1>4. CASE UNCHANGED call
  BY <1>0, <1>4, SoundGrows DEF Typed, CallsTyped
<1> QED
  BY <1>1, <1>2, <1>3, <1>4 DEF Next, Logout, SetupTwoFactor, Expire, RefreshTokens, vars

(* The row of the account. *)
LEMMA RowStep ==
    ASSUME Typed, [Next]_vars
    PROVE  RowTyped'
<1>0. /\ drawn \in Nat /\ drawn' \in Nat /\ drawn <= drawn' /\ drawn' <= MaxDraws /\ MaxDraws \in Nat
      /\ user \in Account /\ user.link <= drawn /\ user.secret <= drawn
      /\ \A x \in user.backup : x <= drawn
      /\ \A r \in Requests : Sound(call[r], drawn)
    BY DrawnNat, DrawnGrows DEF Typed, RowTyped, CallsTyped
<1>1. ASSUME UNCHANGED <<user.link, user.secret, user.backup>>, user' \in Account
      PROVE  RowTyped'
  BY <1>0, <1>1 DEF RowTyped, Account, Nonces, Null
<1>2. ASSUME NEW r \in Requests, CreateUser(r) \/ Relink(r)
      PROVE  RowTyped'
  <2>1. Fresh = drawn' /\ drawn' = drawn + 1 /\ Fresh \in Nonces
    BY <1>0, <1>2 DEF CreateUser, Relink, Draw, Fresh, Nonces
  <2>2. user' \in Account /\ user'.link = Fresh /\ user'.secret = user.secret
        /\ user'.backup = user.backup
    BY <1>0, <1>2, <2>1 DEF CreateUser, Relink, Account
  <2> QED BY <1>0, <2>1, <2>2 DEF RowTyped, Account, Nonces, Null
<1>3. ASSUME NEW r \in Requests, MarkVerified(r)
      PROVE  RowTyped'
  <2>1. user' \in Account /\ user'.link = 0 /\ user'.secret = user.secret
        /\ user'.backup = user.backup
    BY <1>0, <1>3 DEF MarkVerified, Account, Null
  <2> QED BY <1>0, <2>1 DEF RowTyped, Account, Nonces, Null
<1>4. CASE SetupTwoFactor
  <2>1. Fresh = drawn' /\ drawn' = drawn + 1 /\ Fresh \in Nonces
    BY <1>0, <1>4 DEF SetupTwoFactor, Draw, Fresh, Nonces
  <2>2. user' \in Account /\ user'.secret = Fresh /\ user'.link = user.link
        /\ user'.backup = user.backup
    BY <1>0, <1>4, <2>1 DEF SetupTwoFactor, Account
  <2> QED BY <1>0, <2>1, <2>2 DEF RowTyped, Account, Nonces, Null
<1>5. ASSUME NEW r \in Requests, WriteEnabled(r)
      PROVE  RowTyped'
  <2> DEFINE codes == Fresh .. drawn + BackupCodes
  <2>1. codes \subseteq Nonces /\ \A x \in codes : x <= drawn'
    BY <1>0, <1>5, DrawnNat DEF WriteEnabled, Draw, Fresh, Nonces
  <2>2. user' = [user EXCEPT !.enabled = TRUE, !.backup = codes]
    BY <1>5 DEF WriteEnabled
  <2> HIDE DEF codes
  <2>3. user' \in Account /\ user'.link = user.link /\ user'.secret = user.secret
        /\ user'.backup = codes
    BY <1>0, <2>1, <2>2 DEF Account
  <2> QED BY <1>0, <2>1, <2>3 DEF RowTyped, Account, Nonces, Null
<1>6. ASSUME NEW r \in Requests, ConsumeCode(r)
      PROVE  RowTyped'
  <2>1. call[r].codes \subseteq Nonces /\ \A x \in call[r].codes : x <= drawn
    BY <1>0 DEF Sound, Call
  <2>2. user' \in Account /\ user'.link = user.link /\ user'.secret = user.secret
        /\ user'.backup = call[r].codes \ {call[r].code}
    BY <1>0, <1>6, <2>1 DEF ConsumeCode, Account
  <2> QED BY <1>0, <2>1, <2>2 DEF RowTyped, Account, Nonces, Null
<1>7. ASSUME NEW r \in Requests, WriteDisabled(r)
      PROVE  RowTyped'
  <2>1. user' \in Account /\ user'.link = user.link /\ user'.secret = 0 /\ user'.backup = {}
    BY <1>0, <1>7 DEF WriteDisabled, Account, Null
  <2> QED BY <1>0, <2>1 DEF RowTyped, Account, Nonces, Null
<1>8. ASSUME NEW r \in Requests, LinkGoogle(r) \/ CreateGoogle(r) \/ StoreSession(r)
      PROVE  RowTyped'
  <2>1. CASE StoreSession(r)
    <3>1. user' = [user EXCEPT !.session = Fresh] /\ Fresh \in Nonces
      BY <2>1, StoredToken
    <3> HIDE DEF Fresh
    <3> QED BY <1>0, <1>1, <3>1 DEF Account
  <2>2. CASE LinkGoogle(r) \/ CreateGoogle(r)
    BY <1>0, <1>1, <2>2 DEF LinkGoogle, CreateGoogle, Account
  <2> QED BY <1>8, <2>1, <2>2
<1>9. CASE Logout
  BY <1>0, <1>1, <1>9 DEF Logout, Account
<1>10. CASE UNCHANGED user
  BY <1>0, <1>1, <1>10
<1> QED
  BY <1>2, <1>3, <1>4, <1>5, <1>6, <1>7, <1>8, <1>9, <1>10
  DEF Next, AccountStep, FactorStep, Register, SendMail, ResendVerification, FindLink, Login,
      FindGoogle, FindByEmail, CreateChallenge, IssueOAuthCode, ExchangeOAuthCode, TakeTokens,
      EnableTwoFactor, DisableTwoFactor, CheckChallenge, FindChallenge, SpendChallenge,
      RequestFails, Expire, RefreshTokens, vars

(* What is accepted has been drawn. *)
LEMMA AcceptTyped ==
    ASSUME Typed, drawn' = drawn, NEW x, x # 0, x \in 0 .. drawn, NEW rivals, Accept(x, rivals)
    PROVE  used' \subseteq 1 .. drawn' /\ reused' \subseteq Nonces /\ contested' \subseteq Nonces
<1>1. x \in 1 .. drawn /\ x \in Nonces
    BY DrawnNat DEF Nonces
<1> QED
    BY <1>1 DEF Accept, Typed, RestTyped

(* Redis, what has been told, and the histories. *)
LEMMA RestStep ==
    ASSUME Typed, [Next]_vars
    PROVE  RestTyped'
<1>0. /\ drawn \in Nat /\ drawn' \in Nat /\ drawn <= drawn' /\ drawn' \in 0 .. MaxDraws
      /\ loggedOut \in 0 .. drawn'
      /\ told \subseteq 1 .. drawn' /\ clients \subseteq 1 .. drawn'
      /\ challenges \subseteq 1 .. drawn' /\ stash \subseteq [code : 1 .. drawn', token : 1 .. drawn']
      /\ used \subseteq 1 .. drawn' /\ reused \subseteq Nonces /\ contested \subseteq Nonces
      /\ confirmed \in Nonces \cup {Null} /\ upset \in BOOLEAN
  <2>1. drawn \in Nat /\ drawn' \in Nat /\ drawn <= drawn' /\ drawn' <= MaxDraws /\ MaxDraws \in Nat
    BY DrawnNat, DrawnGrows
  <2>2. 0 .. drawn \subseteq 0 .. drawn' /\ 1 .. drawn \subseteq 1 .. drawn' /\ drawn' \in 0 .. MaxDraws
    BY <2>1
  <2>3. stash \subseteq [code : 1 .. drawn', token : 1 .. drawn']
    BY <2>2 DEF Typed, RestTyped
  <2> QED BY <2>1, <2>2, <2>3 DEF Typed, RestTyped
<1>sound. \A r \in Requests :
             /\ Sound(call[r], drawn)
             /\ call[r].item \in Nonces \cup {Null} /\ call[r].code \in Nonces \cup {Null}
             /\ call[r].codes \subseteq Nonces
    BY DEF Typed, CallsTyped, Sound, Call
<1>held. \A r \in Requests :
             /\ call[r].item \in 0 .. drawn /\ call[r].code \in 0 .. drawn
             /\ call[r].codes \subseteq 1 .. drawn
    BY <1>0, <1>sound DEF Sound, Nonces, Null
<1>1. ASSUME UNCHANGED <<drawn, loggedOut, told, stash, clients, factor>>,
             challenges' \subseteq challenges, NEW x \in 1 .. drawn, NEW rivals,
             Accept(x, rivals)
      PROVE  RestTyped'
  BY <1>0, <1>1, AcceptTyped DEF RestTyped, factor, Nonces, Null
<1> USE DEF onetime, factor, redis
<1>2. CASE UNCHANGED <<told, clients, challenges, stash, onetime, loggedOut, factor>>
  BY <1>0, <1>2 DEF RestTyped, Nonces, Null
<1>3. ASSUME NEW r \in Requests, AccountStep(r)
      PROVE  RestTyped'
  <2>1. CASE SendMail(r)
    <3>1. call[r].item \in 1 .. drawn
      BY <1>0, <1>sound, <1>held, <2>1 DEF SendMail, At, Sound, Null
    <3>2. told' \subseteq 1 .. drawn' /\ drawn' = drawn
      BY <1>0, <2>1, <3>1 DEF SendMail
    <3> QED BY <1>0, <2>1, <3>2 DEF SendMail, RestTyped, Nonces, Null
  <2>2. CASE MarkVerified(r)
    <3>1. call[r].item \in 1 .. drawn
      BY <1>0, <1>sound, <1>held, <2>2 DEF MarkVerified, At, Sound, Null
    <3> QED BY <1>1, <2>2, <3>1 DEF MarkVerified
  <2>3. CASE CreateChallenge(r)
    <3>1. Fresh \in 1 .. drawn'
      BY <1>0, <2>3 DEF CreateChallenge, Draw, Fresh
    <3> QED BY <1>0, <2>3, <3>1 DEF CreateChallenge, RestTyped, Nonces, Null
  <2>4. CASE StoreSession(r)
    <3>1. Fresh \in 1 .. drawn'
      BY <1>0, <2>4 DEF StoreSession, Draw, Fresh
    <3>2. clients' \subseteq clients \cup {Fresh}
      BY <2>4 DEF StoreSession, HandOver
    <3> QED BY <1>0, <2>4, <3>1, <3>2 DEF StoreSession, RestTyped, Nonces, Null
  <2>5. CASE IssueOAuthCode(r)
    <3>1. Fresh \in 1 .. drawn'
      BY <1>0, <2>5 DEF IssueOAuthCode, Draw, Fresh
    <3>2. call[r].item \in 1 .. drawn'
      BY <1>0, <1>sound, <1>held, <2>5 DEF IssueOAuthCode, At, Sound, Null
    <3>3. told' \subseteq 1 .. drawn' /\ stash' = stash \cup {[code |-> Fresh, token |-> call[r].item]}
      BY <1>0, <2>5, <3>1 DEF IssueOAuthCode
    <3>4. [code |-> Fresh, token |-> call[r].item] \in [code : 1 .. drawn', token : 1 .. drawn']
      BY <3>1, <3>2
    <3>5. stash' \subseteq [code : 1 .. drawn', token : 1 .. drawn']
      BY <1>0, <3>3, <3>4
    <3> QED BY <1>0, <2>5, <3>3, <3>5 DEF IssueOAuthCode, RestTyped, Nonces, Null
  <2>6. CASE TakeTokens(r)
    <3>1. call[r].item \in 1 .. drawn /\ call[r].code \in 1 .. drawn
      BY <1>0, <1>sound, <1>held, <2>6 DEF TakeTokens, At, Sound, Null
    <3>2. drawn' = drawn /\ \E rivals : Accept(call[r].item, rivals)
      BY <2>6 DEF TakeTokens
    <3>3. used' \subseteq 1 .. drawn' /\ reused' \subseteq Nonces /\ contested' \subseteq Nonces
      BY <1>0, <3>1, <3>2, AcceptTyped
    <3> QED BY <1>0, <2>6, <3>1, <3>3 DEF TakeTokens, RestTyped, Nonces, Null
  <2> QED
    BY <1>2, <1>3, <2>1, <2>2, <2>3, <2>4, <2>5, <2>6
    DEF AccountStep, Register, CreateUser, ResendVerification, Relink, FindLink, Login, FindGoogle,
        FindByEmail, LinkGoogle, CreateGoogle, ExchangeOAuthCode
<1>4. ASSUME NEW r \in Requests, FactorStep(r) \/ RequestFails(r)
      PROVE  RestTyped'
  <2>1. CASE WriteEnabled(r)
    <3> DEFINE codes == Fresh .. drawn + BackupCodes
    <3>1. codes \subseteq 1 .. drawn'
      BY <1>0, <2>1, DrawnNat DEF WriteEnabled, Draw, Fresh
    <3>2. told' = told \cup codes /\ confirmed' \in Nonces \cup {Null}
      BY <1>sound, <2>1 DEF WriteEnabled
    <3> HIDE DEF codes
    <3> QED BY <1>0, <2>1, <3>1, <3>2 DEF WriteEnabled, RestTyped, Nonces, Null
  <2>2. CASE ConsumeCode(r)
    <3>1. call[r].code \in 1 .. drawn
      BY <1>0, <1>sound, <1>held, <2>2 DEF ConsumeCode, At, Sound, Null
    <3> QED BY <1>1, <2>2, <3>1 DEF ConsumeCode
  <2>3. CASE WriteDisabled(r)
    BY <1>0, <2>3 DEF WriteDisabled, RestTyped, Nonces, Null
  <2>4. CASE SpendChallenge(r)
    <3>1. call[r].item \in 1 .. drawn
      BY <1>0, <1>sound, <1>held, <2>4 DEF SpendChallenge, At, Sound, Null
    <3> QED BY <1>1, <2>4, <3>1 DEF SpendChallenge
  <2> QED
    BY <1>2, <1>4, <2>1, <2>2, <2>3, <2>4
    DEF FactorStep, RequestFails, EnableTwoFactor, DisableTwoFactor, CheckChallenge, FindChallenge
<1>5. CASE Logout
  BY <1>0, <1>5 DEF Logout, RestTyped, Nonces, Null
<1>6. CASE SetupTwoFactor
  <2>1. Fresh \in 1 .. drawn'
    BY <1>0, <1>6 DEF SetupTwoFactor, Draw, Fresh
  <2> QED BY <1>0, <1>6, <2>1 DEF SetupTwoFactor, RestTyped, Nonces, Null
<1>7. CASE Expire
  BY <1>0, <1>7 DEF Expire, RestTyped, Nonces, Null
<1> QED
  BY <1>2, <1>3, <1>4, <1>5, <1>6, <1>7 DEF Next, RefreshTokens, vars

LEMMA TypedStep == Typed /\ [Next]_vars => Typed'
BY CallStep, RowStep, RestStep DEF Typed

(* The row, Redis, requests and what users know keep their types. *)
THEOREM Typing == Spec => []TypeOK
<1>1. Spec => []Typed
    BY TypedInit, TypedStep, PTL DEF Spec
<1> QED
    BY <1>1, TypedTypes, PTL

------------------------------------------------------------------------------
(* Who is about to be signed in has proved what the account asks.          *)

(* What a row must be for a request with record c to be where it is. *)
Fit(c, row) ==
    /\ c.next \in {"relink", "mark", "link"} => row.exists
    /\ c.next \in {"challenge", "session", "stash", "take", "enable", "user",
                   "consume", "disable", "spend"} => row.verified
    /\ c.on => row.enabled
    /\ c.next = "session" /\ c.on => c.op \in {"verify", "verifyEmail"}

(* Links are an account's; Google, a second factor, tokens and challenges   *)
(* are a verified account's.                                                *)
Standing ==
    /\ user.link # Null => user.exists
    /\ user.google \/ user.enabled => user.verified
    /\ user.verified => user.exists
    /\ challenges # {} \/ stash # {} \/ clients # {} => user.verified

Proven == Standing /\ \A r \in Requests : Fit(call[r], user)

LEMMA ProvenInit == Init => Proven
BY DEF Init, Proven, Standing, Fit, Idle, Null

(* One request gets a record that fits the new row; the others fit it if    *)
(* nothing of the old row was taken back.                                   *)
LEMMA FitStep ==
    ASSUME Typed, Proven, NEW r \in Requests, NEW c, call' = [call EXCEPT ![r] = c], Fit(c, user'),
           user.exists => user'.exists, user.verified => user'.verified,
           user.enabled => user'.enabled
    PROVE  \A q \in Requests : Fit(call'[q], user')
<1>1. \A q \in Requests : Fit(call[q], user')
    BY DEF Proven, Fit
<1> QED
    BY <1>1 DEF Typed, CallsTyped

LEMMA ProvenStep == Typed /\ Proven /\ [Next]_vars => Proven'
<1> SUFFICES ASSUME Typed, Proven, [Next]_vars PROVE Proven'
    OBVIOUS
<1>0. /\ user \in Account /\ call \in [Requests -> Call]
      /\ \A r \in Requests : Sound(call[r], drawn) /\ call[r] \in Call /\ Fit(call[r], user)
      /\ Standing
    BY DEF Typed, RowTyped, CallsTyped, Proven
<1>1. Fit(Idle, user) /\ Fit(Idle, user')
    BY DEF Idle, Fit
<1>2. ASSUME NEW r \in Requests, NEW c, call' = [call EXCEPT ![r] = c], Fit(c, user), user' = user
      PROVE  \A q \in Requests : Fit(call'[q], user')
    BY <1>2, FitStep
<1>put. ASSUME NEW r \in Requests, NEW c, call' = [call EXCEPT ![r] = c], Fit(c, user),
              UNCHANGED <<user, redis, clients>>
       PROVE  Proven'
    BY <1>0, <1>2, <1>put DEF Proven, Standing, redis
<1>3. ASSUME NEW r \in Requests, AccountStep(r)
      PROVE  Proven'
  <2>1. CASE Register(r) \/ ResendVerification(r) \/ Login(r) \/ FindGoogle(r)
    <3>1. PICK op \in Ops, next \in {"create", "relink", "challenge", "session", "byEmail"} :
             /\ Arrive(r, op, next, Null) /\ user' = user
             /\ next = "relink" => user.exists
             /\ next \in {"challenge", "session"} => user.verified
             /\ next = "session" => ~user.enabled
      BY <1>0, <2>1 DEF Register, ResendVerification, Login, FindGoogle, SecondStep, Ops, Standing
    <3> DEFINE c == [Idle EXCEPT !.op = op, !.next = next, !.item = Null, !.on = user.enabled]
    <3>2. call' = [call EXCEPT ![r] = c]
      BY <3>1 DEF Arrive
    <3>3. c.op = op /\ c.next = next /\ c.on = user.enabled
      BY DEF Idle
    <3> HIDE DEF c
    <3>4. Fit(c, user)
      BY <3>1, <3>3 DEF Fit
    <3>5. UNCHANGED <<user, redis, clients>>
      BY <2>1 DEF Register, ResendVerification, Login, FindGoogle
    <3> QED BY <1>put, <3>2, <3>4, <3>5
  <2>2. CASE CreateUser(r) \/ Relink(r)
    <3> DEFINE c == [call[r] EXCEPT !.next = "mail", !.item = Fresh]
    <3>1. call' = [call EXCEPT ![r] = c]
      BY <1>0, <2>2 DEF CreateUser, Relink
    <3>2. c.next = "mail" /\ c.on = call[r].on
      BY <1>0 DEF Call
    <3> HIDE DEF c
    <3>3. UNCHANGED <<user.verified, user.google, user.enabled>> /\ user'.exists
      BY <1>0, <2>2 DEF CreateUser, Relink, Account, At, Fit
    <3>4. Fit(c, user')
      BY <1>0, <3>2, <3>3 DEF Fit
    <3>5. \A q \in Requests : Fit(call'[q], user')
      BY <3>1, <3>3, <3>4, FitStep
    <3>6. UNCHANGED <<redis, clients>>
      BY <2>2 DEF CreateUser, Relink
    <3> QED BY <1>0, <3>3, <3>5, <3>6 DEF Proven, Standing, redis
  <2>3. CASE SendMail(r) \/ CreateChallenge(r) \/ IssueOAuthCode(r) \/ TakeTokens(r)
    <3>1. Done(r) /\ user' = user
      BY <2>3 DEF SendMail, CreateChallenge, IssueOAuthCode, TakeTokens
    <3>2. \A q \in Requests : Fit(call'[q], user')
      BY <1>1, <1>2, <3>1 DEF Done
    <3>3. user.verified \/ UNCHANGED <<redis, clients>>
      BY <1>0, <2>3 DEF SendMail, CreateChallenge, IssueOAuthCode, TakeTokens, At, Fit
    <3> QED BY <1>0, <3>1, <3>2, <3>3 DEF Proven, Standing, redis
  <2>4. ASSUME NEW x \in told, FindLink(r, x) PROVE Proven'
    <3> DEFINE c == [Idle EXCEPT !.op = "verifyEmail", !.next = "mark", !.item = x, !.on = user.enabled]
    <3>1. call' = [call EXCEPT ![r] = c]
      BY <2>4 DEF FindLink, Arrive
    <3>2. c.op = "verifyEmail" /\ c.next = "mark" /\ c.on = user.enabled
      BY DEF Idle
    <3> HIDE DEF c
    <3>3. Fit(c, user) /\ UNCHANGED <<user, redis, clients>>
      BY <1>0, <2>4, <3>2 DEF FindLink, Fit, Standing, Typed, RestTyped, Null
    <3> QED BY <1>put, <3>1, <3>3
  <2>5. CASE MarkVerified(r) \/ LinkGoogle(r) \/ CreateGoogle(r)
    <3>1. PICK next \in {"session", "challenge"} : Goto(r, next) /\ (next = "session" =>
              MarkVerified(r) \/ ~user.enabled)
      BY <1>0, <2>5 DEF MarkVerified, LinkGoogle, CreateGoogle, SecondStep, Standing
    <3> DEFINE c == [call[r] EXCEPT !.next = next]
    <3>2. call' = [call EXCEPT ![r] = c]
      BY <1>0, <3>1 DEF Goto
    <3>3. c.op = call[r].op /\ c.next = next /\ c.on = call[r].on
      BY <1>0 DEF Call
    <3> HIDE DEF c
    <3>4. user'.exists /\ user'.verified /\ UNCHANGED user.enabled
      BY <1>0, <2>5 DEF MarkVerified, LinkGoogle, CreateGoogle, Account, At, Fit
    <3>5. c.next = "session" /\ c.on => c.op = "verifyEmail"
      BY <1>0, <3>1, <3>3 DEF MarkVerified, At, Sound, Fit
    <3>6. Fit(c, user')
      BY <1>0, <3>3, <3>4, <3>5 DEF Fit
    <3>7. \A q \in Requests : Fit(call'[q], user')
      BY <3>2, <3>4, <3>6, FitStep
    <3> QED BY <3>4, <3>7 DEF Proven, Standing
  <2>6. CASE FindByEmail(r)
    <3>1. PICK next \in {"link", "createGoogle"} : Goto(r, next) /\ (next = "link" => user.exists)
      BY <2>6 DEF FindByEmail
    <3> DEFINE c == [call[r] EXCEPT !.next = next]
    <3>2. call' = [call EXCEPT ![r] = c]
      BY <1>0, <3>1 DEF Goto
    <3>3. c.next = next /\ c.on = call[r].on
      BY <1>0 DEF Call
    <3> HIDE DEF c
    <3>4. Fit(c, user) /\ UNCHANGED <<user, redis, clients>>
      BY <1>0, <2>6, <3>1, <3>3 DEF FindByEmail, Fit
    <3> QED BY <1>put, <3>2, <3>4
  <2>7. CASE StoreSession(r)
    <3> DEFINE c == IF call[r].op = "google" THEN [call[r] EXCEPT !.next = "stash", !.item = Fresh]
                                             ELSE Idle
    <3>1. call' = [call EXCEPT ![r] = c]
      BY <1>0, <2>7 DEF StoreSession, HandOver, Done
    <3>2. c = Idle \/ (c.next = "stash" /\ c.on = call[r].on)
      BY <1>0 DEF Call
    <3> HIDE DEF c
    <3>3. user.verified /\ UNCHANGED <<user.exists, user.verified, user.google, user.enabled, user.link>>
      BY <1>0, <2>7 DEF StoreSession, Account, At, Fit
    <3>4. Fit(c, user')
      BY <1>0, <1>1, <3>2, <3>3 DEF Fit
    <3>5. \A q \in Requests : Fit(call'[q], user')
      BY <3>1, <3>3, <3>4, FitStep
    <3> QED BY <1>0, <3>3, <3>5 DEF Proven, Standing
  <2>8. ASSUME NEW s \in stash, ExchangeOAuthCode(r, s) PROVE Proven'
    <3> DEFINE c == [Idle EXCEPT !.op = "exchange", !.next = "take", !.item = s.code, !.code = s.token]
    <3>1. call' = [call EXCEPT ![r] = c] /\ UNCHANGED <<user, redis, clients>>
      BY <2>8 DEF ExchangeOAuthCode
    <3>2. c.next = "take" /\ c.on = FALSE
      BY DEF Idle
    <3> HIDE DEF c
    <3>3. Fit(c, user)
      BY <1>0, <3>2 DEF Fit, Standing
    <3> QED BY <1>put, <3>1, <3>3
  <2> QED
    BY <1>3, <2>1, <2>2, <2>3, <2>4, <2>5, <2>6, <2>7, <2>8 DEF AccountStep
<1>4. ASSUME NEW r \in Requests, FactorStep(r)
      PROVE  Proven'
  <2>1. ASSUME NEW x \in told, EnableTwoFactor(r, x) PROVE Proven'
    <3> DEFINE c == [Idle EXCEPT !.op = "enable", !.next = "enable", !.item = x, !.on = user.enabled]
    <3>1. call' = [call EXCEPT ![r] = c] /\ UNCHANGED <<user, redis, clients>>
      BY <2>1 DEF EnableTwoFactor, Arrive
    <3>2. c.next = "enable" /\ c.on = user.enabled
      BY DEF Idle
    <3> HIDE DEF c
    <3>3. Fit(c, user)
      BY <1>0, <2>1, <3>2 DEF Fit, Standing, EnableTwoFactor, SignedIn
    <3> QED BY <1>put, <3>1, <3>3
  <2>2. ASSUME NEW x \in told, DisableTwoFactor(r, x) \/ CheckChallenge(r, x) PROVE Proven'
    <3>1. PICK c \in Call, then \in {"disable", "spend"} :
             CheckCode(r, x, c, then) /\ (c.on => user.enabled) /\ user.verified
      <4>1. CASE DisableTwoFactor(r, x)
        <5> DEFINE c == [Idle EXCEPT !.op = "disable", !.on = TRUE]
        <5>1. c \in Call
          BY DEF Idle, Call, Null, Ops
        <5>2. CheckCode(r, x, c, "disable") /\ user.enabled /\ user.verified
          BY <1>0, <4>1 DEF DisableTwoFactor, Standing
        <5> QED BY <5>1, <5>2
      <4>2. CASE CheckChallenge(r, x)
        BY <1>0, <4>2 DEF CheckChallenge, At, Fit
      <4> QED BY <2>2, <4>1, <4>2
    <3> DEFINE d1 == [c EXCEPT !.next = then]
               d2 == [c EXCEPT !.next = "consume", !.code = x, !.codes = user.backup]
    <3>next. /\ d1.next = then /\ d1.on = c.on
             /\ d2.next = "consume" /\ d2.on = c.on
      BY DEF Call
    <3>goes. call' = [call EXCEPT ![r] = d1] \/ call' = [call EXCEPT ![r] = d2]
      BY <3>1 DEF CheckCode
    <3> HIDE DEF d1, d2
    <3>2. PICK d \in {d1, d2} : call' = [call EXCEPT ![r] = d]
      BY <3>goes
    <3>3. Fit(d, user)
      BY <3>1, <3>2, <3>next DEF Fit
    <3>4. UNCHANGED <<user, redis, clients>>
      BY <2>2 DEF DisableTwoFactor, CheckChallenge
    <3> QED BY <1>put, <3>2, <3>3, <3>4
  <2>3. ASSUME NEW x \in challenges, FindChallenge(r, x) PROVE Proven'
    <3> DEFINE c == [Idle EXCEPT !.op = "verify", !.next = "user", !.item = x, !.on = user.enabled]
    <3>1. call' = [call EXCEPT ![r] = c] /\ UNCHANGED <<user, redis, clients>>
      BY <2>3 DEF FindChallenge, Arrive
    <3>2. c.next = "user" /\ c.on = user.enabled
      BY DEF Idle
    <3> HIDE DEF c
    <3>3. Fit(c, user)
      BY <1>0, <2>3, <3>2 DEF Fit, Standing
    <3> QED BY <1>put, <3>1, <3>3
  <2>4. CASE WriteEnabled(r)
    <3>1. user.verified /\ user'.enabled /\ UNCHANGED <<user.exists, user.verified, user.google, user.link>>
      BY <1>0, <2>4 DEF WriteEnabled, Account, At, Fit
    <3>2. Fit(Idle, user') /\ call' = [call EXCEPT ![r] = Idle]
      BY <1>1, <2>4 DEF WriteEnabled, Done
    <3>3. \A q \in Requests : Fit(call'[q], user')
      BY <3>1, <3>2, FitStep
    <3> QED BY <1>0, <3>1, <3>3 DEF Proven, Standing
  <2>5. CASE ConsumeCode(r) \/ SpendChallenge(r)
    <3>1. PICK next \in {"disable", "spend", "session"} :
             /\ Goto(r, next) /\ (next = "session" => call[r].op = "verify")
      BY <1>0, <2>5 DEF ConsumeCode, SpendChallenge, At, Sound
    <3> DEFINE c == [call[r] EXCEPT !.next = next]
    <3>2. call' = [call EXCEPT ![r] = c]
      BY <1>0, <3>1 DEF Goto
    <3>3. c.op = call[r].op /\ c.next = next /\ c.on = call[r].on
      BY <1>0 DEF Call
    <3> HIDE DEF c
    <3>4. user.verified /\ UNCHANGED <<user.exists, user.verified, user.google, user.enabled, user.link>>
      BY <1>0, <2>5 DEF ConsumeCode, SpendChallenge, Account, At, Fit
    <3>5. Fit(c, user')
      BY <1>0, <3>1, <3>3, <3>4 DEF Fit
    <3>6. \A q \in Requests : Fit(call'[q], user')
      BY <3>2, <3>4, <3>5, FitStep
    <3> QED BY <1>0, <3>4, <3>6 DEF Proven, Standing
  <2>6. CASE WriteDisabled(r)
    <3>1. user.verified /\ ~user'.enabled /\ UNCHANGED <<user.exists, user.verified, user.google, user.link>>
      BY <1>0, <2>6 DEF WriteDisabled, Account, At, Fit
    <3>2. \A q \in Requests : Fit([call[q] EXCEPT !.on = FALSE], user')
      BY <1>0, <3>1 DEF Fit, Call
    <3>3. \A q \in Requests : Fit(call'[q], user')
      BY <1>1, <2>6, <3>2 DEF WriteDisabled
    <3> QED BY <1>0, <3>1, <3>3 DEF Proven, Standing
  <2> QED
    BY <1>4, <2>1, <2>2, <2>3, <2>4, <2>5, <2>6 DEF FactorStep
<1>5. ASSUME NEW r \in Requests, RequestFails(r)
      PROVE  Proven'
  BY <1>1, <1>put, <1>5 DEF RequestFails, Done
<1>6. CASE Logout \/ SetupTwoFactor
  <2>1. UNCHANGED <<user.exists, user.verified, user.google, user.enabled, user.link>>
    BY <1>0, <1>6 DEF Logout, SetupTwoFactor, Account
  <2>2. UNCHANGED <<call, redis, clients>>
    BY <1>6 DEF Logout, SetupTwoFactor
  <2> QED BY <1>0, <2>1, <2>2 DEF Proven, Standing, Fit, redis
<1>7. CASE Expire
  BY <1>0, <1>7 DEF Expire, Proven, Standing
<1>8. CASE UNCHANGED vars
  BY <1>0, <1>8 DEF vars, Proven, Standing, redis
<1> QED
  BY <1>3, <1>4, <1>5, <1>6, <1>7, <1>8 DEF Next, RefreshTokens

LEMMA ProvenHolds == Spec => [](Typed /\ Proven)
BY TypedInit, TypedStep, ProvenInit, ProvenStep, PTL DEF Spec

(* Nobody is about to be signed in with an unverified email, or without the *)
(* second factor that was on when the request came (SignInsProven).         *)
THEOREM SignInsHold == Spec => []SignInsProven
<1>1. Proven => SignInsProven
    BY DEF Proven, Fit, SignInsProven, At
<1> QED
    BY <1>1, ProvenHolds, PTL

------------------------------------------------------------------------------
(* What a step can do to the values that requests hold.                     *)

(* A request whose record c becomes d holds what it has held before, or     *)
(* what was stored when the step was taken.                                 *)
Moves(c, d) ==
    /\ d.next = "mark" => (c.next = "mark" /\ d.item = c.item) \/ d.item = user.link
    /\ d.next = "take" => \/ c.next = "take" /\ d.item = c.item /\ d.code = c.code
                          \/ \E s \in stash : d.item = s.code /\ d.code = s.token
    /\ d.op = "verify" /\ d.next # "session" =>
          \/ c.op = "verify" /\ c.next # "session" /\ d.item = c.item
          \/ d.item \in challenges
    /\ d.next = "consume" => (c.next = "consume" /\ d.codes = c.codes) \/ d.codes = user.backup
    /\ d.next = "stash" => (c.next = "stash" /\ d.item = c.item) \/ user'.session # Null
    /\ d.next = "enable" => \/ c.next = "enable" /\ d.item = c.item
                            \/ d.item = user.secret /\ UNCHANGED <<user, upset>>

LEMMA StillMoves == ASSUME NEW c PROVE Moves(c, c)
BY DEF Moves

LEMMA MovesOne ==
    ASSUME Typed, NEW r \in Requests, NEW c, call' = [call EXCEPT ![r] = c], Moves(call[r], c)
    PROVE  \A q \in Requests : Moves(call[q], call'[q])
BY StillMoves DEF Typed, CallsTyped

LEMMA HeldMoves ==
    ASSUME Typed, [Next]_vars
    PROVE  \A q \in Requests : Moves(call[q], call'[q])
<1>0. /\ user \in Account /\ call \in [Requests -> Call]
      /\ \A r \in Requests : Sound(call[r], drawn) /\ call[r] \in Call
    BY DEF Typed, RowTyped, CallsTyped
<1>1. ASSUME NEW r \in Requests, NEW op \in Ops, NEW next \in Steps, NEW item, Arrive(r, op, next, item),
             next \notin {"take", "consume", "stash"},
             next = "mark" => item = user.link,
             op = "verify" => item \in challenges,
             next = "enable" => item = user.secret /\ UNCHANGED <<user, upset>>
      PROVE  \A q \in Requests : Moves(call[q], call'[q])
  <2> DEFINE c == [Idle EXCEPT !.op = op, !.next = next, !.item = item, !.on = user.enabled]
  <2>1. c.op = op /\ c.next = next /\ c.item = item /\ call' = [call EXCEPT ![r] = c]
    BY <1>1 DEF Idle, Arrive
  <2> HIDE DEF c
  <2>2. Moves(call[r], c)
    BY <1>1, <2>1 DEF Moves
  <2> QED BY <2>1, <2>2, MovesOne
<1>2. ASSUME NEW r \in Requests, NEW next, Goto(r, next),
             next \notin {"mark", "take", "consume", "stash", "enable"},
             call[r].op = "verify" => ~At(r, "session")
      PROVE  \A q \in Requests : Moves(call[q], call'[q])
  <2> DEFINE c == [call[r] EXCEPT !.next = next]
  <2>1. c.op = call[r].op /\ c.next = next /\ c.item = call[r].item /\ call' = [call EXCEPT ![r] = c]
    BY <1>0, <1>2 DEF Call, Goto
  <2> HIDE DEF c
  <2>2. Moves(call[r], c)
    BY <1>2, <2>1 DEF Moves, At
  <2> QED BY <2>1, <2>2, MovesOne
<1>3. ASSUME NEW r \in Requests, NEW next \in {"mail", "stash"},
             call' = [call EXCEPT ![r].next = next, ![r].item = Fresh],
             next = "stash" => user'.session # Null, call[r].op # "verify"
      PROVE  \A q \in Requests : Moves(call[q], call'[q])
  <2> DEFINE c == [call[r] EXCEPT !.next = next, !.item = Fresh]
  <2>1. c.op = call[r].op /\ c.next = next /\ call' = [call EXCEPT ![r] = c]
    BY <1>0, <1>3 DEF Call
  <2> HIDE DEF c
  <2>2. Moves(call[r], c)
    BY <1>3, <2>1 DEF Moves
  <2> QED BY <2>1, <2>2, MovesOne
<1>4. ASSUME NEW r \in Requests, Done(r)
      PROVE  \A q \in Requests : Moves(call[q], call'[q])
  <2>1. Moves(call[r], Idle)
    BY DEF Moves, Idle
  <2> QED BY <1>4, <2>1, MovesOne DEF Done
<1>5. ASSUME NEW r \in Requests, NEW x, NEW c \in Call, NEW then \in {"disable", "spend"},
             CheckCode(r, x, c, then),
             c.op = "verify" => call[r].op = "verify" /\ call[r].next # "session" /\ c.item = call[r].item
      PROVE  \A q \in Requests : Moves(call[q], call'[q])
  <2>1. CASE call' = [call EXCEPT ![r] = [c EXCEPT !.next = then]]
    <3> DEFINE d == [c EXCEPT !.next = then]
    <3>1. d.op = c.op /\ d.next = then /\ d.item = c.item /\ call' = [call EXCEPT ![r] = d]
      BY <2>1 DEF Call
    <3> HIDE DEF d
    <3>2. Moves(call[r], d)
      BY <1>5, <3>1 DEF Moves
    <3> QED BY <3>1, <3>2, MovesOne
  <2>2. CASE call' = [call EXCEPT ![r] = [c EXCEPT !.next = "consume", !.code = x, !.codes = user.backup]]
    <3> DEFINE d == [c EXCEPT !.next = "consume", !.code = x, !.codes = user.backup]
    <3>1. /\ d.op = c.op /\ d.next = "consume" /\ d.item = c.item /\ d.codes = user.backup
          /\ call' = [call EXCEPT ![r] = d]
      BY <2>2 DEF Call
    <3> HIDE DEF d
    <3>2. Moves(call[r], d)
      BY <1>5, <3>1 DEF Moves
    <3> QED BY <3>1, <3>2, MovesOne
  <2> QED BY <1>5, <2>1, <2>2 DEF CheckCode
<1>6. ASSUME NEW r \in Requests, AccountStep(r)
      PROVE  \A q \in Requests : Moves(call[q], call'[q])
  <2>1. CASE Register(r) \/ ResendVerification(r) \/ Login(r) \/ FindGoogle(r)
    BY <1>1, <2>1 DEF Register, ResendVerification, Login, FindGoogle, SecondStep, Ops, Steps
  <2>2. CASE CreateUser(r) \/ Relink(r)
    BY <1>0, <1>3, <2>2 DEF CreateUser, Relink, At, Sound
  <2>3. CASE SendMail(r) \/ CreateChallenge(r) \/ IssueOAuthCode(r) \/ TakeTokens(r)
    BY <1>4, <2>3 DEF SendMail, CreateChallenge, IssueOAuthCode, TakeTokens
  <2>4. ASSUME NEW x \in told, FindLink(r, x) PROVE \A q \in Requests : Moves(call[q], call'[q])
    BY <1>1, <2>4 DEF FindLink, Ops, Steps
  <2>5. CASE MarkVerified(r) \/ LinkGoogle(r) \/ CreateGoogle(r) \/ FindByEmail(r)
    BY <1>0, <1>2, <2>5 DEF MarkVerified, LinkGoogle, CreateGoogle, FindByEmail, SecondStep, At
  <2>6. CASE StoreSession(r)
    <3>1. user'.session # Null
      BY <2>6, StoredToken
    <3>2. CASE call[r].op = "google"
      BY <1>3, <2>6, <3>1, <3>2 DEF StoreSession, HandOver
    <3>3. CASE call[r].op # "google"
      BY <1>4, <2>6, <3>3 DEF StoreSession, HandOver
    <3> QED BY <3>2, <3>3
  <2>7. ASSUME NEW s \in stash, ExchangeOAuthCode(r, s)
        PROVE  \A q \in Requests : Moves(call[q], call'[q])
    <3> DEFINE c == [Idle EXCEPT !.op = "exchange", !.next = "take", !.item = s.code, !.code = s.token]
    <3>1. /\ c.op = "exchange" /\ c.next = "take" /\ c.item = s.code /\ c.code = s.token
          /\ call' = [call EXCEPT ![r] = c]
      BY <2>7 DEF Idle, ExchangeOAuthCode
    <3> HIDE DEF c
    <3>2. Moves(call[r], c)
      BY <3>1 DEF Moves
    <3> QED BY <3>1, <3>2, MovesOne
  <2> QED BY <1>6, <2>1, <2>2, <2>3, <2>4, <2>5, <2>6, <2>7 DEF AccountStep
<1>7. ASSUME NEW r \in Requests, FactorStep(r)
      PROVE  \A q \in Requests : Moves(call[q], call'[q])
  <2>1. ASSUME NEW x \in told, EnableTwoFactor(r, x) PROVE \A q \in Requests : Moves(call[q], call'[q])
    BY <1>1, <2>1 DEF EnableTwoFactor, Ops, Steps, factor
  <2>2. ASSUME NEW x \in told, DisableTwoFactor(r, x) PROVE \A q \in Requests : Moves(call[q], call'[q])
    <3> DEFINE c == [Idle EXCEPT !.op = "disable", !.on = TRUE]
    <3>1. c \in Call /\ c.op = "disable" /\ CheckCode(r, x, c, "disable")
      BY <2>2 DEF DisableTwoFactor, Idle, Call, Null, Ops
    <3> HIDE DEF c
    <3> QED BY <1>5, <3>1
  <2>3. ASSUME NEW x \in told, CheckChallenge(r, x) PROVE \A q \in Requests : Moves(call[q], call'[q])
    BY <1>0, <1>5, <2>3 DEF CheckChallenge, At
  <2>4. ASSUME NEW x \in challenges, FindChallenge(r, x)
        PROVE  \A q \in Requests : Moves(call[q], call'[q])
    BY <1>1, <2>4 DEF FindChallenge, Ops, Steps
  <2>5. CASE WriteEnabled(r)
    BY <1>4, <2>5 DEF WriteEnabled
  <2>6. CASE ConsumeCode(r) \/ SpendChallenge(r)
    BY <1>2, <2>6 DEF ConsumeCode, SpendChallenge, At
  <2>7. CASE WriteDisabled(r)
    <3>1. \A q \in Requests : Moves(call[q], [call[q] EXCEPT !.on = FALSE])
      BY <1>0 DEF Moves, Call
    <3>2. Moves(call[r], Idle)
      BY DEF Moves, Idle
    <3> QED BY <2>7, <3>1, <3>2 DEF WriteDisabled
  <2> QED BY <1>7, <2>1, <2>2, <2>3, <2>4, <2>5, <2>6, <2>7 DEF FactorStep
<1>8. ASSUME NEW r \in Requests, RequestFails(r)
      PROVE  \A q \in Requests : Moves(call[q], call'[q])
  BY <1>4, <1>8 DEF RequestFails
<1>9. CASE UNCHANGED call
  BY <1>9, StillMoves
<1> QED
  BY <1>6, <1>7, <1>8, <1>9 DEF Next, Logout, SetupTwoFactor, Expire, RefreshTokens, vars

------------------------------------------------------------------------------
(* Sessions last until a logout.                                            *)

(* Without a session, every token is from before the last logout: those     *)
(* that browsers have, and those in a stash or with a request.              *)
Backed ==
    user.session = Null =>
       /\ \A t \in clients : t <= loggedOut
       /\ \A s \in stash : s.token <= loggedOut
       /\ \A r \in Requests : /\ At(r, "stash") => call[r].item <= loggedOut
                              /\ At(r, "take") => call[r].code <= loggedOut

LEMMA BackedInit == Init => Backed
BY DEF Init, Backed, At, Idle

LEMMA BackedStep == Typed /\ Backed /\ [Next]_vars => Backed'
<1> SUFFICES ASSUME Typed, Backed, [Next]_vars, user'.session = Null PROVE Backed'
    BY DEF Backed
<1>0. /\ user \in Account /\ call \in [Requests -> Call]
      /\ \A r \in Requests : call[r] \in Call /\ Moves(call[r], call'[r])
    BY HeldMoves DEF Typed, RowTyped, CallsTyped
<1>1. CASE Logout
  <2>1. /\ \A t \in clients : t <= drawn
        /\ \A s \in stash : s.token <= drawn
        /\ \A r \in Requests : call[r].item <= drawn /\ call[r].code <= drawn
    <3>1. clients \subseteq 1 .. drawn /\ stash \subseteq [code : 1 .. drawn, token : 1 .. drawn]
      BY DEF Typed, RestTyped
    <3>2. \A r \in Requests : Sound(call[r], drawn)
      BY DEF Typed, CallsTyped
    <3>3. \A r \in Requests : call[r].item <= drawn /\ call[r].code <= drawn
      BY <3>2 DEF Sound
    <3>4. \A s \in stash : s.token \in 1 .. drawn
      BY <3>1
    <3> QED BY <3>1, <3>3, <3>4, DrawnNat
  <2> QED BY <1>1, <2>1 DEF Logout, Backed, At, redis
<1>2. CASE ~Logout
  <2>1. user.session = Null /\ loggedOut' = loggedOut
    <3>1. ASSUME NEW r \in Requests, AccountStep(r)
          PROVE  user.session = Null /\ loggedOut' = loggedOut
      BY <1>0, <3>1, StoredToken
      DEF AccountStep, Register, CreateUser, SendMail, ResendVerification, Relink, FindLink,
          MarkVerified, Login, FindGoogle, FindByEmail, LinkGoogle, CreateGoogle, CreateChallenge,
          StoreSession, IssueOAuthCode, ExchangeOAuthCode, TakeTokens, Account
    <3>2. ASSUME NEW r \in Requests, FactorStep(r) \/ RequestFails(r)
          PROVE  user.session = Null /\ loggedOut' = loggedOut
      BY <1>0, <3>2
      DEF FactorStep, RequestFails, EnableTwoFactor, DisableTwoFactor, CheckChallenge,
          FindChallenge, WriteEnabled, ConsumeCode, WriteDisabled, SpendChallenge, Account
    <3>3. CASE SetupTwoFactor \/ Expire \/ UNCHANGED vars
      BY <1>0, <3>3 DEF SetupTwoFactor, Expire, vars, Account
    <3> QED BY <1>2, <3>1, <3>2, <3>3 DEF Next, RefreshTokens
  <2>2. \A r \in Requests : /\ At(r, "stash")' => call'[r].item <= loggedOut
                            /\ At(r, "take")' => call'[r].code <= loggedOut
    BY <1>0, <2>1 DEF Backed, At, Moves
  <2>3. /\ \A t \in clients' : t <= loggedOut
        /\ \A s \in stash' : s.token <= loggedOut
    <3>1. ASSUME NEW r \in Requests, IssueOAuthCode(r) \/ TakeTokens(r)
          PROVE  /\ \A t \in clients' : t <= loggedOut
                 /\ \A s \in stash' : s.token <= loggedOut
      BY <2>1, <3>1 DEF IssueOAuthCode, TakeTokens, Backed, At
    <3>2. ASSUME NEW r \in Requests, StoreSession(r)
          PROVE  FALSE
      BY <3>2, StoredToken
    <3>3. CASE Expire
      BY <2>1, <3>3 DEF Expire, Backed
    <3>4. CASE UNCHANGED <<clients, stash>>
      BY <2>1, <3>4 DEF Backed
    <3> QED
      BY <1>2, <3>1, <3>2, <3>3, <3>4
      DEF Next, AccountStep, FactorStep, Register, CreateUser, SendMail, ResendVerification,
          Relink, FindLink, MarkVerified, Login, FindGoogle, FindByEmail, LinkGoogle, CreateGoogle,
          CreateChallenge, ExchangeOAuthCode, RequestFails, EnableTwoFactor, DisableTwoFactor,
          CheckChallenge, FindChallenge, WriteEnabled, ConsumeCode, WriteDisabled, SpendChallenge,
          SetupTwoFactor, RefreshTokens, vars, redis
  <2> QED BY <2>1, <2>2, <2>3 DEF Backed
<1> QED BY <1>1, <1>2

(* A browser can refresh the session it was given until somebody logs out,  *)
(* exchanges that come late included (SessionLasts): some hash of the user's *)
(* is stored till then, and to bcrypt, which reads 72 bytes, the hash of one *)
(* token is that of another (BcryptReads).                                  *)
THEOREM SessionHolds == Spec => []SessionLasts
<1>1. Typed /\ Backed => SessionLasts
  <2> SUFFICES ASSUME Typed, Backed, NEW t \in clients, t > loggedOut
               PROVE  user.session # Null
    BY DEF SessionLasts, MayRefresh, BcryptReads
  <2>1. t \in 1 .. drawn /\ loggedOut \in 0 .. drawn
    BY DEF Typed, RestTyped
  <2>2. ~(t <= loggedOut)
    BY <2>1, DrawnNat
  <2> QED BY <2>2 DEF Backed
<1>2. Spec => [](Typed /\ Backed)
    BY TypedInit, TypedStep, BackedInit, BackedStep, PTL DEF Spec
<1> QED
    BY <1>1, <1>2, PTL

------------------------------------------------------------------------------
(* An active second factor goes with a secret its owner has confirmed.      *)

(* Whoever is about to enable it has confirmed the secret in the row,       *)
(* unless the row has been upset since.                                     *)
Confirming == \A r \in Requests : At(r, "enable") /\ ~upset => call[r].item = user.secret

LEMMA FactorInit == Init => Confirming /\ FactorUsable
BY DEF Init, Confirming, FactorUsable, At, Idle

LEMMA FactorStepped == Typed /\ Confirming /\ FactorUsable /\ [Next]_vars => (Confirming /\ FactorUsable)'
<1> SUFFICES ASSUME Typed, Confirming, FactorUsable, [Next]_vars
             PROVE  Confirming' /\ FactorUsable'
    OBVIOUS
<1>0. /\ user \in Account /\ call \in [Requests -> Call] /\ upset \in BOOLEAN
      /\ \A r \in Requests : call[r] \in Call /\ Moves(call[r], call'[r])
    BY HeldMoves DEF Typed, RowTyped, CallsTyped, RestTyped
<1>1. ASSUME UNCHANGED <<user.enabled, user.secret, confirmed, upset>>
      PROVE  Confirming' /\ FactorUsable'
  BY <1>0, <1>1 DEF Confirming, FactorUsable, At, Moves
<1>2. CASE SetupTwoFactor
  <2>1. user'.enabled = user.enabled /\ call' = call
        /\ upset' = (user.enabled \/ \E r \in Requests : At(r, "enable"))
    BY <1>0, <1>2 DEF SetupTwoFactor, Account
  <2> QED BY <1>0, <2>1 DEF Confirming, FactorUsable, At
<1>3. ASSUME NEW r \in Requests, WriteEnabled(r)
      PROVE  Confirming' /\ FactorUsable'
  <2>1. /\ user'.secret = user.secret /\ upset' = upset /\ confirmed' = call[r].item
        /\ At(r, "enable")
    BY <1>0, <1>3 DEF WriteEnabled, Account
  <2> QED BY <1>0, <2>1 DEF Confirming, FactorUsable, At, Moves
<1>4. ASSUME NEW r \in Requests, WriteDisabled(r)
      PROVE  Confirming' /\ FactorUsable'
  <2>1. /\ ~user'.enabled /\ upset' = (\E q \in Requests : At(q, "enable"))
        /\ \A q \in Requests : At(q, "enable")' => At(q, "enable")
    BY <1>0, <1>4 DEF WriteDisabled, Account, At, Idle, Call
  <2> QED BY <1>0, <2>1 DEF Confirming, FactorUsable, At
<1>5. ASSUME NEW r \in Requests, AccountStep(r)
      PROVE  Confirming' /\ FactorUsable'
  <2>1. UNCHANGED <<user.enabled, user.secret, confirmed, upset>>
    BY <1>0, <1>5
    DEF AccountStep, Register, CreateUser, SendMail, ResendVerification, Relink, FindLink,
        MarkVerified, Login, FindGoogle, FindByEmail, LinkGoogle, CreateGoogle, CreateChallenge,
        StoreSession, IssueOAuthCode, ExchangeOAuthCode, TakeTokens, Account, factor
  <2> QED BY <1>1, <2>1
<1>6. ASSUME NEW r \in Requests, FactorStep(r) \/ RequestFails(r), ~WriteEnabled(r), ~WriteDisabled(r)
      PROVE  Confirming' /\ FactorUsable'
  <2>1. UNCHANGED <<user.enabled, user.secret, confirmed, upset>>
    BY <1>0, <1>6
    DEF FactorStep, RequestFails, EnableTwoFactor, DisableTwoFactor, CheckChallenge, FindChallenge,
        ConsumeCode, SpendChallenge, Account, factor
  <2> QED BY <1>1, <2>1
<1>7. CASE Logout \/ Expire \/ UNCHANGED vars
  <2>1. UNCHANGED <<user.enabled, user.secret, confirmed, upset>>
    BY <1>0, <1>7 DEF Logout, Expire, vars, Account, factor
  <2> QED BY <1>1, <2>1
<1> QED BY <1>2, <1>3, <1>4, <1>5, <1>6, <1>7 DEF Next, RefreshTokens

(* A second factor that is on asks for codes of the secret its owner has    *)
(* confirmed, unless the row was upset meanwhile (FactorUsable).            *)
THEOREM FactorHolds == Spec => []FactorUsable
<1>1. Spec => [](Typed /\ Confirming /\ FactorUsable)
    BY TypedInit, TypedStep, FactorInit, FactorStepped, PTL DEF Spec
<1> QED
    BY <1>1, PTL

------------------------------------------------------------------------------
(* One-time values are good for one use.                                    *)

(* Where a value of each kind can be had: where it is stored, or from a     *)
(* request that has found it there and not yet accepted it.                 *)
IsLink(x) == x = user.link \/ \E r \in Requests : At(r, "mark") /\ call[r].item = x
IsCode(x) == \/ \E s \in stash : s.code = x
             \/ \E r \in Requests : At(r, "take") /\ call[r].item = x
IsChallenge(x) == \/ x \in challenges
                  \/ \E r \in Requests : /\ call[r].op = "verify" /\ ~At(r, "session")
                                         /\ call[r].item = x
IsBackup(x) == x \in user.backup \/ \E r \in Requests : At(r, "consume") /\ x \in call[r].codes

IsLive(x) == IsLink(x) \/ IsCode(x) \/ IsChallenge(x) \/ IsBackup(x)

(* No value is of two kinds. *)
Disjoint ==
    \A x \in Nonces : /\ IsLink(x) => ~IsCode(x) /\ ~IsChallenge(x) /\ ~IsBackup(x)
                      /\ IsCode(x) => ~IsChallenge(x) /\ ~IsBackup(x)
                      /\ IsChallenge(x) => ~IsBackup(x)

(* A value that was accepted without a rival cannot be had any more. *)
Dead == \A x \in used \ contested : ~IsLive(x)

(* What can be had has been drawn. *)
LEMMA LiveDrawn ==
    ASSUME Typed, NEW x, IsLive(x)
    PROVE  x <= drawn
<1>1. /\ user.link <= drawn /\ \A y \in user.backup : y <= drawn
      /\ \A r \in Requests : call[r].item <= drawn /\ \A y \in call[r].codes : y <= drawn
    BY DEF Typed, RowTyped, CallsTyped, Sound
<1>2. challenges \subseteq 1 .. drawn /\ \A s \in stash : s.code \in 1 .. drawn
    BY DEF Typed, RestTyped
<1>3. /\ \A y \in challenges : y <= drawn
      /\ \A s \in stash : s.code <= drawn
    BY <1>2, DrawnNat
<1> QED
    BY <1>1, <1>3 DEF IsLive, IsLink, IsCode, IsChallenge, IsBackup

(* What is stored: values are only taken away, or new ones are stored for   *)
(* one of the four kinds.                                                   *)
LinkStays == user'.link \in {user.link, Null}
CodesStay == stash' \subseteq stash
ChallengesStay == challenges' \subseteq challenges
BackupStays == user'.backup \subseteq user.backup
                \/ \E r \in Requests : At(r, "consume") /\ user'.backup \subseteq call[r].codes

Stored ==
    \/ LinkStays /\ CodesStay /\ ChallengesStay /\ BackupStays
    \/ user'.link > drawn /\ CodesStay /\ ChallengesStay /\ BackupStays
    \/ LinkStays /\ (\A s \in stash' \ stash : s.code > drawn) /\ ChallengesStay /\ BackupStays
    \/ LinkStays /\ CodesStay /\ (\A x \in challenges' \ challenges : x > drawn) /\ BackupStays
    \/ LinkStays /\ CodesStay /\ ChallengesStay /\ (\A x \in user'.backup : x > drawn)

LEMMA StoredStep ==
    ASSUME Typed, [Next]_vars
    PROVE  Stored
<1>0. user \in Account /\ drawn \in Nat /\ Fresh > drawn
    BY DrawnNat DEF Typed, RowTyped, Fresh
<1> USE DEF Stored, LinkStays, CodesStay, ChallengesStay, BackupStays
<1>1. ASSUME NEW r \in Requests, CreateUser(r) \/ Relink(r)
      PROVE  Stored
    BY <1>0, <1>1 DEF CreateUser, Relink, Account, redis
<1>2. ASSUME NEW r \in Requests, IssueOAuthCode(r)
      PROVE  Stored
    BY <1>0, <1>2 DEF IssueOAuthCode
<1>3. ASSUME NEW r \in Requests, CreateChallenge(r)
      PROVE  Stored
    BY <1>0, <1>3 DEF CreateChallenge
<1>4. ASSUME NEW r \in Requests, WriteEnabled(r)
      PROVE  Stored
  <2> DEFINE codes == Fresh .. drawn + BackupCodes
  <2>1. \A x \in codes : x > drawn
    BY <1>0, DrawnNat DEF Fresh
  <2>2. user' = [user EXCEPT !.enabled = TRUE, !.backup = codes] /\ UNCHANGED redis
    BY <1>4 DEF WriteEnabled
  <2> HIDE DEF codes
  <2> QED BY <1>0, <2>1, <2>2 DEF Account, redis
<1>5. ASSUME NEW r \in Requests, ConsumeCode(r)
      PROVE  Stored
    BY <1>0, <1>5 DEF ConsumeCode, Account, redis
<1>6. ASSUME NEW r \in Requests, MarkVerified(r) \/ WriteDisabled(r)
      PROVE  Stored
    BY <1>0, <1>6 DEF MarkVerified, WriteDisabled, Account, redis
<1>7. ASSUME NEW r \in Requests, LinkGoogle(r) \/ CreateGoogle(r) \/ StoreSession(r)
      PROVE  Stored
    BY <1>0, <1>7 DEF LinkGoogle, CreateGoogle, StoreSession, Account, redis
<1>8. CASE Logout \/ SetupTwoFactor \/ Expire
    BY <1>0, <1>8 DEF Logout, SetupTwoFactor, Expire, Account, redis
<1>9. ASSUME NEW r \in Requests, TakeTokens(r) \/ SpendChallenge(r)
      PROVE  Stored
    BY <1>0, <1>9 DEF TakeTokens, SpendChallenge
<1>10. CASE UNCHANGED <<user, redis>>
    BY <1>10 DEF redis
<1> QED
  BY <1>1, <1>2, <1>3, <1>4, <1>5, <1>6, <1>7, <1>8, <1>9, <1>10
  DEF Next, AccountStep, FactorStep, Register, SendMail, ResendVerification, FindLink, Login,
      FindGoogle, FindByEmail, ExchangeOAuthCode, EnableTwoFactor, DisableTwoFactor,
      CheckChallenge, FindChallenge, RequestFails, RefreshTokens, vars

(* So what can be had after a step could be had before it, or is drawn by   *)
(* it for one of the four kinds.                                            *)
LEMMA LinkMoves ==
    ASSUME Typed, [Next]_vars, NEW x \in Nonces, IsLink(x)', LinkStays
    PROVE  IsLink(x)
BY HeldMoves DEF IsLink, LinkStays, Moves, At, Nonces, Null

LEMMA CodeMoves ==
    ASSUME Typed, [Next]_vars, NEW x \in Nonces, IsCode(x)', CodesStay
    PROVE  IsCode(x)
BY HeldMoves DEF IsCode, CodesStay, Moves, At

LEMMA ChallengeMoves ==
    ASSUME Typed, [Next]_vars, NEW x \in Nonces, IsChallenge(x)', ChallengesStay
    PROVE  IsChallenge(x)
BY HeldMoves DEF IsChallenge, ChallengesStay, Moves, At

LEMMA BackupMoves ==
    ASSUME Typed, [Next]_vars, NEW x \in Nonces, IsBackup(x)', BackupStays
    PROVE  IsBackup(x)
BY HeldMoves DEF IsBackup, BackupStays, Moves, At

LEMMA LiveMoves ==
    ASSUME Typed, [Next]_vars, NEW x \in Nonces, x <= drawn
    PROVE  /\ IsLink(x)' => IsLink(x)
           /\ IsCode(x)' => IsCode(x)
           /\ IsChallenge(x)' => IsChallenge(x)
           /\ IsBackup(x)' => IsBackup(x)
<1>0. x \in Nat /\ drawn \in Nat /\ ~(x > drawn)
    BY DrawnNat DEF Nonces
<1>1. IsLink(x)' => IsLink(x)
    BY <1>0, HeldMoves, StoredStep DEF IsLink, Stored, LinkStays, Moves, At, Nonces, Null
<1>2. IsCode(x)' => IsCode(x)
    BY <1>0, HeldMoves, StoredStep DEF IsCode, Stored, CodesStay, Moves, At
<1>3. IsChallenge(x)' => IsChallenge(x)
    BY <1>0, HeldMoves, StoredStep DEF IsChallenge, Stored, ChallengesStay, Moves, At
<1>4. IsBackup(x)' => IsBackup(x)
    BY <1>0, HeldMoves, StoredStep DEF IsBackup, Stored, BackupStays, Moves, At
<1> QED
    BY <1>1, <1>2, <1>3, <1>4

LEMMA DisjointStep == Typed /\ Disjoint /\ [Next]_vars => Disjoint'
<1> SUFFICES ASSUME Typed, Disjoint, [Next]_vars, NEW x \in Nonces
             PROVE  /\ IsLink(x)' => ~IsCode(x)' /\ ~IsChallenge(x)' /\ ~IsBackup(x)'
                    /\ IsCode(x)' => ~IsChallenge(x)' /\ ~IsBackup(x)'
                    /\ IsChallenge(x)' => ~IsBackup(x)'
    BY DEF Disjoint
<1>1. CASE x <= drawn
    BY <1>1, LiveMoves DEF Disjoint
<1>2. CASE ~(x <= drawn)
  <2>1. ~IsLink(x) /\ ~IsCode(x) /\ ~IsChallenge(x) /\ ~IsBackup(x)
      BY <1>2, LiveDrawn DEF IsLive
  <2>2. /\ IsLink(x)' => ~LinkStays
        /\ IsCode(x)' => ~CodesStay
        /\ IsChallenge(x)' => ~ChallengesStay
        /\ IsBackup(x)' => ~BackupStays
      BY <2>1, LinkMoves, CodeMoves, ChallengeMoves, BackupMoves
  <2>3. \/ CodesStay /\ ChallengesStay /\ BackupStays
        \/ LinkStays /\ ChallengesStay /\ BackupStays
        \/ LinkStays /\ CodesStay /\ BackupStays
        \/ LinkStays /\ CodesStay /\ ChallengesStay
      BY StoredStep DEF Stored
  <2> QED
      BY <2>2, <2>3
<1> QED
    BY <1>1, <1>2

(* A value that can be had is accepted, and cannot be had afterwards unless *)
(* a rival holds it.                                                        *)
LEMMA AcceptDead ==
    ASSUME Typed, Dead, UsedOnce, [Next]_vars, NEW x \in Nonces, NEW rivals, Accept(x, rivals),
           IsLive(x), rivals = {} => ~IsLive(x)'
    PROVE  Dead' /\ UsedOnce'
<1>1. UsedOnce'
  <2>1. x \in used => x \in contested
      BY DEF Dead
  <2> QED
      BY <2>1 DEF UsedOnce, Accept
<1>2. ASSUME NEW y \in used' \ contested'
      PROVE  ~IsLive(y)'
  <2>1. CASE y = x
      BY <1>2, <2>1 DEF Accept
  <2>2. CASE y # x
    <3>1. y \in used \ contested
        BY <1>2, <2>2 DEF Accept
    <3>2. y \in Nonces /\ y <= drawn
        BY <3>1, DrawnNat DEF Typed, RestTyped, Nonces
    <3> QED
        BY <3>1, <3>2, LiveMoves DEF Dead, IsLive
  <2> QED
      BY <2>1, <2>2
<1> QED
    BY <1>1, <1>2 DEF Dead

LEMMA DeadStep == Typed /\ Disjoint /\ Dead /\ UsedOnce /\ [Next]_vars => Dead' /\ UsedOnce'
<1> SUFFICES ASSUME Typed, Disjoint, Dead, UsedOnce, [Next]_vars
             PROVE  Dead' /\ UsedOnce'
    OBVIOUS
<1>0. /\ user \in Account /\ call \in [Requests -> Call]
      /\ \A r \in Requests : call[r] \in Call /\ Sound(call[r], drawn)
      /\ drawn \in Nat /\ MaxDraws \in Nat /\ drawn <= MaxDraws
    BY DrawnNat DEF Typed, RowTyped, CallsTyped
<1>1. ASSUME NEW r \in Requests, MarkVerified(r)
      PROVE  Dead' /\ UsedOnce'
  <2>1. call[r].item \in Nonces /\ At(r, "mark")
      BY <1>0, <1>1 DEF MarkVerified, At, Sound, Call, Null
  <2>2. PICK x \in Nonces : x = call[r].item
      BY <2>1
  <2>3. PICK rivals : rivals = {q \in Requests \ {r} :
                                 At(q, "mark") /\ call[q].item = x}
      OBVIOUS
  <2>4. Accept(x, rivals)
      BY <2>2, <2>3, <1>1 DEF MarkVerified
  <2>5. IsLink(x)
      BY <2>1, <2>2 DEF IsLink
  <2>6. ASSUME rivals = {} PROVE ~IsLive(x)'
    <3>1. user'.link = Null /\ \A q \in Requests : ~(At(q, "mark")' /\ call'[q].item = x)
        BY <1>0, <1>1, <2>2, <2>3, <2>6 DEF MarkVerified, Goto, At, Account
    <3>2. ~IsLink(x)'
        BY <3>1 DEF IsLink, Nonces, Null
    <3>3. x <= drawn /\ ~IsCode(x) /\ ~IsChallenge(x) /\ ~IsBackup(x)
        BY <2>5, LiveDrawn DEF IsLive, Disjoint
    <3> QED
        BY <3>2, <3>3, LiveMoves DEF IsLive
  <2> QED
      BY <2>4, <2>5, <2>6, AcceptDead DEF IsLive
<1>2. ASSUME NEW r \in Requests, TakeTokens(r)
      PROVE  Dead' /\ UsedOnce'
  <2>1. call[r].item \in Nonces /\ At(r, "take")
      BY <1>0, <1>2 DEF TakeTokens, At, Sound, Call, Null
  <2>2. PICK x \in Nonces : x = call[r].item
      BY <2>1
  <2>3. PICK rivals : rivals = {q \in Requests \ {r} :
                                 At(q, "take") /\ call[q].item = x}
      OBVIOUS
  <2>4. Accept(x, rivals)
      BY <2>2, <2>3, <1>2 DEF TakeTokens
  <2>5. IsCode(x)
      BY <2>1, <2>2 DEF IsCode
  <2>6. ASSUME rivals = {} PROVE ~IsLive(x)'
    <3>1. /\ \A s \in stash' : s.code # x
          /\ \A q \in Requests : ~(At(q, "take")' /\ call'[q].item = x)
        BY <1>0, <1>2, <2>2, <2>3, <2>6 DEF TakeTokens, Done, Idle, At
    <3>2. ~IsCode(x)'
        BY <3>1 DEF IsCode
    <3>3. x <= drawn /\ ~IsLink(x) /\ ~IsChallenge(x) /\ ~IsBackup(x)
        BY <2>5, LiveDrawn DEF IsLive, Disjoint
    <3> QED
        BY <3>2, <3>3, LiveMoves DEF IsLive
  <2> QED
      BY <2>4, <2>5, <2>6, AcceptDead DEF IsLive
<1>3. ASSUME NEW r \in Requests, ConsumeCode(r)
      PROVE  Dead' /\ UsedOnce'
  <2>1. call[r].code \in Nonces /\ At(r, "consume") /\ call[r].code \in call[r].codes
      BY <1>0, <1>3 DEF ConsumeCode, At, Sound, Call, Null
  <2>2. PICK x \in Nonces : x = call[r].code
      BY <2>1
  <2>3. PICK rivals : rivals = {q \in Requests \ {r} :
                                 At(q, "consume") /\ x \in call[q].codes}
      OBVIOUS
  <2>4. Accept(x, rivals)
      BY <2>2, <2>3, <1>3 DEF ConsumeCode
  <2>5. IsBackup(x)
      BY <2>1, <2>2 DEF IsBackup
  <2>6. ASSUME rivals = {} PROVE ~IsLive(x)'
    <3>1. /\ x \notin user'.backup
          /\ \A q \in Requests : ~(At(q, "consume")' /\ x \in call'[q].codes)
        BY <1>0, <1>3, <2>2, <2>3, <2>6 DEF ConsumeCode, Goto, At, Account, Call
    <3>2. ~IsBackup(x)'
        BY <3>1 DEF IsBackup
    <3>3. x <= drawn /\ ~IsLink(x) /\ ~IsCode(x) /\ ~IsChallenge(x)
        BY <2>5, LiveDrawn DEF IsLive, Disjoint
    <3> QED
        BY <3>2, <3>3, LiveMoves DEF IsLive
  <2> QED
      BY <2>4, <2>5, <2>6, AcceptDead DEF IsLive
<1>4. ASSUME NEW r \in Requests, SpendChallenge(r)
      PROVE  Dead' /\ UsedOnce'
  <2>1. call[r].item \in Nonces /\ At(r, "spend") /\ call[r].op = "verify"
      BY <1>0, <1>4 DEF SpendChallenge, At, Sound, Call, Null
  <2>2. PICK x \in Nonces : x = call[r].item
      BY <2>1
  <2>3. PICK rivals : rivals = {q \in Requests \ {r} :
                                 call[q].op = "verify" /\ call[q].item = x /\ ~At(q, "session")}
      OBVIOUS
  <2>4. Accept(x, rivals)
      BY <2>2, <2>3, <1>4 DEF SpendChallenge
  <2>5. IsChallenge(x)
      BY <2>1, <2>2 DEF IsChallenge, At
  <2>6. ASSUME rivals = {} PROVE ~IsLive(x)'
    <3>1. /\ x \notin challenges'
          /\ \A q \in Requests : ~(call'[q].op = "verify" /\ ~At(q, "session")' /\ call'[q].item = x)
        BY <1>0, <1>4, <2>2, <2>3, <2>6 DEF SpendChallenge, Goto, At, Call
    <3>2. ~IsChallenge(x)'
        BY <3>1 DEF IsChallenge
    <3>3. x <= drawn /\ ~IsLink(x) /\ ~IsCode(x) /\ ~IsBackup(x)
        BY <2>5, LiveDrawn DEF IsLive, Disjoint
    <3> QED
        BY <3>2, <3>3, LiveMoves DEF IsLive
  <2> QED
      BY <2>4, <2>5, <2>6, AcceptDead DEF IsLive
<1>5. CASE UNCHANGED onetime
  <2>1. ASSUME NEW y \in used \ contested
        PROVE  ~IsLive(y)'
    <3>1. y \in Nonces /\ y <= drawn
        BY <1>0 DEF Typed, RestTyped, Nonces
    <3> QED
        BY <3>1, LiveMoves DEF Dead, IsLive
  <2> QED
      BY <1>5, <2>1 DEF Dead, UsedOnce, onetime
<1> QED
  BY <1>1, <1>2, <1>3, <1>4, <1>5
  DEF Next, AccountStep, FactorStep, Register, CreateUser, SendMail, ResendVerification, Relink,
      FindLink, Login, FindGoogle, FindByEmail, LinkGoogle, CreateGoogle, CreateChallenge,
      StoreSession, IssueOAuthCode, ExchangeOAuthCode, EnableTwoFactor, DisableTwoFactor,
      CheckChallenge, FindChallenge, WriteEnabled, WriteDisabled, RequestFails, Logout,
      SetupTwoFactor, Expire, RefreshTokens, vars

(* Links, OAuth codes, challenges and backup codes are good for one use:    *)
(* only what two requests held at once is accepted twice (UsedOnce).        *)
THEOREM OneUse == Spec => []UsedOnce
<1>1. Init => Disjoint /\ Dead /\ UsedOnce
    BY DEF Init, Disjoint, Dead, UsedOnce, IsLink, IsCode, IsChallenge, IsBackup, At, Idle,
           Nonces, Null
<1>2. Spec => [](Typed /\ Disjoint /\ Dead /\ UsedOnce)
    BY TypedInit, TypedStep, DisjointStep, DeadStep, <1>1, PTL DEF Spec
<1> QED
    BY <1>2, PTL

==============================================================================
