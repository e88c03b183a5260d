------------------------------ MODULE Sessions ------------------------------
(***************************************************************************)
(* One user in one browser: AuthService and its refresh sessions, the      *)
(* cookie jar the tabs share, and the response interceptor of each tab     *)
(* that turns a 401 into one silent refresh and repeats the request.       *)
(*                                                                         *)
(* Two tokens signed for a user within one second are the same string:     *)
(* the payload has no jti.  A token is therefore named by the second it    *)
(* was signed in, and access and refresh token of one answer share it.     *)
(* Time moves only as far as the tokens tell apart; refresh tokens do not  *)
(* grow old (seven days).                                                  *)
(***************************************************************************)
EXTENDS Naturals, FiniteSets

CONSTANTS
  Tabs, Requests,
  TabOf,      \* [Requests -> Tabs], the tab that sends the request
  Mixes,      \* bound: [Requests -> AllForms], what is asked together
  MaxSecond,  \* bound: seconds in which tokens are signed
  MaxFaults   \* bound: lost answers and failures of servers, Redis, database

AllForms == {"api", "ai", "login", "mistyped", "logout"}

ASSUME TabAssumption == TabOf \in [Requests -> Tabs] /\ IsFiniteSet(Requests)
ASSUME MixAssumption == Mixes \subseteq [Requests -> AllForms]
ASSUME BoundAssumption == MaxSecond \in Nat \ {0} /\ MaxFaults \in Nat

VARIABLES
  now, expired, \* the second it is; access tokens up to expired have expired
  sessions,     \* refresh_sessions: tokens with a row
  revoked,      \* access tokens in the blacklist
  era, password,\* [seconds -> the password the row's login was checked against]
  reset,        \* where a password reset from elsewhere is
  jar,          \* [access, refresh]: the cookies, 0 for none
  authed,       \* tabs whose auth store says authenticated
  refreshing,   \* tabs whose interceptor has isRefreshing
  gone,         \* requests whose page was replaced by the login page
  form, at,     \* [Requests -> what is asked, where it is]
  retried,      \* requests with _retry
  sent,         \* [Requests -> the cookies the last message carried]
  fresh,        \* [Requests -> [token, era] it is about to be given, 0 unsigned]
  faults,
  alarm,        \* observation: a refresh was taken for a replay
  quiet,        \* observation: nothing so far excuses such an alarm
  signed,       \* observation: seconds in which a token was signed
  alone,        \* observation: logouts that overlapped no login or refresh
  out           \* observation: the token a lone logout ended, until a login

clockVars == <<now, expired>>
serverVars == <<sessions, revoked, era, password, reset>>
browserVars == <<jar, authed, refreshing, gone>>
requestVars == <<form, at, retried, sent, fresh>>
watchVars == <<alarm, quiet, signed, alone, out>>
vars == <<clockVars, serverVars, browserVars, requestVars, watchVars, faults>>

Seconds == 1 .. MaxSecond
Tokens == 0 .. MaxSecond
Cookies == [access : Tokens, refresh : Tokens]
Exchange ==
  {"refresh", "found", "unknown", "consumed", "rotate", "renewed", "denied", "failed"}
Served == {"sent", "checked", "create", "revoke", "drop"}
Replies == {"ok", "401", "error"}
\* A row is slipped if its request was past its check of the old password, or
\* past its deletion of such a row, when the sessions were purged.
Eras == {"old", "slipped", "new"}
Places == {"idle", "waiting", "done"} \union Exchange \union Served \union Replies

TypeOK ==
  /\ now \in Seconds /\ expired \in 0 .. MaxSecond
  /\ sessions \subseteq Seconds /\ revoked \subseteq Tokens
  /\ era \in [Seconds -> Eras] /\ password \in {"old", "new"}
  /\ reset \in {"none", "updated", "done"}
  /\ jar \in Cookies
  /\ authed \subseteq Tabs /\ refreshing \subseteq Tabs
  /\ gone \subseteq Requests /\ retried \subseteq Requests /\ alone \subseteq Requests
  /\ form \in [Requests -> AllForms] /\ at \in [Requests -> Places]
  /\ sent \in [Requests -> Cookies]
  /\ fresh \in [Requests -> [token : Tokens, era : Eras]]
  /\ faults \in 0 .. MaxFaults
  /\ alarm \in BOOLEAN /\ quiet \in BOOLEAN
  /\ signed \subseteq Seconds /\ out \in Tokens

NoCookies == [access |-> 0, refresh |-> 0]
Pair(n) == [access |-> n, refresh |-> n]
NotFresh == [token |-> 0, era |-> "old"]

Init ==
  /\ now = 1 /\ expired = 0
  /\ sessions = {1} /\ revoked = {}
  /\ era = [n \in Seconds |-> "old"] /\ password = "old" /\ reset = "none"
  /\ jar = Pair(1) /\ authed = Tabs /\ refreshing = {} /\ gone = {}
  /\ form \in Mixes /\ at = [r \in Requests |-> "idle"]
  /\ retried = {} /\ sent = [r \in Requests |-> NoCookies]
  /\ fresh = [r \in Requests |-> NotFresh]
  /\ faults = 0 /\ alarm = FALSE /\ quiet = TRUE /\ signed = {1}
  /\ alone = {} /\ out = 0

Fault == faults < MaxFaults /\ faults' = faults + 1
Goto(r, place) == at' = [at EXCEPT ![r] = place]
Others(r) == {q \in Requests \ {r} : TabOf[q] = TabOf[r]}
Valid(n) == n > expired /\ n \notin revoked

Underway == Exchange \union Served \union Replies
Exchanging == {r \in Requests : at[r] \in Exchange}
\* Logins and logouts that are on their way: they change the cookies too.
Signing == {r \in Requests : form[r] \in {"login", "logout"} /\ at[r] \in Underway}

-----------------------------------------------------------------------------
\* The tab sends a request.  A tab that is not authenticated shows the login
\* page.
MaySend(r) ==
  IF form[r] \in {"login", "mistyped"} THEN TabOf[r] \notin authed ELSE TabOf[r] \in authed

Send(r) ==
  /\ at[r] = "idle" /\ MaySend(r)
  /\ Goto(r, "sent")
  /\ sent' = [sent EXCEPT ![r] = jar]
  /\ quiet' = (quiet /\ (form[r] \in {"login", "logout"} => Exchanging = {}))
  /\ alone' = IF form[r] = "logout" /\ Exchanging \union Signing = {}
                THEN alone \union {r}
                ELSE IF form[r] = "login" THEN {} ELSE alone
  /\ UNCHANGED <<clockVars, serverVars, browserVars, form, retried, fresh, alarm, signed,
                 out, faults>>

\* JwtStrategy, and the handlers that keep no state.
Judge(r) ==
  /\ at[r] = "sent" /\ form[r] \in {"api", "ai", "mistyped"}
  /\ Goto(r, IF form[r] # "mistyped" /\ Valid(sent[r].access) THEN "ok" ELSE "401")
  /\ UNCHANGED <<clockVars, serverVars, browserVars, form, retried, sent, fresh, watchVars, faults>>

\* What a request has been checked for and waits to be signed.
Checked(r, e) == fresh' = [fresh EXCEPT ![r] = [token |-> 0, era |-> e]]

\* login: the row is read, and the password compared with the hash in it.
Login(r) ==
  /\ at[r] = "sent" /\ form[r] = "login"
  /\ Checked(r, password)
  /\ Goto(r, "checked")
  /\ out' = 0
  /\ UNCHANGED <<clockVars, serverVars, browserVars, form, retried, sent,
                 alarm, quiet, signed, alone, faults>>

\* generateTokens signs for the current second and inserts the row later.
Sign(r, here, there) ==
  /\ at[r] = here
  /\ fresh' = [fresh EXCEPT ![r] = [token |-> now, era |-> fresh[r].era]]
  /\ signed' = signed \union {now}
  /\ quiet' = (quiet /\ now \notin signed)
  /\ Goto(r, there)
  /\ UNCHANGED <<clockVars, serverVars, browserVars, form, retried, sent,
                 alarm, alone, out, faults>>
SignLogin(r) == Sign(r, "checked", "create")

\* createRefreshSession: tokenHash is unique, so a second token of the same
\* second is refused.
Create(r, here, there, refused) ==
  /\ at[r] = here
  /\ LET n == fresh[r].token IN
       IF n \in sessions
         THEN Goto(r, refused) /\ UNCHANGED <<sessions, era>>
         ELSE /\ Goto(r, there)
              /\ sessions' = sessions \union {n}
              /\ era' = [era EXCEPT ![n] = fresh[r].era]
  /\ UNCHANGED <<clockVars, revoked, password, reset, browserVars,
                 form, retried, sent, fresh, watchVars, faults>>
CreateLogin(r) == Create(r, "create", "ok", "error")

\* logout: blacklist the access token, then delete this device's session.
EnterLogout(r) ==
  /\ at[r] = "sent" /\ form[r] = "logout"
  /\ Goto(r, IF Valid(sent[r].access) THEN "revoke" ELSE "401")
  /\ UNCHANGED <<clockVars, serverVars, browserVars, form, retried, sent, fresh, watchVars, faults>>

MutRevoke(r) ==
  /\ at[r] = "revoke"
  /\ Goto(r, "drop")
  /\ UNCHANGED <<clockVars, serverVars, browserVars, form, retried, sent, fresh, watchVars, faults>>
Revoke(r) ==
  /\ at[r] = "revoke"
  /\ revoked' = revoked \union {sent[r].access}
  /\ Goto(r, "drop")
  /\ UNCHANGED <<clockVars, sessions, era, password, reset, browserVars,
                 form, retried, sent, fresh, watchVars, faults>>

\* The blacklist swallows its errors.
RevokeErrs(r) ==
  /\ at[r] = "revoke" /\ Fault
  /\ Goto(r, "drop")
  /\ alone' = alone \ {r}
  /\ UNCHANGED <<clockVars, serverVars, browserVars, form, retried, sent, fresh,
                 alarm, quiet, signed, out>>

\* Without a refresh cookie every session of the user goes.
DropSession(r) ==
  /\ at[r] = "drop"
  /\ sessions' = IF sent[r].refresh = 0 THEN {} ELSE sessions \ {sent[r].refresh}
  /\ Goto(r, "ok")
  /\ UNCHANGED <<clockVars, revoked, era, password, reset, browserVars,
                 form, retried, sent, fresh, watchVars, faults>>

-----------------------------------------------------------------------------
\* POST /auth/refresh.  Without a cookie the guard refuses at once.
Find(r) ==
  /\ at[r] = "refresh"
  /\ Goto(r, CASE sent[r].refresh = 0 -> "denied"
               [] sent[r].refresh \in sessions -> "found"
               [] OTHER -> "unknown")
  /\ UNCHANGED <<clockVars, serverVars, browserVars, form, retried, sent, fresh, watchVars, faults>>

\* consumeRefreshSession deletes the row it has found; a row that is gone by
\* then makes the delete throw.
MutConsume(r) ==
  /\ at[r] = "found"
  /\ Checked(r, era[sent[r].refresh])
  /\ sessions' = sessions \ {sent[r].refresh}
  /\ Goto(r, "consumed")
  /\ UNCHANGED <<clockVars, revoked, era, password, reset, browserVars,
                 form, retried, sent, watchVars, faults>>
Consume(r) ==
  /\ at[r] = "found" /\ sent[r].refresh \in sessions
  /\ Checked(r, era[sent[r].refresh])
  /\ sessions' = sessions \ {sent[r].refresh}
  /\ Goto(r, "consumed")
  /\ UNCHANGED <<clockVars, revoked, era, password, reset, browserVars,
                 form, retried, sent, watchVars, faults>>

ConsumeInVain(r) ==
  /\ at[r] = "found" /\ sent[r].refresh \notin sessions
  /\ Goto(r, "failed")
  /\ UNCHANGED <<clockVars, serverVars, browserVars, form, retried, sent, fresh, watchVars, faults>>

SignRotated(r) == Sign(r, "consumed", "rotate")
Rotate(r) == Create(r, "rotate", "renewed", "failed")

\* "Possible replay attack": every session of the user is deleted.
Alarm(r) ==
  /\ at[r] = "unknown"
  /\ sessions' = {} /\ alarm' = TRUE
  /\ Goto(r, "denied")
  /\ UNCHANGED <<clockVars, revoked, era, password, reset, browserVars,
                 form, retried, sent, fresh, quiet, signed, alone, out, faults>>

-----------------------------------------------------------------------------
\* The answer reaches the browser: cookies first, then the tab's code.  A
\* page that was replaced may have taken the cookies, and runs no code.
Answered(r, cookies) ==
  /\ Goto(r, "done")
  /\ IF r \in gone THEN jar' \in {jar, cookies} ELSE jar' = cookies

SignIn(r) ==
  /\ at[r] = "ok" /\ form[r] = "login"
  /\ Answered(r, Pair(fresh[r].token))
  /\ authed' = IF r \in gone THEN authed ELSE authed \union {TabOf[r]}
  /\ UNCHANGED <<clockVars, serverVars, refreshing, gone, form, retried, sent, fresh,
                 watchVars, faults>>

SignOut(r) ==
  /\ at[r] = "ok" /\ form[r] = "logout"
  /\ Answered(r, NoCookies)
  /\ authed' = authed \ {TabOf[r]}
  /\ out' = IF r \in alone \ gone THEN sent[r].access ELSE out
  /\ UNCHANGED <<clockVars, serverVars, refreshing, gone, form, retried, sent, fresh,
                 alarm, quiet, signed, alone, faults>>

\* Any other answer that ends the request.  header.tsx leaves the dashboard
\* however its logout ended.
Finish(r) ==
  /\ \/ at[r] = "ok" /\ form[r] \in {"api", "ai"}
     \/ at[r] = "error"
     \/ at[r] = "401" /\ (form[r] = "ai" \/ r \in retried \union gone)
  /\ Goto(r, "done")
  /\ authed' = IF form[r] = "logout" THEN authed \ {TabOf[r]} ELSE authed
  /\ UNCHANGED <<clockVars, serverVars, jar, refreshing, gone, form, retried, sent, fresh,
                 watchVars, faults>>

Unauthorised(r) == at[r] = "401" /\ form[r] # "ai" /\ r \notin retried \union gone

Wait(r) ==
  /\ Unauthorised(r) /\ TabOf[r] \in refreshing
  /\ Goto(r, "waiting")
  /\ UNCHANGED <<clockVars, serverVars, browserVars, form, retried, sent, fresh,
                 watchVars, faults>>

\* One refresh at a time in a tab; other tabs know nothing of it.
MutMayRefresh(r) == Unauthorised(r)
MayRefresh(r) == Unauthorised(r) /\ TabOf[r] \notin refreshing
Refresh(r) ==
  /\ MayRefresh(r)
  /\ retried' = retried \union {r}
  /\ refreshing' = refreshing \union {TabOf[r]}
  /\ sent' = [sent EXCEPT ![r] = jar]
  /\ Goto(r, "refresh")
  /\ quiet' = (quiet /\ Signing \ {r} = {} /\ \A q \in Exchanging : TabOf[q] = TabOf[r])
  /\ alone' = {}
  /\ UNCHANGED <<clockVars, serverVars, jar, authed, gone, form, fresh, alarm, signed,
                 out, faults>>

\* processQueue: whoever waited is sent again or rejected.
Waiters(r) == {q \in Others(r) : at[q] = "waiting"}

\* The cookies are new: the request and those that waited are sent again.
Renewed(r) ==
  /\ at[r] = "renewed"
  /\ jar' = Pair(fresh[r].token)
  /\ at' = [q \in Requests |-> IF q \in Waiters(r) \union {r} THEN "sent" ELSE at[q]]
  /\ sent' = [q \in Requests |->
                IF q \in Waiters(r) \union {r} THEN Pair(fresh[r].token) ELSE sent[q]]
  /\ refreshing' = refreshing \ {TabOf[r]}
  /\ UNCHANGED <<clockVars, serverVars, authed, gone, form, retried, fresh, watchVars, faults>>

\* The tab forgets its user and loads the login page.  The cookies stay.
MutRejected(r) == {r}
Rejected(r) == Waiters(r) \union {r}
Refused(r) ==
  /\ at[r] \in {"denied", "failed"}
  /\ at' = [q \in Requests |-> IF q \in Rejected(r) THEN "done" ELSE at[q]]
  /\ refreshing' = refreshing \ {TabOf[r]}
  /\ authed' = authed \ {TabOf[r]}
  /\ gone' = gone \union {q \in Others(r) : at[q] \in Underway}
  /\ UNCHANGED <<clockVars, serverVars, jar, form, retried, sent, fresh, watchVars, faults>>

-----------------------------------------------------------------------------
\* A server or its database fails, or the answer is lost.
Break(r) ==
  /\ at[r] \in Underway \ {"error", "failed"} /\ Fault
  /\ Goto(r, IF at[r] \in Exchange THEN "failed" ELSE "error")
  /\ quiet' = FALSE
  /\ UNCHANGED <<clockVars, serverVars, browserVars, form, retried, sent, fresh,
                 alarm, signed, alone, out>>

\* resetPassword on another device: the hash first, then every session.
ResetPassword ==
  /\ reset = "none" /\ reset' = "updated"
  /\ password' = "new"
  /\ UNCHANGED <<clockVars, sessions, revoked, era, browserVars, requestVars,
                 watchVars, faults>>

\* A request that is past its check or its deletion escapes it, signed or not.
Pending ==
  {r \in Requests : at[r] \in {"checked", "create", "consumed", "rotate"} /\ fresh[r].era = "old"}
Slip ==
  fresh' = [r \in Requests |-> [token |-> fresh[r].token,
                                era |-> IF r \in Pending THEN "slipped" ELSE fresh[r].era]]
MutPurge ==
  /\ reset = "updated" /\ reset' = "done"
  /\ sessions' = sessions \ {jar.refresh} /\ quiet' = FALSE
  /\ Slip
  /\ UNCHANGED <<clockVars, revoked, era, password, browserVars, form, at, retried, sent,
                 alarm, signed, alone, out, faults>>
Purge ==
  /\ reset = "updated" /\ reset' = "done"
  /\ sessions' = {} /\ quiet' = FALSE
  /\ Slip
  /\ UNCHANGED <<clockVars, revoked, era, password, browserVars, form, at, retried, sent,
                 alarm, signed, alone, out, faults>>

Tick ==
  /\ now < MaxSecond /\ now' = now + 1
  /\ UNCHANGED <<expired, serverVars, browserVars, requestVars, watchVars, faults>>
Expire ==
  /\ expired + 1 < now /\ expired' = expired + 1
  /\ UNCHANGED <<now, serverVars, browserVars, requestVars, watchVars, faults>>

-----------------------------------------------------------------------------
Serve(r) ==
  \/ Judge(r) \/ Login(r) \/ SignLogin(r) \/ CreateLogin(r)
  \/ EnterLogout(r) \/ Revoke(r) \/ RevokeErrs(r) \/ DropSession(r)
  \/ Find(r) \/ Consume(r) \/ ConsumeInVain(r) \/ SignRotated(r) \/ Rotate(r) \/ Alarm(r)
Receive(r) ==
  \/ SignIn(r) \/ SignOut(r) \/ Finish(r) \/ Wait(r) \/ Refresh(r) \/ Renewed(r) \/ Refused(r)

Next ==
  \/ \E r \in Requests : Send(r) \/ Serve(r) \/ Receive(r) \/ Break(r)
  \/ ResetPassword \/ Purge \/ Tick \/ Expire

Spec == Init /\ [][Next]_vars

\* Servers work and the network delivers, or the request breaks.
FairSpec == Spec /\ \A r \in Requests : WF_vars(Serve(r)) /\ WF_vars(Receive(r))

-----------------------------------------------------------------------------
\* Rotation never multiplies sessions: what is alive or about to be is at
\* most the session of the start and one for each login.
SessionsDontFork ==
  Cardinality(sessions) + Cardinality({r \in Requests : at[r] \in {"consumed", "rotate"}})
    <= 1 + Cardinality({r \in Requests :
                          form[r] = "login" /\ at[r] \notin {"idle", "sent", "checked"}})

\* A refresh is taken for a replay only after tabs refreshed together or
\* during a login or logout, something failed, two tokens shared a second or
\* the password was reset: never because of one tab's own requests.
NoFalseAlarm == alarm => ~quiet

\* After a logout that overlapped no login and no refresh the browser has no
\* cookies, the session has no row, and the access token is refused.
SignedOut ==
  out # 0 => jar = NoCookies /\ out \notin sessions /\ ~Valid(out)

\* resetPassword's "invalidate all existing sessions", as far as it is true:
\* the rows of the purge are gone, and so is whatever would have rotated them.
\* What is left of the old password stems from a login that was past its check
\* of the hash, or a refresh that was past its deletion, when the purge ran.
ResetEndsSessions ==
  reset = "done" => \A n \in sessions : era[n] \in {"new", "slipped"}

\* Every request a tab has sent ends: nobody waits for a refresh for ever.
RequestsAreAnswered ==
  \A r \in Requests : at[r] # "idle" ~> at[r] = "done"
=============================================================================
