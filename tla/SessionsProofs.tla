--------------------------- MODULE SessionsProofs ---------------------------
(***************************************************************************)
(* Theorems about Sessions, for any number of tabs and requests, any mix   *)
(* of what they ask, any number of seconds and faults.                     *)
(***************************************************************************)
EXTENDS Sessions, FiniteSetTheorems, TLAPS

\* What is asked decides which places a request can be in, both cookies are
\* always of one token, who logs out has an access token, and who is about to
\* insert a row has signed its token.
Placed ==
  /\ jar.access = jar.refresh
  /\ \A r \in Requests :
       /\ sent[r].access = sent[r].refresh
       /\ at[r] \in {"revoke", "drop"} => form[r] = "logout" /\ sent[r].access # 0
       /\ at[r] \in {"checked", "create"} => form[r] = "login"
       /\ at[r] \in {"create", "rotate"} => fresh[r].token # 0
       /\ form[r] = "login" => at[r] \in {"idle", "sent", "checked", "create", "ok", "error", "done"}

\* The interceptor of a tab: one exchange at a time, by a request whose page
\* is still there.
Exclusive ==
  /\ \A r \in Exchanging : TabOf[r] \in refreshing
  /\ \A q, r \in Exchanging : TabOf[q] = TabOf[r] => q = r
  /\ \A r \in gone : at[r] \in Underway \union {"done"} /\ at[r] \notin Exchange

\* Sessions and those about to be: the sum that rotation does not raise.
Creating == {r \in Requests : at[r] = "create"}
Rotating == {r \in Requests : at[r] \in {"consumed", "rotate"}}
LoggedIn == {r \in Requests : form[r] = "login" /\ at[r] \notin {"idle", "sent", "checked"}}
Counted ==
  Cardinality(sessions) + Cardinality(Rotating) + Cardinality(Creating)
    <= 1 + Cardinality(LoggedIn)

\* After a reset only what slipped through its purge is of the old password.
Renewing == {r \in Requests : at[r] \in {"checked", "create", "consumed", "rotate"}}
Purged ==
  /\ reset # "none" => password = "new"
  /\ reset = "done" =>
       /\ \A n \in sessions : era[n] # "old"
       /\ \A r \in Renewing : fresh[r].era # "old"

\* A logout that is alone meets no exchange and no login; what it ended stays
\* ended.
Fresh(r) == form[r] = "login" /\ at[r] \in {"checked", "create", "ok"}
LoneLogouts ==
  /\ \A r \in alone : form[r] = "logout" /\ at[r] # "idle"
  /\ alone # {} =>
       Exchanging = {} /\ \A r \in Requests : form[r] = "login" => at[r] \notin Underway
  /\ \A r \in alone :
       /\ at[r] \in {"drop", "ok"} => sent[r].access \in revoked
       /\ at[r] = "ok" => sent[r].refresh \notin sessions
  /\ out # 0 =>
       /\ jar = NoCookies /\ out \notin sessions /\ ~Valid(out)
       /\ \A r \in Requests : ~Fresh(r)
       /\ \A r \in Exchanging :
            at[r] \in {"refresh", "denied", "failed"} /\ sent[r].refresh = 0

\* While nothing excuses a false alarm: exchanges, logins and logouts do not
\* overlap, each token is signed once, and the cookie a refresh will present
\* has a row.
InFlight(r) ==
  \/ form[r] = "login" /\ at[r] \in {"create", "ok"}
  \/ at[r] \in {"rotate", "renewed"}
Apart ==
  /\ \A r \in Exchanging, q \in Exchanging \union Signing : q = r
  /\ \A r \in Requests :
       form[r] \in {"login", "logout"} /\ at[r] \in Underway => r \notin gone
Distinct ==
  /\ sessions \subseteq signed /\ jar.refresh \in signed \union {0}
  /\ \A r \in Requests : sent[r].refresh \in signed \union {0}
  /\ \A r \in Requests : InFlight(r) =>
       /\ fresh[r].token \in signed
       /\ jar.refresh # fresh[r].token
       /\ \A q \in Requests : sent[q].refresh # fresh[r].token
       /\ \A q \in Requests : InFlight(q) /\ fresh[q].token = fresh[r].token => q = r
       /\ at[r] \in {"create", "rotate"} <=> fresh[r].token \notin sessions
Backed ==
  /\ \A r \in Requests : at[r] = "refresh" => sent[r].refresh \in sessions \union {0}
  /\ \A r \in Requests : at[r] # "unknown"
  /\ \/ jar.refresh \in sessions \union {0}
     \/ \E r \in Requests : at[r] \in {"consumed", "rotate", "renewed"}
     \/ \E r \in Requests : form[r] = "logout" /\ at[r] = "ok"
Calm == quiet => Apart /\ Distinct /\ Backed /\ ~alarm

Inductive ==
  TypeOK /\ Placed /\ Exclusive /\ Counted /\ Purged /\ LoneLogouts /\ Calm

-----------------------------------------------------------------------------
\* Every step keeps types.
LEMMA TypesStep ==
  ASSUME TypeOK, Placed, [Next]_vars
  PROVE  TypeOK'
<1> USE TabAssumption, MixAssumption, BoundAssumption DEF TypeOK, vars, clockVars,
        serverVars, browserVars, requestVars, watchVars, Seconds, Tokens, Cookies, Places,
        Eras, Exchange, Served, Replies, Pair, NoCookies, Goto, Fault
<1>1. CASE UNCHANGED vars
  BY <1>1
<1>2. ASSUME NEW r \in Requests, Send(r) PROVE TypeOK'
  BY <1>2 DEF Send
<1>3. ASSUME NEW r \in Requests, Judge(r) PROVE TypeOK'
  BY <1>3 DEF Judge
<1>4. ASSUME NEW r \in Requests, Login(r) PROVE TypeOK'
  BY <1>4 DEF Login, Checked
<1>5. ASSUME NEW r \in Requests, CreateLogin(r) PROVE TypeOK'
  <2>1. CASE fresh[r].token \in sessions
    BY <1>5, <2>1 DEF CreateLogin, Create
  <2>2. CASE fresh[r].token \notin sessions
    <3>1. fresh[r].token \in Seconds /\ fresh[r].era \in Eras
      BY <1>5 DEF CreateLogin, Create, Placed
    <3> QED BY <1>5, <2>2, <3>1 DEF CreateLogin, Create
  <2> QED BY <2>1, <2>2
<1>6. ASSUME NEW r \in Requests, EnterLogout(r) PROVE TypeOK'
  BY <1>6 DEF EnterLogout
<1>7. ASSUME NEW r \in Requests, Revoke(r) PROVE TypeOK'
  BY <1>7 DEF Revoke
<1>8. ASSUME NEW r \in Requests, RevokeErrs(r) PROVE TypeOK'
  BY <1>8 DEF RevokeErrs
<1>9. ASSUME NEW r \in Requests, DropSession(r) PROVE TypeOK'
  BY <1>9 DEF DropSession
<1>10. ASSUME NEW r \in Requests, Find(r) PROVE TypeOK'
  BY <1>10 DEF Find
<1>11. ASSUME NEW r \in Requests, Consume(r) PROVE TypeOK'
  <2>1. fresh' \in [Requests -> [token : Tokens, era : Eras]]
    BY <1>11 DEF Consume, Checked
  <2> QED BY <1>11, <2>1 DEF Consume
<1>12. ASSUME NEW r \in Requests, ConsumeInVain(r) PROVE TypeOK'
  BY <1>12 DEF ConsumeInVain
<1>13. ASSUME NEW r \in Requests, Rotate(r) PROVE TypeOK'
  <2>1. CASE fresh[r].token \in sessions
    BY <1>13, <2>1 DEF Rotate, Create
  <2>2. CASE fresh[r].token \notin sessions
    <3>1. fresh[r].token \in Seconds /\ fresh[r].era \in Eras
      BY <1>13 DEF Rotate, Create, Placed
    <3> QED BY <1>13, <2>2, <3>1 DEF Rotate, Create
  <2> QED BY <2>1, <2>2
<1>14. ASSUME NEW r \in Requests, Alarm(r) PROVE TypeOK'
  BY <1>14 DEF Alarm
<1>15. ASSUME NEW r \in Requests, SignIn(r) PROVE TypeOK'
  BY <1>15 DEF SignIn, Answered
<1>16. ASSUME NEW r \in Requests, SignOut(r) PROVE TypeOK'
  BY <1>16 DEF SignOut, Answered
<1>17. ASSUME NEW r \in Requests, Finish(r) PROVE TypeOK'
  BY <1>17 DEF Finish
<1>18. ASSUME NEW r \in Requests, Wait(r) PROVE TypeOK'
  BY <1>18 DEF Wait
<1>19. ASSUME NEW r \in Requests, Refresh(r) PROVE TypeOK'
  BY <1>19 DEF Refresh
<1>20. ASSUME NEW r \in Requests, Renewed(r) PROVE TypeOK'
  BY <1>20 DEF Renewed
<1>21. ASSUME NEW r \in Requests, Refused(r) PROVE TypeOK'
  <2>1. at' \in [Requests -> Places] /\ gone' \subseteq Requests
    BY <1>21 DEF Refused, Others
  <2>2. refreshing' \subseteq Tabs /\ authed' \subseteq Tabs
    BY <1>21 DEF Refused
  <2> QED BY <1>21, <2>1, <2>2 DEF Refused
<1>22. ASSUME NEW r \in Requests, Break(r) PROVE TypeOK'
  <2>1. faults' \in 0 .. MaxFaults /\ at' \in [Requests -> Places]
    BY <1>22 DEF Break
  <2> QED BY <1>22, <2>1 DEF Break
<1>23. CASE ResetPassword
  BY <1>23 DEF ResetPassword
<1>24. CASE Purge
  <2>1. fresh' \in [Requests -> [token : Tokens, era : Eras]]
    BY <1>24 DEF Purge, Slip
  <2> QED BY <1>24, <2>1 DEF Purge
<1>25. CASE Tick
  BY <1>25 DEF Tick
<1>26. CASE Expire
  BY <1>26 DEF Expire
<1>27. ASSUME NEW r \in Requests, SignLogin(r) PROVE TypeOK'
  <2>1. now \in Tokens /\ fresh[r].era \in Eras
    OBVIOUS
  <2>2. fresh' \in [Requests -> [token : Tokens, era : Eras]]
    BY <1>27, <2>1 DEF SignLogin, Sign
  <2>3. at' \in [Requests -> Places] /\ signed' \subseteq Seconds /\ quiet' \in BOOLEAN
    BY <1>27 DEF SignLogin, Sign
  <2> QED BY <1>27, <2>2, <2>3 DEF SignLogin, Sign
<1>28. ASSUME NEW r \in Requests, SignRotated(r) PROVE TypeOK'
  <2>1. now \in Tokens /\ fresh[r].era \in Eras
    OBVIOUS
  <2>2. fresh' \in [Requests -> [token : Tokens, era : Eras]]
    BY <1>28, <2>1 DEF SignRotated, Sign
  <2>3. at' \in [Requests -> Places] /\ signed' \subseteq Seconds /\ quiet' \in BOOLEAN
    BY <1>28 DEF SignRotated, Sign
  <2> QED BY <1>28, <2>2, <2>3 DEF SignRotated, Sign
<1> QED BY <1>1, <1>2, <1>3, <1>4, <1>5, <1>6, <1>7, <1>8, <1>9, <1>10, <1>11, <1>12, <1>13,
           <1>14, <1>15, <1>16, <1>17, <1>18, <1>19, <1>20, <1>21, <1>22, <1>23, <1>24,
           <1>25, <1>26, <1>27, <1>28 DEF Next, Serve, Receive

\* Every step keeps places and cookies.
LEMMA PlacedStep ==
  ASSUME TypeOK, Placed, [Next]_vars
  PROVE  Placed'
<1> USE TabAssumption, BoundAssumption DEF TypeOK, vars, clockVars, serverVars, browserVars,
        requestVars, watchVars, Seconds, Tokens, Cookies, Exchange, Served, Replies, Pair,
        NoCookies, Goto, Valid, Placed, Unauthorised, MayRefresh
<1>1. CASE UNCHANGED vars
  BY <1>1
<1>2. ASSUME NEW r \in Requests, Send(r) PROVE Placed'
  BY <1>2 DEF Send
<1>3. ASSUME NEW r \in Requests, Judge(r) PROVE Placed'
  BY <1>3 DEF Judge
<1>4. ASSUME NEW r \in Requests, Login(r) PROVE Placed'
  BY <1>4 DEF Login, Checked
<1>5. ASSUME NEW r \in Requests, CreateLogin(r) PROVE Placed'
  BY <1>5 DEF CreateLogin, Create
<1>6. ASSUME NEW r \in Requests, EnterLogout(r) PROVE Placed'
  BY <1>6 DEF EnterLogout
<1>7. ASSUME NEW r \in Requests, Revoke(r) PROVE Placed'
  BY <1>7 DEF Revoke
<1>8. ASSUME NEW r \in Requests, RevokeErrs(r) PROVE Placed'
  BY <1>8 DEF RevokeErrs
<1>9. ASSUME NEW r \in Requests, DropSession(r) PROVE Placed'
  BY <1>9 DEF DropSession
<1>10. ASSUME NEW r \in Requests, Find(r) PROVE Placed'
  BY <1>10 DEF Find
<1>11. ASSUME NEW r \in Requests, Consume(r) PROVE Placed'
  BY <1>11 DEF Consume, Checked
<1>12. ASSUME NEW r \in Requests, ConsumeInVain(r) PROVE Placed'
  BY <1>12 DEF ConsumeInVain
<1>13. ASSUME NEW r \in Requests, Rotate(r) PROVE Placed'
  BY <1>13 DEF Rotate, Create
<1>14. ASSUME NEW r \in Requests, Alarm(r) PROVE Placed'
  BY <1>14 DEF Alarm
<1>15. ASSUME NEW r \in Requests, SignIn(r) PROVE Placed'
  BY <1>15 DEF SignIn, Answered
<1>16. ASSUME NEW r \in Requests, SignOut(r) PROVE Placed'
  BY <1>16 DEF SignOut, Answered
<1>17. ASSUME NEW r \in Requests, Finish(r) PROVE Placed'
  BY <1>17 DEF Finish
<1>18. ASSUME NEW r \in Requests, Wait(r) PROVE Placed'
  BY <1>18 DEF Wait
<1>19. ASSUME NEW r \in Requests, Refresh(r) PROVE Placed'
  BY <1>19 DEF Refresh
<1>20. ASSUME NEW r \in Requests, Renewed(r) PROVE Placed'
  BY <1>20 DEF Renewed, Waiters, Others
<1>21. ASSUME NEW r \in Requests, Refused(r) PROVE Placed'
  BY <1>21 DEF Refused, Rejected, Waiters, Others
<1>22. ASSUME NEW r \in Requests, Break(r) PROVE Placed'
  BY <1>22 DEF Break
<1>23. CASE ResetPassword
  BY <1>23 DEF ResetPassword
<1>24. CASE Purge
  <2>1. \A q \in Requests : fresh'[q].token = fresh[q].token
    BY <1>24 DEF Purge, Slip
  <2> QED BY <1>24, <2>1 DEF Purge
<1>25. CASE Tick
  BY <1>25 DEF Tick
<1>26. CASE Expire
  BY <1>26 DEF Expire
<1>27. ASSUME NEW r \in Requests, SignLogin(r) PROVE Placed'
  BY <1>27 DEF SignLogin, Sign
<1>28. ASSUME NEW r \in Requests, SignRotated(r) PROVE Placed'
  BY <1>28 DEF SignRotated, Sign
<1> QED BY <1>1, <1>2, <1>3, <1>4, <1>5, <1>6, <1>7, <1>8, <1>9, <1>10, <1>11, <1>12, <1>13,
           <1>14, <1>15, <1>16, <1>17, <1>18, <1>19, <1>20, <1>21, <1>22, <1>23, <1>24,
           <1>25, <1>26, <1>27, <1>28 DEF Next, Serve, Receive

\* A tab has one exchange at a time.
LEMMA ExclusiveStep ==
  ASSUME TypeOK, Placed, Exclusive, [Next]_vars
  PROVE  Exclusive'
<1> USE TabAssumption, BoundAssumption DEF TypeOK, vars, clockVars, serverVars, browserVars,
        requestVars, watchVars, Seconds, Tokens, Cookies, Exchange, Served, Replies, Pair,
        NoCookies, Goto, Valid, Exclusive, Exchanging, Underway, Unauthorised, MayRefresh
<1>1. CASE UNCHANGED vars
  BY <1>1
<1>2. ASSUME NEW r \in Requests, Send(r) PROVE Exclusive'
  BY <1>2 DEF Send
<1>3. ASSUME NEW r \in Requests, Judge(r) PROVE Exclusive'
  BY <1>3 DEF Judge
<1>4. ASSUME NEW r \in Requests, Login(r) PROVE Exclusive'
  BY <1>4 DEF Login, Checked
<1>5. ASSUME NEW r \in Requests, CreateLogin(r) PROVE Exclusive'
  <2>1. at' = [at EXCEPT ![r] = "ok"] \/ at' = [at EXCEPT ![r] = "error"]
    BY <1>5 DEF CreateLogin, Create
  <2>2. at[r] = "create" /\ UNCHANGED <<refreshing, gone>>
    BY <1>5 DEF CreateLogin, Create
  <2>3. at' \in [Requests -> Places] /\ \A q \in Requests \ {r} : at'[q] = at[q]
    BY <2>1 DEF Places
  <2>4. at'[r] \in {"ok", "error"}
    BY <2>1
  <2>5. Exchanging' \subseteq Exchanging
    BY <2>2, <2>3, <2>4
  <2>6. (\A q \in Exchanging : TabOf[q] \in refreshing)'
    BY <2>2, <2>5
  <2>7. (\A p, q \in Exchanging : TabOf[p] = TabOf[q] => p = q)'
    BY <2>5
  <2>8. (\A q \in gone : at[q] \in Underway \union {"done"} /\ at[q] \notin Exchange)'
    BY <2>2, <2>3, <2>4
  <2> QED BY <2>6, <2>7, <2>8
<1>6. ASSUME NEW r \in Requests, EnterLogout(r) PROVE Exclusive'
  BY <1>6 DEF EnterLogout
<1>7. ASSUME NEW r \in Requests, Revoke(r) PROVE Exclusive'
  BY <1>7 DEF Revoke
<1>8. ASSUME NEW r \in Requests, RevokeErrs(r) PROVE Exclusive'
  BY <1>8 DEF RevokeErrs
<1>9. ASSUME NEW r \in Requests, DropSession(r) PROVE Exclusive'
  BY <1>9 DEF DropSession
<1>10. ASSUME NEW r \in Requests, Find(r) PROVE Exclusive'
  BY <1>10 DEF Find
<1>11. ASSUME NEW r \in Requests, Consume(r) PROVE Exclusive'
  BY <1>11 DEF Consume, Checked
<1>12. ASSUME NEW r \in Requests, ConsumeInVain(r) PROVE Exclusive'
  BY <1>12 DEF ConsumeInVain
<1>13. ASSUME NEW r \in Requests, Rotate(r) PROVE Exclusive'
  <2>1. at' = [at EXCEPT ![r] = "renewed"] \/ at' = [at EXCEPT ![r] = "failed"]
    BY <1>13 DEF Rotate, Create
  <2>2. at[r] = "rotate" /\ UNCHANGED <<refreshing, gone>>
    BY <1>13 DEF Rotate, Create
  <2>3. at' \in [Requests -> Places] /\ \A q \in Requests \ {r} : at'[q] = at[q]
    BY <2>1 DEF Places
  <2>4. at'[r] \in {"renewed", "failed"}
    BY <2>1
  <2>5. Exchanging' \subseteq Exchanging
    BY <2>2, <2>3, <2>4
  <2>6. (\A q \in Exchanging : TabOf[q] \in refreshing)'
    BY <2>2, <2>5
  <2>7. (\A p, q \in Exchanging : TabOf[p] = TabOf[q] => p = q)'
    BY <2>5
  <2>8. (\A q \in gone : at[q] \in Underway \union {"done"} /\ at[q] \notin Exchange)'
    BY <2>2, <2>3, <2>4
  <2> QED BY <2>6, <2>7, <2>8
<1>14. ASSUME NEW r \in Requests, Alarm(r) PROVE Exclusive'
  BY <1>14 DEF Alarm
<1>15. ASSUME NEW r \in Requests, SignIn(r) PROVE Exclusive'
  BY <1>15 DEF SignIn, Answered
<1>16. ASSUME NEW r \in Requests, SignOut(r) PROVE Exclusive'
  BY <1>16 DEF SignOut, Answered
<1>17. ASSUME NEW r \in Requests, Finish(r) PROVE Exclusive'
  BY <1>17 DEF Finish
<1>18. ASSUME NEW r \in Requests, Wait(r) PROVE Exclusive'
  BY <1>18 DEF Wait
<1>19. ASSUME NEW r \in Requests, Refresh(r) PROVE Exclusive'
  BY <1>19 DEF Refresh
<1>20. ASSUME NEW r \in Requests, Renewed(r) PROVE Exclusive'
  BY <1>20 DEF Renewed, Waiters, Others
<1>21. ASSUME NEW r \in Requests, Refused(r) PROVE Exclusive'
  BY <1>21 DEF Refused, Rejected, Waiters, Others
<1>22. ASSUME NEW r \in Requests, Break(r) PROVE Exclusive'
  BY <1>22 DEF Break
<1>23. CASE ResetPassword
  BY <1>23 DEF ResetPassword
<1>24. CASE Purge
  BY <1>24 DEF Purge
<1>25. CASE Tick
  BY <1>25 DEF Tick
<1>26. CASE Expire
  BY <1>26 DEF Expire
<1>27. ASSUME NEW r \in Requests, SignLogin(r) PROVE Exclusive'
  BY <1>27 DEF SignLogin, Sign
<1>28. ASSUME NEW r \in Requests, SignRotated(r) PROVE Exclusive'
  BY <1>28 DEF SignRotated, Sign
<1> QED BY <1>1, <1>2, <1>3, <1>4, <1>5, <1>6, <1>7, <1>8, <1>9, <1>10, <1>11, <1>12, <1>13,
           <1>14, <1>15, <1>16, <1>17, <1>18, <1>19, <1>20, <1>21, <1>22, <1>23, <1>24,
           <1>25, <1>26, <1>27, <1>28 DEF Next, Serve, Receive

\* No step brings a session of the old password back.
LEMMA PurgedStep ==
  ASSUME TypeOK, Placed, Purged, [Next]_vars
  PROVE  Purged'
<1> USE TabAssumption, BoundAssumption DEF TypeOK, vars, clockVars, serverVars, browserVars,
        requestVars, watchVars, Seconds, Tokens, Cookies, Exchange, Served, Replies, Pair,
        NoCookies, Goto, Valid, Purged, Renewing, Pending
<1>1. CASE UNCHANGED vars
  BY <1>1
<1>2. ASSUME NEW r \in Requests, Send(r) PROVE Purged'
  BY <1>2 DEF Send
<1>3. ASSUME NEW r \in Requests, Judge(r) PROVE Purged'
  BY <1>3 DEF Judge
<1>4. ASSUME NEW r \in Requests, Login(r) PROVE Purged'
  BY <1>4 DEF Login, Checked
<1>5. ASSUME NEW r \in Requests, CreateLogin(r) PROVE Purged'
  <2> DEFINE n == fresh[r].token
  <2>1. at' = [at EXCEPT ![r] = at'[r]] /\ at'[r] \notin {"create", "rotate"}
    BY <1>5 DEF CreateLogin, Create
  <2>2. n \in Seconds
    BY <1>5 DEF CreateLogin, Create, Placed
  <2>3. UNCHANGED <<reset, password, fresh>> /\ r \in Renewing
    BY <1>5 DEF CreateLogin, Create
  <2>4. CASE n \in sessions
    BY <1>5, <2>1, <2>3, <2>4 DEF CreateLogin, Create
  <2>5. CASE n \notin sessions
    <3>1. sessions' = sessions \union {n} /\ era' = [era EXCEPT ![n] = fresh[r].era]
      BY <1>5, <2>5 DEF CreateLogin, Create
    <3> HIDE DEF n
    <3> QED BY <2>1, <2>2, <2>3, <2>5, <3>1 DEF n
  <2> QED BY <2>4, <2>5
<1>6. ASSUME NEW r \in Requests, EnterLogout(r) PROVE Purged'
  BY <1>6 DEF EnterLogout
<1>7. ASSUME NEW r \in Requests, Revoke(r) PROVE Purged'
  BY <1>7 DEF Revoke
<1>8. ASSUME NEW r \in Requests, RevokeErrs(r) PROVE Purged'
  BY <1>8 DEF RevokeErrs
<1>9. ASSUME NEW r \in Requests, DropSession(r) PROVE Purged'
  BY <1>9 DEF DropSession
<1>10. ASSUME NEW r \in Requests, Find(r) PROVE Purged'
  BY <1>10 DEF Find
<1>11. ASSUME NEW r \in Requests, Consume(r) PROVE Purged'
  BY <1>11 DEF Consume, Checked
<1>12. ASSUME NEW r \in Requests, ConsumeInVain(r) PROVE Purged'
  BY <1>12 DEF ConsumeInVain
<1>13. ASSUME NEW r \in Requests, Rotate(r) PROVE Purged'
  <2> DEFINE n == fresh[r].token
  <2>1. at' = [at EXCEPT ![r] = at'[r]] /\ at'[r] \notin {"create", "rotate"}
    BY <1>13 DEF Rotate, Create
  <2>2. n \in Seconds
    BY <1>13 DEF Rotate, Create, Placed
  <2>3. UNCHANGED <<reset, password, fresh>> /\ r \in Renewing
    BY <1>13 DEF Rotate, Create
  <2>4. CASE n \in sessions
    BY <1>13, <2>1, <2>3, <2>4 DEF Rotate, Create
  <2>5. CASE n \notin sessions
    <3>1. sessions' = sessions \union {n} /\ era' = [era EXCEPT ![n] = fresh[r].era]
      BY <1>13, <2>5 DEF Rotate, Create
    <3> HIDE DEF n
    <3> QED BY <2>1, <2>2, <2>3, <2>5, <3>1 DEF n
  <2> QED BY <2>4, <2>5
<1>14. ASSUME NEW r \in Requests, Alarm(r) PROVE Purged'
  BY <1>14 DEF Alarm
<1>15. ASSUME NEW r \in Requests, SignIn(r) PROVE Purged'
  BY <1>15 DEF SignIn, Answered
<1>16. ASSUME NEW r \in Requests, SignOut(r) PROVE Purged'
  BY <1>16 DEF SignOut, Answered
<1>17. ASSUME NEW r \in Requests, Finish(r) PROVE Purged'
  BY <1>17 DEF Finish
<1>18. ASSUME NEW r \in Requests, Wait(r) PROVE Purged'
  BY <1>18 DEF Wait
<1>19. ASSUME NEW r \in Requests, Refresh(r) PROVE Purged'
  BY <1>19 DEF Refresh
<1>20. ASSUME NEW r \in Requests, Renewed(r) PROVE Purged'
  BY <1>20 DEF Renewed, Waiters, Others
<1>21. ASSUME NEW r \in Requests, Refused(r) PROVE Purged'
  BY <1>21 DEF Refused, Rejected, Waiters, Others
<1>22. ASSUME NEW r \in Requests, Break(r) PROVE Purged'
  BY <1>22 DEF Break
<1>23. CASE ResetPassword
  BY <1>23 DEF ResetPassword
<1>24. CASE Purge
  BY <1>24 DEF Purge, Slip, Eras
<1>25. CASE Tick
  BY <1>25 DEF Tick
<1>26. CASE Expire
  BY <1>26 DEF Expire
<1>27. ASSUME NEW r \in Requests, SignLogin(r) PROVE Purged'
  BY <1>27 DEF SignLogin, Sign
<1>28. ASSUME NEW r \in Requests, SignRotated(r) PROVE Purged'
  BY <1>28 DEF SignRotated, Sign
<1> QED BY <1>1, <1>2, <1>3, <1>4, <1>5, <1>6, <1>7, <1>8, <1>9, <1>10, <1>11, <1>12, <1>13,
           <1>14, <1>15, <1>16, <1>17, <1>18, <1>19, <1>20, <1>21, <1>22, <1>23, <1>24,
           <1>25, <1>26, <1>27, <1>28 DEF Next, Serve, Receive

\* What a lone logout ended stays ended.
LEMMA LoneStep ==
  ASSUME TypeOK, Placed, Exclusive, LoneLogouts, [Next]_vars
  PROVE  LoneLogouts'
<1> USE TabAssumption, BoundAssumption DEF TypeOK, vars, clockVars, serverVars, browserVars,
        requestVars, watchVars, Seconds, Tokens, Cookies, Exchange, Served, Replies, Pair,
        NoCookies, Goto, Valid, LoneLogouts, Exchanging, Signing, Underway, Fresh,
        Unauthorised, MayRefresh
<1>1. CASE UNCHANGED vars
  BY <1>1
<1>2. ASSUME NEW r \in Requests, Send(r) PROVE LoneLogouts'
  <2>1. /\ at' = [at EXCEPT ![r] = "sent"] /\ at[r] = "idle"
        /\ sent' = [sent EXCEPT ![r] = jar]
        /\ alone' = IF form[r] = "logout" /\ Exchanging \union Signing = {}
                      THEN alone \union {r}
                      ELSE IF form[r] = "login" THEN {} ELSE alone
        /\ UNCHANGED <<form, jar, sessions, revoked, expired, now, out>>
    BY <1>2 DEF Send
  <2>2. Exchanging' = Exchanging
    BY <2>1
  <2>3. \A q \in alone' : form'[q] = "logout" /\ at'[q] # "idle"
    BY <2>1
  <2>4. alone' # {} =>
          Exchanging' = {} /\ \A q \in Requests : form'[q] = "login" => at'[q] \notin Underway
    BY <2>1, <2>2
  <2>5. \A q \in alone' :
          /\ at'[q] \in {"drop", "ok"} => sent'[q].access \in revoked'
          /\ at'[q] = "ok" => sent'[q].refresh \notin sessions'
    BY <2>1
  <2>6. out' # 0 =>
          /\ jar' = NoCookies /\ out' \notin sessions' /\ ~Valid(out)'
          /\ \A q \in Requests : ~Fresh(q)'
          /\ \A q \in Exchanging' :
               at'[q] \in {"refresh", "denied", "failed"} /\ sent'[q].refresh = 0
    BY <2>1, <2>2
  <2> QED BY <2>3, <2>4, <2>5, <2>6
<1>3. ASSUME NEW r \in Requests, Judge(r) PROVE LoneLogouts'
  BY <1>3 DEF Judge
<1>4. ASSUME NEW r \in Requests, Login(r) PROVE LoneLogouts'
  BY <1>4 DEF Login, Checked
<1>5. ASSUME NEW r \in Requests, CreateLogin(r) PROVE LoneLogouts'
  <2>1. alone = {} /\ out = 0
    BY <1>5 DEF CreateLogin, Create, Placed
  <2> QED BY <1>5, <2>1 DEF CreateLogin, Create
<1>6. ASSUME NEW r \in Requests, EnterLogout(r) PROVE LoneLogouts'
  BY <1>6 DEF EnterLogout
<1>7. ASSUME NEW r \in Requests, Revoke(r) PROVE LoneLogouts'
  BY <1>7 DEF Revoke
<1>8. ASSUME NEW r \in Requests, RevokeErrs(r) PROVE LoneLogouts'
  BY <1>8 DEF RevokeErrs
<1>9. ASSUME NEW r \in Requests, DropSession(r) PROVE LoneLogouts'
  <2>1. sessions' \subseteq sessions /\ sent[r].refresh \notin sessions'
    BY <1>9 DEF DropSession, Placed
  <2>2. at' = [at EXCEPT ![r] = "ok"] /\ at[r] = "drop" /\ form[r] = "logout"
    BY <1>9 DEF DropSession, Placed
  <2>3. UNCHANGED <<clockVars, browserVars, watchVars, form, sent, fresh, revoked>>
    BY <1>9 DEF DropSession
  <2> QED BY <2>1, <2>2, <2>3
<1>10. ASSUME NEW r \in Requests, Find(r) PROVE LoneLogouts'
  BY <1>10 DEF Find
<1>11. ASSUME NEW r \in Requests, Consume(r) PROVE LoneLogouts'
  BY <1>11 DEF Consume, Checked
<1>12. ASSUME NEW r \in Requests, ConsumeInVain(r) PROVE LoneLogouts'
  BY <1>12 DEF ConsumeInVain
<1>13. ASSUME NEW r \in Requests, Rotate(r) PROVE LoneLogouts'
  BY <1>13 DEF Rotate, Create
<1>14. ASSUME NEW r \in Requests, Alarm(r) PROVE LoneLogouts'
  BY <1>14 DEF Alarm
<1>15. ASSUME NEW r \in Requests, SignIn(r) PROVE LoneLogouts'
  BY <1>15 DEF SignIn, Answered
<1>16. ASSUME NEW r \in Requests, SignOut(r) PROVE LoneLogouts'
  <2>1. at' = [at EXCEPT ![r] = "done"] /\ at[r] = "ok" /\ form[r] = "logout"
    BY <1>16 DEF SignOut, Answered
  <2>2. UNCHANGED <<clockVars, serverVars, form, sent, fresh, alone>>
    BY <1>16 DEF SignOut
  <2>3. \A q \in alone' : form'[q] = "logout" /\ at'[q] # "idle"
    BY <2>1, <2>2
  <2>4. alone' # {} =>
          Exchanging' = {} /\ \A q \in Requests : form'[q] = "login" => at'[q] \notin Underway
    BY <2>1, <2>2
  <2>5. \A q \in alone' :
          /\ at'[q] \in {"drop", "ok"} => sent'[q].access \in revoked'
          /\ at'[q] = "ok" => sent'[q].refresh \notin sessions'
    BY <2>1, <2>2
  <2>6. CASE r \in alone \ gone
    <3>1. jar' = NoCookies /\ out' = sent[r].access
      BY <1>16, <2>6 DEF SignOut, Answered
    <3>2. sent[r].access \in revoked /\ sent[r].access \notin sessions
      BY <2>1, <2>6 DEF Placed
    <3>3. Exchanging' = {} /\ \A q \in Requests : ~Fresh(q)'
      BY <2>1, <2>2, <2>6
    <3> QED BY <2>2, <2>3, <2>4, <2>5, <3>1, <3>2, <3>3
  <2>7. CASE r \notin alone \ gone
    <3>1. out' = out /\ jar' \in {jar, NoCookies}
      BY <1>16, <2>7 DEF SignOut, Answered
    <3> QED BY <2>1, <2>2, <2>3, <2>4, <2>5, <3>1
  <2> QED BY <2>6, <2>7
<1>17. ASSUME NEW r \in Requests, Finish(r) PROVE LoneLogouts'
  BY <1>17 DEF Finish
<1>18. ASSUME NEW r \in Requests, Wait(r) PROVE LoneLogouts'
  BY <1>18 DEF Wait
<1>19. ASSUME NEW r \in Requests, Refresh(r) PROVE LoneLogouts'
  BY <1>19 DEF Refresh
<1>20. ASSUME NEW r \in Requests, Renewed(r) PROVE LoneLogouts'
  BY <1>20 DEF Renewed, Waiters, Others
<1>21. ASSUME NEW r \in Requests, Refused(r) PROVE LoneLogouts'
  BY <1>21 DEF Refused, Rejected, Waiters, Others
<1>22. ASSUME NEW r \in Requests, Break(r) PROVE LoneLogouts'
  BY <1>22 DEF Break
<1>23. CASE ResetPassword
  BY <1>23 DEF ResetPassword
<1>24. CASE Purge
  BY <1>24 DEF Purge
<1>25. CASE Tick
  BY <1>25 DEF Tick
<1>26. CASE Expire
  BY <1>26 DEF Expire
<1>27. ASSUME NEW r \in Requests, SignLogin(r) PROVE LoneLogouts'
  BY <1>27 DEF SignLogin, Sign
<1>28. ASSUME NEW r \in Requests, SignRotated(r) PROVE LoneLogouts'
  BY <1>28 DEF SignRotated, Sign
<1> QED BY <1>1, <1>2, <1>3, <1>4, <1>5, <1>6, <1>7, <1>8, <1>9, <1>10, <1>11, <1>12, <1>13,
           <1>14, <1>15, <1>16, <1>17, <1>18, <1>19, <1>20, <1>21, <1>22, <1>23, <1>24,
           <1>25, <1>26, <1>27, <1>28 DEF Next, Serve, Receive

\* The sets that are counted are finite.
LEMMA Finite ==
  ASSUME TypeOK
  PROVE  /\ IsFiniteSet(sessions) /\ Cardinality(sessions) \in Nat
         /\ IsFiniteSet(Rotating) /\ Cardinality(Rotating) \in Nat
         /\ IsFiniteSet(Creating) /\ Cardinality(Creating) \in Nat
         /\ IsFiniteSet(LoggedIn) /\ Cardinality(LoggedIn) \in Nat
<1>1. IsFiniteSet(Seconds)
  BY BoundAssumption, FS_Interval DEF Seconds
<1>2. IsFiniteSet(sessions)
  BY <1>1, FS_Subset DEF TypeOK
<1>3. IsFiniteSet(Rotating) /\ IsFiniteSet(Creating) /\ IsFiniteSet(LoggedIn)
  BY TabAssumption, FS_Subset DEF Rotating, Creating, LoggedIn
<1> QED BY <1>2, <1>3, FS_CardinalityType

\* Where sessions and those about to be only go, the count stays bounded.
LEMMA CountedShrinks ==
  ASSUME TypeOK, TypeOK', Counted, sessions' \subseteq sessions,
         Rotating' \subseteq Rotating, Creating' \subseteq Creating, LoggedIn \subseteq
             LoggedIn'
  PROVE  Counted'
<1>0. \A S, T : IsFiniteSet(T) /\ S \subseteq T => Cardinality(S) <= Cardinality(T)
  BY FS_Subset
<1>1. IsFiniteSet(LoggedIn') /\ Cardinality(LoggedIn') \in Nat
  BY TabAssumption, FS_Subset, FS_CardinalityType DEF LoggedIn
<1>2. IsFiniteSet(sessions') /\ Cardinality(sessions') \in Nat
  BY Finite, FS_Subset, FS_CardinalityType
<1>3. /\ IsFiniteSet(Rotating') /\ Cardinality(Rotating') \in Nat
      /\ IsFiniteSet(Creating') /\ Cardinality(Creating') \in Nat
  BY TabAssumption, FS_Subset, FS_CardinalityType DEF Rotating, Creating
<1>4. /\ Cardinality(sessions') <= Cardinality(sessions)
      /\ Cardinality(Rotating') <= Cardinality(Rotating)
      /\ Cardinality(Creating') <= Cardinality(Creating)
      /\ Cardinality(LoggedIn) <= Cardinality(LoggedIn')
  BY <1>0, <1>1, Finite
<1> QED BY <1>1, <1>2, <1>3, <1>4, Finite DEF Counted

\* No step raises what is alive or about to be beyond the logins.
LEMMA CountedStep ==
  ASSUME TypeOK, TypeOK', Placed, Counted, [Next]_vars
  PROVE  Counted'
<1> USE DEF vars, clockVars, serverVars, browserVars, requestVars, watchVars, Goto, Fault,
        Unauthorised, MayRefresh
<1>1. CASE UNCHANGED vars
  BY <1>1 DEF Counted, Rotating, Creating, LoggedIn
<1>2. ASSUME NEW r \in Requests, Send(r) PROVE Counted'
  <2>1. /\ sessions' \subseteq sessions /\ Rotating' \subseteq Rotating
        /\ Creating' \subseteq Creating /\ LoggedIn \subseteq LoggedIn'
    BY <1>2 DEF Send, Placed, TypeOK, Rotating, Creating, LoggedIn
  <2> QED BY <2>1, CountedShrinks
<1>3. ASSUME NEW r \in Requests, Judge(r) PROVE Counted'
  <2>1. /\ sessions' \subseteq sessions /\ Rotating' \subseteq Rotating
        /\ Creating' \subseteq Creating /\ LoggedIn \subseteq LoggedIn'
    BY <1>3 DEF Judge, Placed, TypeOK, Rotating, Creating, LoggedIn
  <2> QED BY <2>1, CountedShrinks
<1>4. ASSUME NEW r \in Requests, Login(r) PROVE Counted'
  <2>1. /\ sessions' \subseteq sessions /\ Rotating' \subseteq Rotating
        /\ Creating' \subseteq Creating /\ LoggedIn \subseteq LoggedIn'
    BY <1>4 DEF Login, Placed, TypeOK, Rotating, Creating, LoggedIn
  <2> QED BY <2>1, CountedShrinks
<1>5. ASSUME NEW r \in Requests, CreateLogin(r) PROVE Counted'
  <2>1. /\ r \in Creating /\ Creating' = Creating \ {r}
        /\ Rotating' = Rotating /\ LoggedIn' = LoggedIn
    BY <1>5 DEF CreateLogin, Create, Placed, TypeOK, Rotating, Creating, LoggedIn
  <2>2. sessions' = sessions \/ sessions' = sessions \union {fresh[r].token}
    BY <1>5 DEF CreateLogin, Create
  <2>3. Cardinality(Creating') = Cardinality(Creating) - 1
    BY <2>1, Finite, FS_RemoveElement
  <2>4. Cardinality(sessions') \in Nat /\ Cardinality(sessions') <= Cardinality(sessions) + 1
    <3>1. CASE sessions' = sessions
      BY <3>1, Finite
    <3>2. CASE sessions' = sessions \union {fresh[r].token}
      <4> DEFINE n == fresh[r].token
      <4> HIDE DEF n
      <4>1. \/ Cardinality(sessions \union {n}) = Cardinality(sessions)
            \/ Cardinality(sessions \union {n}) = Cardinality(sessions) + 1
        BY Finite, FS_AddElement
      <4> QED BY <3>2, <4>1, Finite DEF n
    <3> QED BY <2>2, <3>1, <3>2
  <2> QED BY <2>1, <2>3, <2>4, Finite DEF Counted
<1>6. ASSUME NEW r \in Requests, EnterLogout(r) PROVE Counted'
  <2>1. /\ sessions' \subseteq sessions /\ Rotating' \subseteq Rotating
        /\ Creating' \subseteq Creating /\ LoggedIn \subseteq LoggedIn'
    BY <1>6 DEF EnterLogout, Placed, TypeOK, Rotating, Creating, LoggedIn
  <2> QED BY <2>1, CountedShrinks
<1>7. ASSUME NEW r \in Requests, Revoke(r) PROVE Counted'
  <2>1. /\ sessions' \subseteq sessions /\ Rotating' \subseteq Rotating
        /\ Creating' \subseteq Creating /\ LoggedIn \subseteq LoggedIn'
    BY <1>7 DEF Revoke, Placed, TypeOK, Rotating, Creating, LoggedIn
  <2> QED BY <2>1, CountedShrinks
<1>8. ASSUME NEW r \in Requests, RevokeErrs(r) PROVE Counted'
  <2>1. /\ sessions' \subseteq sessions /\ Rotating' \subseteq Rotating
        /\ Creating' \subseteq Creating /\ LoggedIn \subseteq LoggedIn'
    BY <1>8 DEF RevokeErrs, Placed, TypeOK, Rotating, Creating, LoggedIn
  <2> QED BY <2>1, CountedShrinks
<1>9. ASSUME NEW r \in Requests, DropSession(r) PROVE Counted'
  <2>1. /\ sessions' \subseteq sessions /\ Rotating' \subseteq Rotating
        /\ Creating' \subseteq Creating /\ LoggedIn \subseteq LoggedIn'
    BY <1>9 DEF DropSession, Placed, TypeOK, Rotating, Creating, LoggedIn
  <2> QED BY <2>1, CountedShrinks
<1>10. ASSUME NEW r \in Requests, Find(r) PROVE Counted'
  <2>1. /\ sessions' \subseteq sessions /\ Rotating' \subseteq Rotating
        /\ Creating' \subseteq Creating /\ LoggedIn \subseteq LoggedIn'
    BY <1>10 DEF Find, Placed, TypeOK, Rotating, Creating, LoggedIn
  <2> QED BY <2>1, CountedShrinks
<1>11. ASSUME NEW r \in Requests, Consume(r) PROVE Counted'
  <2>1. /\ Rotating' = Rotating \union {r} /\ r \notin Rotating
        /\ Creating' = Creating /\ LoggedIn' = LoggedIn
    BY <1>11 DEF Consume, TypeOK, Placed, Rotating, Creating, LoggedIn
  <2>2. sessions' = sessions \ {sent[r].refresh} /\ sent[r].refresh \in sessions
    BY <1>11 DEF Consume
  <2>3. Cardinality(Rotating') = Cardinality(Rotating) + 1
    BY <2>1, Finite, FS_AddElement
  <2>4. Cardinality(sessions') = Cardinality(sessions) - 1
    BY <2>2, Finite, FS_RemoveElement
  <2> QED BY <2>1, <2>3, <2>4, Finite DEF Counted
<1>12. ASSUME NEW r \in Requests, ConsumeInVain(r) PROVE Counted'
  <2>1. /\ sessions' \subseteq sessions /\ Rotating' \subseteq Rotating
        /\ Creating' \subseteq Creating /\ LoggedIn \subseteq LoggedIn'
    BY <1>12 DEF ConsumeInVain, Placed, TypeOK, Rotating, Creating, LoggedIn
  <2> QED BY <2>1, CountedShrinks
<1>13. ASSUME NEW r \in Requests, Rotate(r) PROVE Counted'
  <2>1. /\ r \in Rotating /\ Rotating' = Rotating \ {r}
        /\ Creating' = Creating /\ LoggedIn' = LoggedIn
    BY <1>13 DEF Rotate, Create, Placed, TypeOK, Rotating, Creating, LoggedIn
  <2>2. sessions' = sessions \/ sessions' = sessions \union {fresh[r].token}
    BY <1>13 DEF Rotate, Create
  <2>3. Cardinality(Rotating') = Cardinality(Rotating) - 1
    BY <2>1, Finite, FS_RemoveElement
  <2>4. Cardinality(sessions') \in Nat /\ Cardinality(sessions') <= Cardinality(sessions) + 1
    <3>1. CASE sessions' = sessions
      BY <3>1, Finite
    <3>2. CASE sessions' = sessions \union {fresh[r].token}
      <4> DEFINE n == fresh[r].token
      <4> HIDE DEF n
      <4>1. \/ Cardinality(sessions \union {n}) = Cardinality(sessions)
            \/ Cardinality(sessions \union {n}) = Cardinality(sessions) + 1
        BY Finite, FS_AddElement
      <4> QED BY <3>2, <4>1, Finite DEF n
    <3> QED BY <2>2, <3>1, <3>2
  <2> QED BY <2>1, <2>3, <2>4, Finite DEF Counted
<1>14. ASSUME NEW r \in Requests, Alarm(r) PROVE Counted'
  <2>1. /\ sessions' \subseteq sessions /\ Rotating' \subseteq Rotating
        /\ Creating' \subseteq Creating /\ LoggedIn \subseteq LoggedIn'
    BY <1>14 DEF Alarm, Placed, TypeOK, Rotating, Creating, LoggedIn
  <2> QED BY <2>1, CountedShrinks
<1>15. ASSUME NEW r \in Requests, SignIn(r) PROVE Counted'
  <2>1. /\ sessions' \subseteq sessions /\ Rotating' \subseteq Rotating
        /\ Creating' \subseteq Creating /\ LoggedIn \subseteq LoggedIn'
    BY <1>15 DEF SignIn, Answered, Placed, TypeOK, Rotating, Creating, LoggedIn
  <2> QED BY <2>1, CountedShrinks
<1>16. ASSUME NEW r \in Requests, SignOut(r) PROVE Counted'
  <2>1. /\ sessions' \subseteq sessions /\ Rotating' \subseteq Rotating
        /\ Creating' \subseteq Creating /\ LoggedIn \subseteq LoggedIn'
    BY <1>16 DEF SignOut, Answered, Placed, TypeOK, Rotating, Creating, LoggedIn
  <2> QED BY <2>1, CountedShrinks
<1>17. ASSUME NEW r \in Requests, Finish(r) PROVE Counted'
  <2>1. /\ sessions' \subseteq sessions /\ Rotating' \subseteq Rotating
        /\ Creating' \subseteq Creating /\ LoggedIn \subseteq LoggedIn'
    BY <1>17 DEF Finish, Placed, TypeOK, Rotating, Creating, LoggedIn
  <2> QED BY <2>1, CountedShrinks
<1>18. ASSUME NEW r \in Requests, Wait(r) PROVE Counted'
  <2>1. /\ sessions' \subseteq sessions /\ Rotating' \subseteq Rotating
        /\ Creating' \subseteq Creating /\ LoggedIn \subseteq LoggedIn'
    BY <1>18 DEF Wait, Placed, TypeOK, Rotating, Creating, LoggedIn
  <2> QED BY <2>1, CountedShrinks
<1>19. ASSUME NEW r \in Requests, Refresh(r) PROVE Counted'
  <2>1. /\ sessions' \subseteq sessions /\ Rotating' \subseteq Rotating
        /\ Creating' \subseteq Creating /\ LoggedIn \subseteq LoggedIn'
    BY <1>19 DEF Refresh, Placed, TypeOK, Rotating, Creating, LoggedIn
  <2> QED BY <2>1, CountedShrinks
<1>20. ASSUME NEW r \in Requests, Renewed(r) PROVE Counted'
  <2>1. /\ sessions' \subseteq sessions /\ Rotating' \subseteq Rotating
        /\ Creating' \subseteq Creating /\ LoggedIn \subseteq LoggedIn'
    BY <1>20 DEF Renewed, Waiters, Others, Placed, TypeOK, Rotating, Creating, LoggedIn
  <2> QED BY <2>1, CountedShrinks
<1>21. ASSUME NEW r \in Requests, Refused(r) PROVE Counted'
  <2>1. /\ sessions' \subseteq sessions /\ Rotating' \subseteq Rotating
        /\ Creating' \subseteq Creating /\ LoggedIn \subseteq LoggedIn'
    BY <1>21 DEF Refused, Rejected, Waiters, Others, Placed, TypeOK, Rotating, Creating,
       LoggedIn
  <2> QED BY <2>1, CountedShrinks
<1>22. ASSUME NEW r \in Requests, Break(r) PROVE Counted'
  <2>1. /\ sessions' \subseteq sessions /\ Rotating' \subseteq Rotating
        /\ Creating' \subseteq Creating /\ LoggedIn \subseteq LoggedIn'
    BY <1>22 DEF Break, Placed, TypeOK, Rotating, Creating, LoggedIn
  <2> QED BY <2>1, CountedShrinks
<1>23. CASE ResetPassword
  <2>1. /\ sessions' \subseteq sessions /\ Rotating' = Rotating
        /\ Creating' = Creating /\ LoggedIn = LoggedIn'
    BY <1>23 DEF ResetPassword, Rotating, Creating, LoggedIn
  <2> QED BY <2>1, CountedShrinks
<1>24. CASE Purge
  <2>1. /\ sessions' \subseteq sessions /\ Rotating' = Rotating
        /\ Creating' = Creating /\ LoggedIn = LoggedIn'
    BY <1>24 DEF Purge, Rotating, Creating, LoggedIn
  <2> QED BY <2>1, CountedShrinks
<1>25. CASE Tick
  <2>1. /\ sessions' \subseteq sessions /\ Rotating' = Rotating
        /\ Creating' = Creating /\ LoggedIn = LoggedIn'
    BY <1>25 DEF Tick, Rotating, Creating, LoggedIn
  <2> QED BY <2>1, CountedShrinks
<1>26. CASE Expire
  <2>1. /\ sessions' \subseteq sessions /\ Rotating' = Rotating
        /\ Creating' = Creating /\ LoggedIn = LoggedIn'
    BY <1>26 DEF Expire, Rotating, Creating, LoggedIn
  <2> QED BY <2>1, CountedShrinks
<1>27. ASSUME NEW r \in Requests, SignLogin(r) PROVE Counted'
  <2>1. /\ sessions' = sessions /\ Rotating' = Rotating
        /\ Creating' = Creating \union {r} /\ LoggedIn' = LoggedIn \union {r}
        /\ r \notin Creating /\ r \notin LoggedIn
    BY <1>27 DEF SignLogin, Sign, TypeOK, Placed, Rotating, Creating, LoggedIn
  <2>2. /\ Cardinality(Creating') = Cardinality(Creating) + 1
        /\ Cardinality(LoggedIn') = Cardinality(LoggedIn) + 1
    BY <2>1, Finite, FS_AddElement
  <2> QED BY <2>1, <2>2, Finite DEF Counted
<1>28. ASSUME NEW r \in Requests, SignRotated(r) PROVE Counted'
  <2>1. /\ sessions' \subseteq sessions /\ Rotating' \subseteq Rotating
        /\ Creating' \subseteq Creating /\ LoggedIn \subseteq LoggedIn'
    BY <1>28 DEF SignRotated, Sign, Placed, TypeOK, Rotating, Creating, LoggedIn
  <2> QED BY <2>1, CountedShrinks
<1> QED BY <1>1, <1>2, <1>3, <1>4, <1>5, <1>6, <1>7, <1>8, <1>9, <1>10, <1>11, <1>12, <1>13,
           <1>14, <1>15, <1>16, <1>17, <1>18, <1>19, <1>20, <1>21, <1>22, <1>23, <1>24,
           <1>25, <1>26, <1>27, <1>28 DEF Next, Serve, Receive

\* What excuses an alarm is not taken back.
LEMMA QuietStep ==
  ASSUME TypeOK, quiet', [Next]_vars
  PROVE  quiet
<1> USE DEF vars, clockVars, serverVars, browserVars, requestVars, watchVars, Goto
<1>1. CASE UNCHANGED vars
  BY <1>1
<1>2. ASSUME NEW r \in Requests, Send(r) PROVE quiet
  BY <1>2 DEF Send
<1>3. ASSUME NEW r \in Requests, Judge(r) PROVE quiet
  BY <1>3 DEF Judge
<1>4. ASSUME NEW r \in Requests, Login(r) PROVE quiet
  BY <1>4 DEF Login, Checked
<1>5. ASSUME NEW r \in Requests, CreateLogin(r) PROVE quiet
  BY <1>5 DEF CreateLogin, Create
<1>6. ASSUME NEW r \in Requests, EnterLogout(r) PROVE quiet
  BY <1>6 DEF EnterLogout
<1>7. ASSUME NEW r \in Requests, Revoke(r) PROVE quiet
  BY <1>7 DEF Revoke
<1>8. ASSUME NEW r \in Requests, RevokeErrs(r) PROVE quiet
  BY <1>8 DEF RevokeErrs
<1>9. ASSUME NEW r \in Requests, DropSession(r) PROVE quiet
  BY <1>9 DEF DropSession
<1>10. ASSUME NEW r \in Requests, Find(r) PROVE quiet
  BY <1>10 DEF Find
<1>11. ASSUME NEW r \in Requests, Consume(r) PROVE quiet
  BY <1>11 DEF Consume, Checked
<1>12. ASSUME NEW r \in Requests, ConsumeInVain(r) PROVE quiet
  BY <1>12 DEF ConsumeInVain
<1>13. ASSUME NEW r \in Requests, Rotate(r) PROVE quiet
  BY <1>13 DEF Rotate, Create
<1>14. ASSUME NEW r \in Requests, Alarm(r) PROVE quiet
  BY <1>14 DEF Alarm
<1>15. ASSUME NEW r \in Requests, SignIn(r) PROVE quiet
  BY <1>15 DEF SignIn
<1>16. ASSUME NEW r \in Requests, SignOut(r) PROVE quiet
  BY <1>16 DEF SignOut
<1>17. ASSUME NEW r \in Requests, Finish(r) PROVE quiet
  BY <1>17 DEF Finish
<1>18. ASSUME NEW r \in Requests, Wait(r) PROVE quiet
  BY <1>18 DEF Wait
<1>19. ASSUME NEW r \in Requests, Refresh(r) PROVE quiet
  BY <1>19 DEF Refresh
<1>20. ASSUME NEW r \in Requests, Renewed(r) PROVE quiet
  BY <1>20 DEF Renewed
<1>21. ASSUME NEW r \in Requests, Refused(r) PROVE quiet
  BY <1>21 DEF Refused
<1>22. ASSUME NEW r \in Requests, Break(r) PROVE quiet
  BY <1>22 DEF Break
<1>23. CASE ResetPassword
  BY <1>23 DEF ResetPassword
<1>24. CASE Purge
  BY <1>24 DEF Purge
<1>25. CASE Tick
  BY <1>25 DEF Tick
<1>26. CASE Expire
  BY <1>26 DEF Expire
<1>27. ASSUME NEW r \in Requests, SignLogin(r) PROVE quiet
  BY <1>27 DEF SignLogin, Sign
<1>28. ASSUME NEW r \in Requests, SignRotated(r) PROVE quiet
  BY <1>28 DEF SignRotated, Sign
<1> QED BY <1>1, <1>2, <1>3, <1>4, <1>5, <1>6, <1>7, <1>8, <1>9, <1>10, <1>11, <1>12, <1>13,
           <1>14, <1>15, <1>16, <1>17, <1>18, <1>19, <1>20, <1>21, <1>22, <1>23, <1>24,
           <1>25, <1>26, <1>27, <1>28 DEF Next, Serve, Receive

\* Exchanges, logins and logouts stay apart.
LEMMA ApartStep ==
  ASSUME TypeOK, Placed, Exclusive, quiet, quiet', Apart, Distinct, Backed, ~alarm, [Next]_vars
  PROVE  Apart'
<1> USE TabAssumption, BoundAssumption DEF TypeOK, vars, clockVars, serverVars, browserVars,
        requestVars, watchVars, Seconds, Tokens, Cookies, Exchange, Served, Replies, Pair,
        NoCookies, Goto, Valid, Apart, Exchanging, Signing, Underway, Unauthorised,
        MayRefresh, Placed
<1>1. CASE UNCHANGED vars
  BY <1>1
<1>2. ASSUME NEW r \in Requests, Send(r) PROVE Apart'
  <2>1. Exchanging' = Exchanging /\ (form[r] \in {"login", "logout"} => Exchanging = {})
    BY <1>2 DEF Send
  <2>2. r \notin gone
    BY <1>2 DEF Send, Exclusive
  <2>3. Signing' \subseteq Signing \union {r}
    BY <1>2 DEF Send
  <2>4. form[r] \notin {"login", "logout"} => Signing' = Signing
    BY <1>2 DEF Send
  <2>5. (\A p \in Exchanging, q \in Exchanging \union Signing : q = p)'
    BY <2>1, <2>3, <2>4
  <2>6. (\A q \in Requests : form[q] \in {"login", "logout"} /\ at[q] \in Underway => q
      \notin gone)'
    BY <1>2, <2>2 DEF Send
  <2> QED BY <2>5, <2>6
<1>3. ASSUME NEW r \in Requests, Judge(r) PROVE Apart'
  BY <1>3 DEF Judge
<1>4. ASSUME NEW r \in Requests, Login(r) PROVE Apart'
  BY <1>4 DEF Login, Checked
<1>5. ASSUME NEW r \in Requests, CreateLogin(r) PROVE Apart'
  <2>1. at' = [at EXCEPT ![r] = "ok"] \/ at' = [at EXCEPT ![r] = "error"]
    BY <1>5 DEF CreateLogin, Create
  <2>2. at[r] = "create" /\ UNCHANGED <<form, gone>>
    BY <1>5 DEF CreateLogin, Create
  <2>3. \A q \in Requests \ {r} : at'[q] = at[q]
    BY <2>1
  <2>4. at'[r] \in {"ok", "error"}
    BY <2>1
  <2>5. Exchanging' \subseteq Exchanging /\ Signing' \subseteq Signing
    BY <2>2, <2>3, <2>4
  <2>6. (\A p \in Exchanging, q \in Exchanging \union Signing : q = p)'
    BY <2>5
  <2>7. (\A q \in Requests : form[q] \in {"login", "logout"} /\ at[q] \in Underway => q
      \notin gone)'
    BY <2>2, <2>3, <2>4
  <2> QED BY <2>6, <2>7
<1>6. ASSUME NEW r \in Requests, EnterLogout(r) PROVE Apart'
  BY <1>6 DEF EnterLogout
<1>7. ASSUME NEW r \in Requests, Revoke(r) PROVE Apart'
  BY <1>7 DEF Revoke
<1>8. ASSUME NEW r \in Requests, RevokeErrs(r) PROVE Apart'
  BY <1>8 DEF RevokeErrs
<1>9. ASSUME NEW r \in Requests, DropSession(r) PROVE Apart'
  BY <1>9 DEF DropSession
<1>10. ASSUME NEW r \in Requests, Find(r) PROVE Apart'
  BY <1>10 DEF Find
<1>11. ASSUME NEW r \in Requests, Consume(r) PROVE Apart'
  BY <1>11 DEF Consume, Checked
<1>12. ASSUME NEW r \in Requests, ConsumeInVain(r) PROVE Apart'
  BY <1>12 DEF ConsumeInVain
<1>13. ASSUME NEW r \in Requests, Rotate(r) PROVE Apart'
  <2>1. at' = [at EXCEPT ![r] = "renewed"] \/ at' = [at EXCEPT ![r] = "failed"]
    BY <1>13 DEF Rotate, Create
  <2>2. at[r] = "rotate" /\ UNCHANGED <<form, gone>>
    BY <1>13 DEF Rotate, Create
  <2>3. \A q \in Requests \ {r} : at'[q] = at[q]
    BY <2>1
  <2>4. at'[r] \in {"renewed", "failed"}
    BY <2>1
  <2>5. Exchanging' \subseteq Exchanging /\ Signing' \subseteq Signing
    BY <2>2, <2>3, <2>4
  <2>6. (\A p \in Exchanging, q \in Exchanging \union Signing : q = p)'
    BY <2>5
  <2>7. (\A q \in Requests : form[q] \in {"login", "logout"} /\ at[q] \in Underway => q
      \notin gone)'
    BY <2>2, <2>3, <2>4
  <2> QED BY <2>6, <2>7
<1>14. ASSUME NEW r \in Requests, Alarm(r) PROVE Apart'
  BY <1>14 DEF Alarm
<1>15. ASSUME NEW r \in Requests, SignIn(r) PROVE Apart'
  BY <1>15 DEF SignIn, Answered
<1>16. ASSUME NEW r \in Requests, SignOut(r) PROVE Apart'
  BY <1>16 DEF SignOut, Answered
<1>17. ASSUME NEW r \in Requests, Finish(r) PROVE Apart'
  BY <1>17 DEF Finish
<1>18. ASSUME NEW r \in Requests, Wait(r) PROVE Apart'
  BY <1>18 DEF Wait
<1>19. ASSUME NEW r \in Requests, Refresh(r) PROVE Apart'
  <2>1. Exchanging = {} /\ Signing \ {r} = {} /\ r \notin gone
    BY <1>19 DEF Refresh, Exclusive
  <2>2. Exchanging' = {r} /\ Signing' \subseteq {r} /\ UNCHANGED gone
    BY <1>19, <2>1 DEF Refresh
  <2> QED BY <2>1, <2>2
<1>20. ASSUME NEW r \in Requests, Renewed(r) PROVE Apart'
  <2>1. Exchanging = {r} /\ Exchanging' = {} /\ UNCHANGED <<form, gone>>
    BY <1>20 DEF Renewed
  <2>2. \A q \in Waiters(r) \union {r} : q \notin gone
    BY <1>20 DEF Waiters, Others, Exclusive, Renewed
  <2>3. \A q \in Requests \ (Waiters(r) \union {r}) : at'[q] = at[q]
    BY <1>20 DEF Renewed
  <2>4. \A q \in Requests : form'[q] \in {"login", "logout"} /\ at'[q] \in Underway => q
      \notin gone'
    BY <2>1, <2>2, <2>3
  <2> QED BY <2>1, <2>4
<1>21. ASSUME NEW r \in Requests, Refused(r) PROVE Apart'
  BY <1>21 DEF Refused, Rejected, Waiters, Others
<1>22. ASSUME NEW r \in Requests, Break(r) PROVE Apart'
  BY <1>22 DEF Break
<1>23. CASE ResetPassword
  BY <1>23 DEF ResetPassword
<1>24. CASE Purge
  BY <1>24 DEF Purge
<1>25. CASE Tick
  BY <1>25 DEF Tick
<1>26. CASE Expire
  BY <1>26 DEF Expire
<1>27. ASSUME NEW r \in Requests, SignLogin(r) PROVE Apart'
  BY <1>27 DEF SignLogin, Sign
<1>28. ASSUME NEW r \in Requests, SignRotated(r) PROVE Apart'
  BY <1>28 DEF SignRotated, Sign
<1> QED BY <1>1, <1>2, <1>3, <1>4, <1>5, <1>6, <1>7, <1>8, <1>9, <1>10, <1>11, <1>12, <1>13,
           <1>14, <1>15, <1>16, <1>17, <1>18, <1>19, <1>20, <1>21, <1>22, <1>23, <1>24,
           <1>25, <1>26, <1>27, <1>28 DEF Next, Serve, Receive

\* Tokens stay distinct.
LEMMA DistinctStep ==
  ASSUME TypeOK, TypeOK', Placed, Exclusive, quiet, quiet', Apart, Distinct, Backed, ~alarm,
      [Next]_vars
  PROVE  Distinct'
<1> USE TabAssumption, BoundAssumption DEF TypeOK, vars, clockVars, serverVars, browserVars,
        requestVars, watchVars, Seconds, Tokens, Cookies, Exchange, Served, Replies, Pair,
        NoCookies, Goto, Valid, Distinct, InFlight, Fresh, Exchanging, Signing, Underway,
        Unauthorised, MayRefresh, Placed
<1>1. CASE UNCHANGED vars
  BY <1>1
<1>2. ASSUME NEW r \in Requests, Send(r) PROVE Distinct'
  BY <1>2 DEF Send
<1>3. ASSUME NEW r \in Requests, Judge(r) PROVE Distinct'
  BY <1>3 DEF Judge
<1>4. ASSUME NEW r \in Requests, Login(r) PROVE Distinct'
  BY <1>4 DEF Login, Checked
<1>5. ASSUME NEW r \in Requests, CreateLogin(r) PROVE Distinct'
  <2> DEFINE n == fresh[r].token
  <2>1. n \notin sessions /\ at[r] = "create" /\ n \in signed
    BY <1>5 DEF CreateLogin, Create
  <2>2. sessions' = sessions \union {n} /\ at' = [at EXCEPT ![r] = "ok"]
    BY <1>5, <2>1 DEF CreateLogin, Create
  <2>3. UNCHANGED <<signed, jar, sent, fresh, form>>
    BY <1>5 DEF CreateLogin, Create
  <2>4. \A q \in Requests : InFlight(q)' <=> InFlight(q)
    BY <1>5, <2>1, <2>2, <2>3
  <2>5. \A q \in Requests : InFlight(q) => (q = r \/ fresh[q].token # n)
    BY <2>1
  <2>6. \A q \in Requests \ {r} :
          at'[q] \in {"create", "rotate"} <=> at[q] \in {"create", "rotate"}
    BY <2>2
  <2>7. at'[r] \notin {"create", "rotate"}
    BY <2>2
  <2> HIDE DEF InFlight, n
  <2>8. \A q \in Requests : InFlight(q) =>
          (at'[q] \in {"create", "rotate"} <=> fresh[q].token \notin sessions')
    BY <2>2, <2>5, <2>6, <2>7 DEF n
  <2> QED BY <2>1, <2>2, <2>3, <2>4, <2>8 DEF n
<1>6. ASSUME NEW r \in Requests, EnterLogout(r) PROVE Distinct'
  BY <1>6 DEF EnterLogout
<1>7. ASSUME NEW r \in Requests, Revoke(r) PROVE Distinct'
  BY <1>7 DEF Revoke
<1>8. ASSUME NEW r \in Requests, RevokeErrs(r) PROVE Distinct'
  BY <1>8 DEF RevokeErrs
<1>9. ASSUME NEW r \in Requests, DropSession(r) PROVE Distinct'
  <2>1. /\ sessions' = sessions \ {sent[r].refresh} /\ at[r] = "drop"
        /\ at' = [at EXCEPT ![r] = "ok"] /\ form[r] = "logout"
    BY <1>9 DEF DropSession
  <2>2. UNCHANGED <<signed, jar, sent, fresh, form>>
    BY <1>9 DEF DropSession
  <2>3. \A q \in Requests : InFlight(q)' <=> InFlight(q)
    BY <2>1, <2>2
  <2>4. \A q \in Requests : InFlight(q) => sent[r].refresh # fresh[q].token
    BY DEF Distinct
  <2>5. \A q \in Requests : at'[q] \in {"create", "rotate"} <=> at[q] \in {"create", "rotate"}
    BY <2>1
  <2> HIDE DEF InFlight
  <2> QED BY <2>1, <2>2, <2>3, <2>4, <2>5
<1>10. ASSUME NEW r \in Requests, Find(r) PROVE Distinct'
  BY <1>10 DEF Find
<1>11. ASSUME NEW r \in Requests, Consume(r) PROVE Distinct'
  <2>1. /\ sessions' = sessions \ {sent[r].refresh} /\ at[r] = "found"
        /\ at' = [at EXCEPT ![r] = "consumed"] /\ ~InFlight(r)
    BY <1>11 DEF Consume
  <2>2. UNCHANGED <<jar, sent, form, signed>>
    BY <1>11 DEF Consume
  <2>3. \A q \in Requests \ {r} : fresh'[q] = fresh[q] /\ at'[q] = at[q]
    BY <1>11 DEF Consume, Checked
  <2>4. \A q \in Requests : InFlight(q)' => InFlight(q) /\ q # r
    BY <2>1, <2>2
  <2>5. \A q \in Requests : InFlight(q) => sent[r].refresh # fresh[q].token
    BY DEF Distinct
  <2> HIDE DEF InFlight
  <2> QED BY <2>1, <2>2, <2>3, <2>4, <2>5
<1>12. ASSUME NEW r \in Requests, ConsumeInVain(r) PROVE Distinct'
  BY <1>12 DEF ConsumeInVain
<1>13. ASSUME NEW r \in Requests, Rotate(r) PROVE Distinct'
  <2> DEFINE n == fresh[r].token
  <2>1. n \notin sessions /\ at[r] = "rotate" /\ n \in signed
    BY <1>13 DEF Rotate, Create
  <2>2. sessions' = sessions \union {n} /\ at' = [at EXCEPT ![r] = "renewed"]
    BY <1>13, <2>1 DEF Rotate, Create
  <2>3. UNCHANGED <<signed, jar, sent, fresh, form>>
    BY <1>13 DEF Rotate, Create
  <2>4. \A q \in Requests : InFlight(q)' <=> InFlight(q)
    BY <1>13, <2>1, <2>2, <2>3
  <2>5. \A q \in Requests : InFlight(q) => (q = r \/ fresh[q].token # n)
    BY <2>1
  <2>6. \A q \in Requests \ {r} :
          at'[q] \in {"create", "rotate"} <=> at[q] \in {"create", "rotate"}
    BY <2>2
  <2>7. at'[r] \notin {"create", "rotate"}
    BY <2>2
  <2> HIDE DEF InFlight, n
  <2>8. \A q \in Requests : InFlight(q) =>
          (at'[q] \in {"create", "rotate"} <=> fresh[q].token \notin sessions')
    BY <2>2, <2>5, <2>6, <2>7 DEF n
  <2> QED BY <2>1, <2>2, <2>3, <2>4, <2>8 DEF n
<1>14. ASSUME NEW r \in Requests, Alarm(r) PROVE Distinct'
  BY <1>14 DEF Alarm, Backed
<1>15. ASSUME NEW r \in Requests, SignIn(r) PROVE Distinct'
  BY <1>15 DEF SignIn, Answered
<1>16. ASSUME NEW r \in Requests, SignOut(r) PROVE Distinct'
  BY <1>16 DEF SignOut, Answered
<1>17. ASSUME NEW r \in Requests, Finish(r) PROVE Distinct'
  BY <1>17 DEF Finish
<1>18. ASSUME NEW r \in Requests, Wait(r) PROVE Distinct'
  BY <1>18 DEF Wait
<1>19. ASSUME NEW r \in Requests, Refresh(r) PROVE Distinct'
  BY <1>19 DEF Refresh
<1>20. ASSUME NEW r \in Requests, Renewed(r) PROVE Distinct'
  BY <1>20 DEF Renewed, Waiters, Others
<1>21. ASSUME NEW r \in Requests, Refused(r) PROVE Distinct'
  BY <1>21 DEF Refused, Rejected, Waiters, Others
<1>22. ASSUME NEW r \in Requests, Break(r) PROVE Distinct'
  BY <1>22 DEF Break
<1>23. CASE ResetPassword
  BY <1>23 DEF ResetPassword
<1>24. CASE Purge
  BY <1>24 DEF Purge
<1>25. CASE Tick
  BY <1>25 DEF Tick
<1>26. CASE Expire
  BY <1>26 DEF Expire
<1>27. ASSUME NEW r \in Requests, SignLogin(r) PROVE Distinct'
  <2>1. /\ sessions' = sessions /\ at[r] = "checked"
        /\ at' = [at EXCEPT ![r] = "create"] /\ ~InFlight(r)
    BY <1>27 DEF SignLogin, Sign
  <2>2. UNCHANGED <<jar, sent, form>>
    BY <1>27 DEF SignLogin, Sign
  <2>3. now \notin signed /\ signed' = signed \union {now} /\ now # 0
    BY <1>27 DEF SignLogin, Sign
  <2>4. fresh' \in [Requests -> [token : Tokens, era : Eras]]
    BY DEF TypeOK
  <2>5. fresh'[r].token = now /\ \A q \in Requests \ {r} : fresh'[q] = fresh[q]
    BY <1>27 DEF SignLogin, Sign
  <2>6. \A q \in Requests \ {r} : InFlight(q)' <=> InFlight(q)
    BY <2>1, <2>2
  <2>7. sessions \subseteq signed
    BY DEF Distinct
  <2>8. /\ at'[r] = "create"
        /\ \A q \in Requests \ {r} :
             at'[q] \in {"create", "rotate"} <=> at[q] \in {"create", "rotate"}
    BY <2>1
  <2> HIDE DEF InFlight
  <2>9. \A q \in Requests : InFlight(q)' =>
          (at'[q] \in {"create", "rotate"} <=> fresh'[q].token \notin sessions')
    <3> TAKE q \in Requests
    <3>1. CASE q = r
      BY <2>1, <2>3, <2>5, <2>8, <3>1
    <3>2. CASE q # r
      <4>1. fresh'[q] = fresh[q] /\ (InFlight(q)' => InFlight(q))
        BY <2>5, <2>6, <3>2
      <4> QED BY <2>1, <2>7, <2>8, <3>2, <4>1
    <3> QED BY <3>1, <3>2
  <2>10. \A q \in Requests : InFlight(q)' =>
           /\ fresh'[q].token \in signed' /\ jar'.refresh # fresh'[q].token
           /\ \A p \in Requests : sent'[p].refresh # fresh'[q].token
    <3> TAKE q \in Requests
    <3>1. CASE q = r
      BY <2>2, <2>3, <2>5, <3>1 DEF Distinct
    <3>2. CASE q # r
      <4>1. fresh'[q] = fresh[q] /\ (InFlight(q)' => InFlight(q))
        BY <2>5, <2>6, <3>2
      <4> QED BY <2>2, <2>3, <4>1 DEF Distinct
    <3> QED BY <3>1, <3>2
  <2>11. \A p, q \in Requests :
           InFlight(p)' /\ InFlight(q)' /\ fresh'[p].token = fresh'[q].token => p = q
    <3> SUFFICES ASSUME NEW p \in Requests, NEW q \in Requests, InFlight(p)', InFlight(q)',
                        fresh'[p].token = fresh'[q].token
                 PROVE  p = q
      OBVIOUS
    <3>1. \A x \in Requests : x # r /\ InFlight(x)' =>
            fresh'[x] = fresh[x] /\ InFlight(x) /\ fresh'[x].token # now
      BY <2>3, <2>5, <2>6
    <3>2. p = r <=> q = r
      BY <2>5, <3>1
    <3>3. CASE p # r /\ q # r
      <4>1. InFlight(p) /\ InFlight(q) /\ fresh[p].token = fresh[q].token
        BY <3>1, <3>3
      <4> QED BY <4>1 DEF Distinct
    <3> QED BY <3>2, <3>3
  <2> QED BY <2>1, <2>2, <2>3, <2>9, <2>10, <2>11
<1>28. ASSUME NEW r \in Requests, SignRotated(r) PROVE Distinct'
  <2>1. /\ sessions' = sessions /\ at[r] = "consumed"
        /\ at' = [at EXCEPT ![r] = "rotate"] /\ ~InFlight(r)
    BY <1>28 DEF SignRotated, Sign
  <2>2. UNCHANGED <<jar, sent, form>>
    BY <1>28 DEF SignRotated, Sign
  <2>3. now \notin signed /\ signed' = signed \union {now} /\ now # 0
    BY <1>28 DEF SignRotated, Sign
  <2>4. fresh' \in [Requests -> [token : Tokens, era : Eras]]
    BY DEF TypeOK
  <2>5. fresh'[r].token = now /\ \A q \in Requests \ {r} : fresh'[q] = fresh[q]
    BY <1>28 DEF SignRotated, Sign
  <2>6. \A q \in Requests \ {r} : InFlight(q)' <=> InFlight(q)
    BY <2>1, <2>2
  <2>7. sessions \subseteq signed
    BY DEF Distinct
  <2>8. /\ at'[r] = "rotate"
        /\ \A q \in Requests \ {r} :
             at'[q] \in {"create", "rotate"} <=> at[q] \in {"create", "rotate"}
    BY <2>1
  <2> HIDE DEF InFlight
  <2>9. \A q \in Requests : InFlight(q)' =>
          (at'[q] \in {"create", "rotate"} <=> fresh'[q].token \notin sessions')
    <3> TAKE q \in Requests
    <3>1. CASE q = r
      BY <2>1, <2>3, <2>5, <2>8, <3>1
    <3>2. CASE q # r
      <4>1. fresh'[q] = fresh[q] /\ (InFlight(q)' => InFlight(q))
        BY <2>5, <2>6, <3>2
      <4> QED BY <2>1, <2>7, <2>8, <3>2, <4>1
    <3> QED BY <3>1, <3>2
  <2>10. \A q \in Requests : InFlight(q)' =>
           /\ fresh'[q].token \in signed' /\ jar'.refresh # fresh'[q].token
           /\ \A p \in Requests : sent'[p].refresh # fresh'[q].token
    <3> TAKE q \in Requests
    <3>1. CASE q = r
      BY <2>2, <2>3, <2>5, <3>1 DEF Distinct
    <3>2. CASE q # r
      <4>1. fresh'[q] = fresh[q] /\ (InFlight(q)' => InFlight(q))
        BY <2>5, <2>6, <3>2
      <4> QED BY <2>2, <2>3, <4>1 DEF Distinct
    <3> QED BY <3>1, <3>2
  <2>11. \A p, q \in Requests :
           InFlight(p)' /\ InFlight(q)' /\ fresh'[p].token = fresh'[q].token => p = q
    <3> SUFFICES ASSUME NEW p \in Requests, NEW q \in Requests, InFlight(p)', InFlight(q)',
                        fresh'[p].token = fresh'[q].token
                 PROVE  p = q
      OBVIOUS
    <3>1. \A x \in Requests : x # r /\ InFlight(x)' =>
            fresh'[x] = fresh[x] /\ InFlight(x) /\ fresh'[x].token # now
      BY <2>3, <2>5, <2>6
    <3>2. p = r <=> q = r
      BY <2>5, <3>1
    <3>3. CASE p # r /\ q # r
      <4>1. InFlight(p) /\ InFlight(q) /\ fresh[p].token = fresh[q].token
        BY <3>1, <3>3
      <4> QED BY <4>1 DEF Distinct
    <3> QED BY <3>2, <3>3
  <2> QED BY <2>1, <2>2, <2>3, <2>9, <2>10, <2>11
<1> QED BY <1>1, <1>2, <1>3, <1>4, <1>5, <1>6, <1>7, <1>8, <1>9, <1>10, <1>11, <1>12, <1>13,
           <1>14, <1>15, <1>16, <1>17, <1>18, <1>19, <1>20, <1>21, <1>22, <1>23, <1>24,
           <1>25, <1>26, <1>27, <1>28 DEF Next, Serve, Receive

\* The cookie a refresh presents keeps a row.
LEMMA BackedStep ==
  ASSUME TypeOK, Placed, Exclusive, quiet, quiet', Apart, Distinct, Backed, ~alarm, [Next]_vars
  PROVE  Backed'
<1> USE TabAssumption, BoundAssumption DEF TypeOK, vars, clockVars, serverVars, browserVars,
        requestVars, watchVars, Seconds, Tokens, Cookies, Exchange, Served, Replies, Pair,
        NoCookies, Goto, Valid, Backed, Exchanging, Signing, Underway, Unauthorised,
        MayRefresh, Placed
<1>1. CASE UNCHANGED vars
  BY <1>1
<1>2. ASSUME NEW r \in Requests, Send(r) PROVE Backed'
  BY <1>2 DEF Send
<1>3. ASSUME NEW r \in Requests, Judge(r) PROVE Backed'
  BY <1>3 DEF Judge
<1>4. ASSUME NEW r \in Requests, Login(r) PROVE Backed'
  BY <1>4 DEF Login, Checked
<1>5. ASSUME NEW r \in Requests, CreateLogin(r) PROVE Backed'
  BY <1>5 DEF CreateLogin, Create
<1>6. ASSUME NEW r \in Requests, EnterLogout(r) PROVE Backed'
  BY <1>6 DEF EnterLogout
<1>7. ASSUME NEW r \in Requests, Revoke(r) PROVE Backed'
  BY <1>7 DEF Revoke
<1>8. ASSUME NEW r \in Requests, RevokeErrs(r) PROVE Backed'
  BY <1>8 DEF RevokeErrs
<1>9. ASSUME NEW r \in Requests, DropSession(r) PROVE Backed'
  <2>1. Exchanging = {} /\ form[r] = "logout"
    BY <1>9 DEF DropSession, Apart
  <2>2. Exchanging' = {} /\ at'[r] = "ok" /\ form' = form
    BY <1>9, <2>1 DEF DropSession
  <2>3. sessions' = sessions \ {sent[r].refresh} /\ jar' = jar
    BY <1>9 DEF DropSession
  <2> QED BY <2>1, <2>2, <2>3
<1>10. ASSUME NEW r \in Requests, Find(r) PROVE Backed'
  BY <1>10 DEF Find
<1>11. ASSUME NEW r \in Requests, Consume(r) PROVE Backed'
  <2>1. Exchanging = {r} /\ at' = [at EXCEPT ![r] = "consumed"]
    BY <1>11 DEF Consume, Apart
  <2> QED BY <2>1
<1>12. ASSUME NEW r \in Requests, ConsumeInVain(r) PROVE Backed'
  BY <1>12 DEF ConsumeInVain
<1>13. ASSUME NEW r \in Requests, Rotate(r) PROVE Backed'
  <2>1. fresh[r].token \notin sessions
    BY <1>13 DEF Rotate, Create, Distinct, InFlight
  <2>2. at' = [at EXCEPT ![r] = "renewed"] /\ sessions \subseteq sessions'
    BY <1>13, <2>1 DEF Rotate, Create
  <2>3. UNCHANGED sent
    BY <1>13 DEF Rotate, Create
  <2> QED BY <2>2, <2>3
<1>14. ASSUME NEW r \in Requests, Alarm(r) PROVE Backed'
  BY <1>14 DEF Alarm
<1>15. ASSUME NEW r \in Requests, SignIn(r) PROVE Backed'
  <2>1. r \notin gone /\ fresh[r].token \in sessions
    BY <1>15 DEF SignIn, Apart, Distinct, InFlight, Fresh
  <2>2. jar'.refresh \in sessions' /\ at' = [at EXCEPT ![r] = "done"]
    BY <1>15, <2>1 DEF SignIn, Answered
  <2>3. UNCHANGED <<sessions, sent>>
    BY <1>15 DEF SignIn
  <2> QED BY <2>2, <2>3
<1>16. ASSUME NEW r \in Requests, SignOut(r) PROVE Backed'
  <2>1. r \notin gone
    BY <1>16 DEF SignOut, Apart
  <2>2. jar'.refresh = 0 /\ at' = [at EXCEPT ![r] = "done"]
    BY <1>16, <2>1 DEF SignOut, Answered
  <2>3. UNCHANGED <<sessions, sent>>
    BY <1>16 DEF SignOut
  <2> QED BY <2>2, <2>3
<1>17. ASSUME NEW r \in Requests, Finish(r) PROVE Backed'
  BY <1>17 DEF Finish
<1>18. ASSUME NEW r \in Requests, Wait(r) PROVE Backed'
  BY <1>18 DEF Wait
<1>19. ASSUME NEW r \in Requests, Refresh(r) PROVE Backed'
  <2>1. Exchanging = {} /\ Signing \ {r} = {} /\ at[r] = "401"
    BY <1>19 DEF Refresh, Exclusive
  <2>2. jar.refresh \in sessions \union {0}
    BY <2>1
  <2>3. /\ at' = [at EXCEPT ![r] = "refresh"] /\ sent' = [sent EXCEPT ![r] = jar]
        /\ UNCHANGED <<jar, sessions, form>>
    BY <1>19 DEF Refresh
  <2>4. \A q \in Requests : at'[q] = "refresh" => q = r
    BY <2>1, <2>3
  <2> QED BY <2>1, <2>2, <2>3, <2>4
<1>20. ASSUME NEW r \in Requests, Renewed(r) PROVE Backed'
  <2>1. Exchanging = {r} /\ fresh[r].token \in sessions
    BY <1>20 DEF Renewed, Apart, Distinct, InFlight
  <2>2. jar'.refresh \in sessions' /\ Exchanging' = {}
    BY <1>20, <2>1 DEF Renewed
  <2> QED BY <2>1, <2>2
<1>21. ASSUME NEW r \in Requests, Refused(r) PROVE Backed'
  BY <1>21 DEF Refused, Rejected, Waiters, Others
<1>22. ASSUME NEW r \in Requests, Break(r) PROVE Backed'
  BY <1>22 DEF Break
<1>23. CASE ResetPassword
  BY <1>23 DEF ResetPassword
<1>24. CASE Purge
  BY <1>24 DEF Purge
<1>25. CASE Tick
  BY <1>25 DEF Tick
<1>26. CASE Expire
  BY <1>26 DEF Expire
<1>27. ASSUME NEW r \in Requests, SignLogin(r) PROVE Backed'
  BY <1>27 DEF SignLogin, Sign
<1>28. ASSUME NEW r \in Requests, SignRotated(r) PROVE Backed'
  BY <1>28 DEF SignRotated, Sign
<1> QED BY <1>1, <1>2, <1>3, <1>4, <1>5, <1>6, <1>7, <1>8, <1>9, <1>10, <1>11, <1>12, <1>13,
           <1>14, <1>15, <1>16, <1>17, <1>18, <1>19, <1>20, <1>21, <1>22, <1>23, <1>24,
           <1>25, <1>26, <1>27, <1>28 DEF Next, Serve, Receive

\* While nothing excuses it, no refresh is taken for a replay.
LEMMA CalmStep ==
  ASSUME TypeOK, TypeOK', Placed, Exclusive, Calm, [Next]_vars
  PROVE  Calm'
<1> SUFFICES ASSUME quiet' PROVE Apart' /\ Distinct' /\ Backed' /\ ~alarm'
  BY DEF Calm
<1>1. quiet /\ Apart /\ Distinct /\ Backed /\ ~alarm
  BY QuietStep DEF Calm
<1>2. Apart' /\ Distinct' /\ Backed'
  BY <1>1, ApartStep, DistinctStep, BackedStep
<1>3. ASSUME NEW r \in Requests, Alarm(r) PROVE FALSE
  BY <1>1, <1>3 DEF Alarm, Backed
<1>4. UNCHANGED alarm
  BY <1>3 DEF Next, vars, watchVars, Serve, Receive, Send, Judge, Login, SignLogin, SignRotated,
     Sign, CreateLogin, EnterLogout,
              Revoke, RevokeErrs, DropSession, Find, Consume, ConsumeInVain, Rotate, Create,
              SignIn, SignOut, Finish, Wait, Refresh, Renewed, Refused, Break, ResetPassword,
              Purge, Tick, Expire
<1> QED BY <1>1, <1>2, <1>4

\* The invariant holds when the browser starts with one session.
LEMMA InitInductive == Init => Inductive
<1> SUFFICES ASSUME Init PROVE Inductive
  OBVIOUS
<1> USE TabAssumption, MixAssumption, BoundAssumption DEF Init, Seconds, Tokens, Pair,
        NoCookies, NotFresh
<1>1. form \in [Requests -> AllForms]
  OBVIOUS
<1>2. TypeOK
  <2>1. /\ now \in Seconds /\ expired \in 0 .. MaxSecond /\ sessions \subseteq Seconds
        /\ signed \subseteq Seconds /\ out \in Tokens /\ faults \in 0 .. MaxFaults
    OBVIOUS
  <2>2. jar \in Cookies /\ sent \in [Requests -> Cookies]
    BY DEF Cookies, NoCookies
  <2>3. at \in [Requests -> Places] /\ form \in [Requests -> AllForms]
    BY <1>1 DEF Places
  <2>4. fresh \in [Requests -> [token : Tokens, era : Eras]]
    BY DEF Eras
  <2>5. era \in [Seconds -> Eras] /\ password \in {"old", "new"}
    BY DEF Eras
  <2>6. reset \in {"none", "updated", "done"} /\ alarm \in BOOLEAN /\ quiet \in BOOLEAN
    OBVIOUS
  <2>7. /\ authed \subseteq Tabs /\ refreshing \subseteq Tabs /\ revoked \subseteq Tokens
        /\ gone \subseteq Requests /\ retried \subseteq Requests /\ alone \subseteq Requests
    OBVIOUS
  <2> HIDE DEF Init
  <2> QED BY <2>1, <2>2, <2>3, <2>4, <2>5, <2>6, <2>7 DEF TypeOK
<1>3. Placed /\ Exclusive /\ Purged
  BY DEF Placed, Exclusive, Exchanging, Exchange, Purged
<1>4. Counted
  <2>1. Rotating = {} /\ Creating = {} /\ Cardinality(sessions) = 1
    BY FS_Singleton DEF Rotating, Creating
  <2> QED BY <1>2, <2>1, Finite, FS_EmptySet DEF Counted
<1>5. LoneLogouts
  BY DEF LoneLogouts
<1>6. Calm
  BY DEF Calm, Apart, Distinct, Backed, InFlight, Fresh, Exchanging, Signing, Exchange,
     Underway,
         Served, Replies
<1> QED BY <1>2, <1>3, <1>4, <1>5, <1>6 DEF Inductive

-----------------------------------------------------------------------------
\* The strengthening of the four properties is an invariant: what AuthService
\* and the interceptors do keeps it, whatever they interleave.
THEOREM InductiveInvariant == Spec => []Inductive
<1>1. Init => Inductive
  BY InitInductive
<1>2. Inductive /\ [Next]_vars => Inductive'
  <2> SUFFICES ASSUME Inductive, [Next]_vars PROVE Inductive'
    OBVIOUS
  <2>1. TypeOK'
    BY TypesStep DEF Inductive
  <2>2. Placed' /\ Exclusive' /\ Purged' /\ LoneLogouts'
    BY PlacedStep, ExclusiveStep, PurgedStep, LoneStep DEF Inductive
  <2>3. Counted'
    BY <2>1, CountedStep DEF Inductive
  <2>4. Calm'
    BY <2>1, CalmStep DEF Inductive
  <2> QED BY <2>1, <2>2, <2>3, <2>4 DEF Inductive
<1> QED BY <1>1, <1>2, PTL DEF Spec

\* Every variable keeps to its type in every behaviour of the sessions.
THEOREM TypeCorrect == Spec => []TypeOK
<1>1. Inductive => TypeOK
  BY DEF Inductive
<1> QED BY <1>1, InductiveInvariant, PTL

\* Rotation never multiplies sessions, for any number of tabs and requests:
\* consumeRefreshSession deletes a row for each that rotation inserts.
THEOREM NoFork == Spec => []SessionsDontFork
<1>1. Inductive => SessionsDontFork
  <2> SUFFICES ASSUME Inductive PROVE SessionsDontFork
    OBVIOUS
  <2>1. Cardinality(sessions) + Cardinality(Rotating) <= 1 + Cardinality(LoggedIn)
    BY Finite DEF Inductive, Counted
  <2> QED BY <2>1 DEF SessionsDontFork, Rotating, LoggedIn
<1> QED BY <1>1, InductiveInvariant, PTL

\* A tab's own requests never make the server take its refresh for a replay:
\* the alarm of AuthService.refreshToken needs one of the listed excuses.
THEOREM AlarmsAreExcused == Spec => []NoFalseAlarm
<1>1. Inductive => NoFalseAlarm
  BY DEF Inductive, Calm, NoFalseAlarm
<1> QED BY <1>1, InductiveInvariant, PTL

\* What a logout that overlapped no login and no refresh has ended stays
\* ended: no cookies, no row, and an access token that is refused.
THEOREM LogoutEnds == Spec => []SignedOut
<1>1. Inductive => SignedOut
  BY DEF Inductive, LoneLogouts, SignedOut
<1> QED BY <1>1, InductiveInvariant, PTL

\* After resetPassword every session is of the new password, but for those of
\* a login that was past its check of the old hash, or of a refresh that was
\* past its deletion, when the purge ran.
THEOREM ResetEnds == Spec => []ResetEndsSessions
<1>1. Inductive => ResetEndsSessions
  BY DEF Inductive, TypeOK, Eras, Purged, ResetEndsSessions
<1> QED BY <1>1, InductiveInvariant, PTL
=============================================================================
