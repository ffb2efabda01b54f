------------------------------- MODULE Session -------------------------------
(***************************************************************************)
(* Who is logged in: the session cookie and the handlers that read or set  *)
(* it (POST /api/auth, POST /api/signout, GET /api/user/me, GET /api/isu   *)
(* of webapp/nodejs/src/app.ts), and the tabs of one browser that log in   *)
(* and out by them (lib/login.ts, GuardedRoute.tsx, UserControlModal.tsx,  *)
(* Home/IsuList.tsx of webapp/frontend/src).                               *)
(*                                                                         *)
(* The session is the cookie: the server keeps none.  All tabs share the   *)
(* cookie jar; a request carries the cookie of the moment it is sent, and  *)
(* a Set-Cookie takes effect when the answer is there, so that requests of *)
(* two tabs undo each other's work without knowing.                        *)
(*                                                                         *)
(* Abstracted: "/" is one page, all the others together are another; the   *)
(* list of isu is the user it belongs to.                                  *)
(***************************************************************************)
EXTENDS Naturals

CONSTANTS
    Tab, User,
    NoUser,     \* nobody; also: no cookie, an empty list
    Token,      \* the tokens an address may hold: [user, valid]
    NoToken,    \* no ?jwt= in the address
    Keep,       \* an answer without Set-Cookie
    MaxOpens,   \* bound on the pages loaded and reloaded
    MaxLosses,  \* bound on the answers lost
    MaxResets   \* bound on the runs of POST /initialize

VARIABLES
    users,    \* rows of the table user
    jar,      \* the user the browser's cookie names
    phase,    \* of useLogin: "closed" (no page), "check", "auth", "confirm"
              \* (a request is awaited under the spinner), "settled", or "hung"
    home,     \* the tab is on "/"
    address,  \* the token in its address
    me,       \* state.me
    list,     \* the user whose isu are listed
    net,      \* the tab's requests: of login, of logout, of the list
    opens, losses, resets,
    foreign,  \* ghost: another tab changed the cookie since this one last
              \* asked for /api/user/me
    broken    \* ghost: the tab lost an answer since it was opened

tabVars == <<phase, home, address, me, list>>
vars == <<users, jar, tabVars, net, opens, losses, resets, foreign, broken>>

\* A request or its answer; the cookie of an answer is its Set-Cookie, the body
\* of a request a token and of an answer a user.
NoRequest == [state |-> "none", cookie |-> Keep, status |-> 0, body |-> NoUser]
Sent(cookie) == [NoRequest EXCEPT !.state = "sent", !.cookie = cookie]
Answer(status, body, cookie) ==
    [state |-> "answered", cookie |-> cookie, status |-> status, body |-> body]

Idle == [login |-> NoRequest, signout |-> NoRequest, isus |-> NoRequest]

Init ==
    /\ users = {} /\ jar = NoUser
    /\ phase = [t \in Tab |-> "closed"]
    /\ home = [t \in Tab |-> TRUE]
    /\ address = [t \in Tab |-> NoToken]
    /\ me = [t \in Tab |-> NoUser]
    /\ list = [t \in Tab |-> NoUser]
    /\ net = [t \in Tab |-> Idle]
    /\ opens = 0 /\ losses = 0 /\ resets = 0
    /\ foreign = [t \in Tab |-> FALSE]
    /\ broken = [t \in Tab |-> FALSE]

-----------------------------------------------------------------------------
(* The server.  Each handler answers the request of a tab. *)

Answers(t, kind, answer) ==
    /\ net[t][kind].state = "sent"
    /\ net' = [net EXCEPT ![t][kind] = answer]
    /\ UNCHANGED <<jar, tabVars, opens, losses, resets, foreign, broken>>

Cookie(t, kind) == net[t][kind].cookie

\* getUserIdFromSession: a cookie, and a row of its user.
HasSession(cookie) == cookie \in users

\* Mutant: the payload is decoded and the signature is not verified.
PostAuthDecoded(t) ==
    /\ phase[t] = "auth" /\ net[t].login.state = "sent"
    /\ LET token == net[t].login.body
       IN  /\ Answers(t, "login", Answer(200, NoUser, token.user))
           /\ users' = users \cup {token.user}

PostAuth(t) ==
    /\ phase[t] = "auth" /\ net[t].login.state = "sent"
    /\ LET token == net[t].login.body
       IN  IF token.valid
           THEN /\ Answers(t, "login", Answer(200, NoUser, token.user))
                /\ users' = users \cup {token.user}
           ELSE /\ Answers(t, "login", Answer(403, NoUser, Keep))
                /\ UNCHANGED users

GetUserMe(t) ==
    /\ phase[t] \in {"check", "confirm"}
    /\ Answers(t, "login",
               IF HasSession(Cookie(t, "login"))
               THEN Answer(200, Cookie(t, "login"), Keep) ELSE Answer(401, NoUser, Keep))
    /\ UNCHANGED users

PostSignout(t) ==
    /\ Answers(t, "signout",
               IF HasSession(Cookie(t, "signout"))
               THEN Answer(200, NoUser, NoUser) ELSE Answer(401, NoUser, Keep))
    /\ UNCHANGED users

GetIsus(t) ==
    /\ Answers(t, "isus",
               IF HasSession(Cookie(t, "isus"))
               THEN Answer(200, Cookie(t, "isus"), Keep) ELSE Answer(401, NoUser, Keep))
    /\ UNCHANGED users

\* POST /initialize empties the table; cookies go on naming its users.
Initialize ==
    /\ resets < MaxResets
    /\ resets' = resets + 1
    /\ users' = {}
    /\ UNCHANGED <<jar, tabVars, net, opens, losses, foreign, broken>>

-----------------------------------------------------------------------------
(* The browser. *)

\* The answer a tab takes, and its Set-Cookie.
Takes(t, kind) ==
    LET cookie == net[t][kind].cookie
    IN  /\ net[t][kind].state = "answered"
        /\ jar' = IF cookie = Keep THEN jar ELSE cookie

\* A cookie set by one tab is foreign to the others; a tab that asks who it is
\* starts afresh.
Foreign(t, asks) ==
    foreign' = [s \in Tab |->
                   IF s = t THEN foreign[s] /\ ~asks ELSE foreign[s] \/ jar' # jar]

\* A page is loaded: GuardedRoute asks who is logged in.
Load(t, token, isHome) ==
    /\ opens < MaxOpens
    /\ opens' = opens + 1
    /\ phase' = [phase EXCEPT ![t] = "check"]
    /\ home' = [home EXCEPT ![t] = isHome]
    /\ address' = [address EXCEPT ![t] = token]
    /\ me' = [me EXCEPT ![t] = NoUser]
    /\ list' = [list EXCEPT ![t] = NoUser]
    /\ net' = [net EXCEPT ![t] = [Idle EXCEPT !.login = Sent(jar)]]
    /\ foreign' = [foreign EXCEPT ![t] = FALSE]
    /\ broken' = [broken EXCEPT ![t] = FALSE]
    /\ UNCHANGED <<users, jar, losses, resets>>

\* An address is typed in or followed.
Open(t, token) == \E isHome \in BOOLEAN : Load(t, token, isHome \/ token # NoToken)

Reload(t) == phase[t] # "closed" /\ Load(t, address[t], home[t])

\* Auth.tsx: the button of the landing page leads to the JIA and comes back
\* with a token.
ClickAuth(t, token) ==
    /\ phase[t] = "settled" /\ me[t] = NoUser
    /\ token.valid
    /\ Load(t, token, TRUE)

\* setTryLogin(false) without a user: whatever page it is redirects to "/".
SettleLoggedOut(t) ==
    /\ phase' = [phase EXCEPT ![t] = "settled"]
    /\ home' = [home EXCEPT ![t] = TRUE]
    /\ net' = [net EXCEPT ![t].login = NoRequest]
    /\ UNCHANGED <<address, me, list>>

\* setMe: on "/" the list of isu is mounted and fetched.
SettleAs(t, user) ==
    /\ phase' = [phase EXCEPT ![t] = "settled"]
    /\ me' = [me EXCEPT ![t] = user]
    /\ net' = [net EXCEPT ![t].login = NoRequest,
                          ![t].isus = IF home[t] THEN Sent(jar) ELSE NoRequest]
    /\ UNCHANGED <<home, address, list>>

\* The first getUserMe failed: the token is taken out of the address and sent.
SendToken(t) ==
    IF address[t] = NoToken THEN SettleLoggedOut(t)
    ELSE /\ phase' = [phase EXCEPT ![t] = "auth"]
         /\ address' = [address EXCEPT ![t] = NoToken]
         /\ net' = [net EXCEPT ![t].login = [Sent(jar) EXCEPT !.body = address[t]]]
         /\ UNCHANGED <<home, me, list>>

\* Whoever the cookie names is logged in, and a token stays in the address.
Checked(t) ==
    /\ phase[t] = "check" /\ Takes(t, "login")
    /\ IF net[t].login.status = 200 THEN SettleAs(t, net[t].login.body) ELSE SendToken(t)
    /\ Foreign(t, FALSE)
    /\ UNCHANGED <<users, opens, losses, resets, broken>>

\* Mutant: a refused token leaves the spinner.
AuthenticatedOrWaiting(t) ==
    /\ phase[t] = "auth" /\ Takes(t, "login") /\ net[t].login.status = 200
    /\ phase' = [phase EXCEPT ![t] = "confirm"]
    /\ net' = [net EXCEPT ![t].login = Sent(jar')]
    /\ Foreign(t, TRUE)
    /\ UNCHANGED <<home, address, me, list, users, opens, losses, resets, broken>>

Authenticated(t) ==
    /\ phase[t] = "auth" /\ Takes(t, "login")
    /\ IF net[t].login.status = 200
       THEN /\ phase' = [phase EXCEPT ![t] = "confirm"]
            /\ net' = [net EXCEPT ![t].login = Sent(jar')]
            /\ Foreign(t, TRUE)
            /\ UNCHANGED <<home, address, me, list>>
       ELSE SettleLoggedOut(t) /\ Foreign(t, FALSE)
    /\ UNCHANGED <<users, opens, losses, resets, broken>>

Confirmed(t) ==
    /\ phase[t] = "confirm" /\ Takes(t, "login")
    /\ IF net[t].login.status = 200 THEN SettleAs(t, net[t].login.body) ELSE SettleLoggedOut(t)
    /\ Foreign(t, FALSE)
    /\ UNCHANGED <<users, opens, losses, resets, broken>>

\* The link of the logout button leads to "/" at once, whatever is answered.
\* Left out: a second click while the first signout is under way.
PressLogout(t) ==
    /\ phase[t] = "settled" /\ me[t] # NoUser
    /\ net[t].signout = NoRequest
    /\ home' = [home EXCEPT ![t] = TRUE]
    /\ address' = [address EXCEPT ![t] = NoToken]
    /\ net' = [net EXCEPT ![t].signout = Sent(jar),
                          ![t].isus = IF home[t] THEN @ ELSE Sent(jar)]
    /\ UNCHANGED <<users, jar, phase, me, list, opens, losses, resets, foreign, broken>>

\* Mutant: the state is not told.
LoggedOutSilently(t) ==
    /\ Takes(t, "signout")
    /\ net' = [net EXCEPT ![t].signout = NoRequest]
    /\ Foreign(t, FALSE)
    /\ UNCHANGED <<users, tabVars, opens, losses, resets, broken>>

\* dispatch logout: login() changes with me and runs again.  A refused
\* signout rejects the promise before the dispatch, and the tab stays.
LoggedOut(t) ==
    /\ Takes(t, "signout")
    /\ IF net[t].signout.status = 200
       THEN /\ me' = [me EXCEPT ![t] = NoUser]
            /\ list' = [list EXCEPT ![t] = NoUser]
            /\ phase' = [phase EXCEPT ![t] = "check"]
            /\ home' = [home EXCEPT ![t] = TRUE]
            /\ net' = [net EXCEPT ![t] = [Idle EXCEPT !.login = Sent(jar')]]
            /\ Foreign(t, TRUE)
            /\ UNCHANGED address
       ELSE /\ net' = [net EXCEPT ![t].signout = NoRequest]
            /\ Foreign(t, FALSE)
            /\ UNCHANGED tabVars
    /\ UNCHANGED <<users, opens, losses, resets, broken>>

\* Links between "/" and the other pages mount and unmount the list.
Navigate(t) ==
    /\ phase[t] = "settled" /\ me[t] # NoUser
    /\ home' = [home EXCEPT ![t] = ~home[t]]
    /\ address' = [address EXCEPT ![t] = NoToken]
    /\ list' = [list EXCEPT ![t] = NoUser]
    /\ net' = [net EXCEPT ![t].isus = IF home[t] THEN NoRequest ELSE Sent(jar)]
    /\ UNCHANGED <<users, jar, phase, me, opens, losses, resets, foreign, broken>>

\* getIsus rejects unhandled: the list stays as it was.
Listed(t) ==
    /\ Takes(t, "isus")
    /\ list' = [list EXCEPT ![t] = IF net[t].isus.status = 200 THEN net[t].isus.body ELSE @]
    /\ net' = [net EXCEPT ![t].isus = NoRequest]
    /\ UNCHANGED <<users, phase, home, address, me, opens, losses, resets, foreign, broken>>

\* No answer comes, served or not: axios rejects with an error that has no
\* response.  In login() reading response.data throws in its turn, before
\* setTryLogin(false) if the token was out of the address already.
AnswerLost(t, kind) ==
    /\ net[t][kind] # NoRequest
    /\ losses < MaxLosses
    /\ losses' = losses + 1
    /\ broken' = [broken EXCEPT ![t] = TRUE]
    /\ IF kind # "login"
       THEN net' = [net EXCEPT ![t][kind] = NoRequest] /\ UNCHANGED tabVars
       ELSE IF phase[t] = "check" THEN SendToken(t)
       ELSE /\ phase' = [phase EXCEPT ![t] = "hung"]
            /\ net' = [net EXCEPT ![t].login = NoRequest]
            /\ UNCHANGED <<home, address, me, list>>
    /\ UNCHANGED <<users, jar, opens, resets, foreign>>

-----------------------------------------------------------------------------
Serve(t) ==
    \/ GetUserMe(t)
    \/ PostAuth(t)
    \/ PostSignout(t)
    \/ GetIsus(t)

Receive(t) == Checked(t) \/ Authenticated(t) \/ Confirmed(t) \/ LoggedOut(t) \/ Listed(t)

Visitor(t) ==
    \/ \E token \in Token \cup {NoToken} : Open(t, token)
    \/ Reload(t)
    \/ \E token \in Token : ClickAuth(t, token)
    \/ PressLogout(t)
    \/ Navigate(t)

Next ==
    \/ Initialize
    \/ \E t \in Tab :
          \/ Serve(t) \/ Receive(t) \/ Visitor(t)
          \/ \E kind \in {"login", "signout", "isus"} : AnswerLost(t, kind)

Spec == Init /\ [][Next]_vars

\* Every request is answered and every answer taken.
FairSpec ==
    Spec /\ \A t \in Tab :
        /\ WF_vars(GetUserMe(t) \/ PostAuth(t))
        /\ WF_vars(Checked(t) \/ Authenticated(t) \/ Confirmed(t))

-----------------------------------------------------------------------------
(* Properties. *)

\* A settled tab shows the user the cookie names, and no one else's list,
\* unless another tab changed the cookie since the tab asked who it is:
\* through tokens refused and ignored, logouts that are lost or refused,
\* reloads in the middle of a login and lists that arrive late (login.ts:26,
\* UserControlModal.tsx:14).
TabShowsItsSession ==
    \A t \in Tab :
        (phase[t] = "settled" /\ me[t] # NoUser /\ ~foreign[t])
            => me[t] = jar /\ list[t] \in {NoUser, me[t]}

\* Nobody is a user, in the table, by the cookie, or in any tab, whose token
\* was not verified (app.ts:273), whichever requests cross.
SessionsAreVerified ==
    LET verified == {token.user : token \in {k \in Token : k.valid}}
    IN  /\ users \subseteq verified
        /\ jar \in verified \cup {NoUser}
        /\ \A t \in Tab : {me[t], list[t]} \subseteq verified \cup {NoUser}

\* The spinner of GuardedRoute goes away, whether the cookie or the token is
\* accepted or not, and after a logout too; only a lost answer may leave it
\* (login.ts:47 throws before line 48).
SpinnerEnds ==
    \A t \in Tab :
        phase[t] \in {"check", "auth", "confirm"} ~> (phase[t] = "settled" \/ broken[t])

=============================================================================
