---------------------------- MODULE SessionProofs ----------------------------
(***************************************************************************)
(* Theorems about module Session, for any tabs, users and tokens and any   *)
(* bounds: nobody is a user without a verified token, and a tab shows the  *)
(* user of the cookie.                                                     *)
(*                                                                         *)
(* Neither is inductive, as both depend on the messages under way.         *)
(* SessionInv adds what each of them may carry (TypeInv, AnswerInv), which *)
(* of them may be under way in which phase (PhaseInv), and, while no other *)
(* tab has changed the cookie, that they are about the user of the cookie  *)
(* (OwnInv).                                                               *)
(***************************************************************************)
EXTENDS Session, TLAPS

Verified == {token.user : token \in {k \in Token : k.valid}}
Known == Verified \cup {NoUser}

Message == [state : {"none", "sent", "answered"}, cookie : Known \cup {Keep},
            status : {0, 200, 401, 403}, body : Known \cup Token]

Messages == [login : Message, signout : Message, isus : Message]

\* Every user anywhere is a verified one, but for the token that is sent.
TypeInv ==
    /\ users \subseteq Verified
    /\ jar \in Known
    /\ phase \in [Tab -> {"closed", "check", "auth", "confirm", "settled", "hung"}]
    /\ home \in [Tab -> BOOLEAN]
    /\ address \in [Tab -> Token \cup {NoToken}]
    /\ me \in [Tab -> Known]
    /\ list \in [Tab -> Known]
    /\ net \in [Tab -> Messages]
    /\ foreign \in [Tab -> BOOLEAN]

\* What is under way in a phase.
PhaseInv(t) ==
    /\ phase[t] # "settled" =>
          /\ me[t] = NoUser /\ list[t] = NoUser
          /\ net[t].signout = NoRequest /\ net[t].isus = NoRequest
    /\ phase[t] = "settled" => net[t].login = NoRequest
    /\ phase[t] = "auth" /\ net[t].login.state = "sent" => net[t].login.body \in Token

\* What the handlers answer.
AnswerInv(t) ==
    /\ net[t].login.state = "answered" =>
          /\ net[t].login.body \in Known
          /\ phase[t] \in {"check", "confirm"} => net[t].login.cookie = Keep
          /\ net[t].login.status # 200 => net[t].login.cookie = Keep
    /\ net[t].isus.state = "answered" =>
          net[t].isus.body \in Known /\ net[t].isus.cookie = Keep
    /\ net[t].signout.state = "answered" /\ net[t].signout.status # 200 =>
          net[t].signout.cookie = Keep

\* A request or an answer about the user of the cookie.
About(message) ==
    /\ message.state = "sent" => message.cookie = jar
    /\ message.state = "answered" /\ message.status = 200 => message.body = jar

OwnInv(t) ==
    ~foreign[t] =>
      /\ phase[t] \in {"check", "confirm"} => About(net[t].login)
      /\ About(net[t].isus)
      /\ me[t] # NoUser => me[t] = jar /\ list[t] \in {NoUser, me[t]}

TabInv(t) == PhaseInv(t) /\ AnswerInv(t) /\ OwnInv(t)

SessionInv == TypeInv /\ \A t \in Tab : TabInv(t)

----------------------------------------------------------------------------
\* What becomes of the messages of the tabs when a handler answers.
LEMMA AnswersFacts ==
    ASSUME TypeInv, NEW t \in Tab, NEW m \in Message
    PROVE  /\ Answers(t, "login", m) =>
                /\ net' \in [Tab -> Messages]
                /\ net'[t] = [net[t] EXCEPT !.login = m]
                /\ \A s \in Tab \ {t} : net'[s] = net[s]
           /\ Answers(t, "signout", m) =>
                /\ net' \in [Tab -> Messages]
                /\ net'[t] = [net[t] EXCEPT !.signout = m]
                /\ \A s \in Tab \ {t} : net'[s] = net[s]
           /\ Answers(t, "isus", m) =>
                /\ net' \in [Tab -> Messages]
                /\ net'[t] = [net[t] EXCEPT !.isus = m]
                /\ \A s \in Tab \ {t} : net'[s] = net[s]
<1>1. net \in [Tab -> Messages] /\ net[t] \in Messages
    BY DEF TypeInv
<1>2. /\ [net[t] EXCEPT !.login = m] \in Messages
      /\ [net[t] EXCEPT !.signout = m] \in Messages
      /\ [net[t] EXCEPT !.isus = m] \in Messages
    BY <1>1 DEF Messages
<1>3. ASSUME NEW kind, Answers(t, kind, m)
      PROVE  net' = [net EXCEPT ![t] = [net[t] EXCEPT ![kind] = m]]
    BY <1>1, <1>3 DEF Answers
<1> QED
    BY <1>1, <1>2, <1>3

\* No tab is open.
LEMMA InvInit == Init => SessionInv
BY DEF Init, SessionInv, TypeInv, TabInv, PhaseInv, AnswerInv, OwnInv, About,
       Idle, NoRequest, Known, Message, Messages

\* A tab nothing happens to, when the cookie changes only for its being foreign.
LEMMA Untouched ==
    ASSUME NEW t \in Tab, TabInv(t),
           phase'[t] = phase[t], me'[t] = me[t], list'[t] = list[t], net'[t] = net[t],
           ~foreign'[t] => ~foreign[t] /\ jar' = jar
    PROVE  TabInv(t)'
BY DEF TabInv, PhaseInv, AnswerInv, OwnInv, About

\* A step of tab t keeps the invariant when it keeps that of t.
LEMMA OneTab ==
    ASSUME SessionInv, NEW t \in Tab, TypeInv', TabInv(t)',
           \A s \in Tab \ {t} :
              /\ phase'[s] = phase[s] /\ me'[s] = me[s]
              /\ list'[s] = list[s] /\ net'[s] = net[s]
              /\ ~foreign'[s] => ~foreign[s] /\ jar' = jar
    PROVE  SessionInv'
BY Untouched DEF SessionInv

\* The handlers answer about the user of the cookie, or of a verified token.
LEMMA ServeStep == ASSUME SessionInv, NEW t \in Tab, Serve(t) PROVE SessionInv'
<1> USE DEF SessionInv
<1>0. net[t] \in Messages
  BY DEF TypeInv
<1>1. CASE GetUserMe(t)
  <2> DEFINE m == IF HasSession(Cookie(t, "login"))
                  THEN Answer(200, Cookie(t, "login"), Keep) ELSE Answer(401, NoUser, Keep)
  <2>1. m \in Message /\ m.state = "answered" /\ m.body \in Known
    BY <1>0 DEF HasSession, Answer, Message, Known, TypeInv
  <2>2. Answers(t, "login", m)
    BY <1>1 DEF GetUserMe
  <2> HIDE DEF m
  <2>3. /\ net' \in [Tab -> Messages]
        /\ net'[t] = [net[t] EXCEPT !.login = m]
        /\ \A s \in Tab \ {t} : net'[s] = net[s]
    BY <2>1, <2>2, AnswersFacts
  <2>4. TypeInv'
    BY <1>1, <2>2, <2>3 DEF GetUserMe, Answers, TypeInv, tabVars
  <2>5. TabInv(t)'
    BY <1>1, <1>0, <2>1, <2>2, <2>3
    DEF m, GetUserMe, Answers, Answer, Cookie, tabVars, Messages, NoRequest,
        TabInv, PhaseInv, AnswerInv, OwnInv, About
  <2> QED
    BY <2>2, <2>3, <2>4, <2>5, OneTab DEF Answers, tabVars
<1>2. CASE PostSignout(t)
  <2> DEFINE m == IF HasSession(Cookie(t, "signout"))
                  THEN Answer(200, NoUser, NoUser) ELSE Answer(401, NoUser, Keep)
  <2>1. m \in Message /\ m.state = "answered" /\ m.body \in Known
    BY <1>0 DEF HasSession, Answer, Message, Known, TypeInv
  <2>2. Answers(t, "signout", m)
    BY <1>2 DEF PostSignout
  <2> HIDE DEF m
  <2>3. /\ net' \in [Tab -> Messages]
        /\ net'[t] = [net[t] EXCEPT !.signout = m]
        /\ \A s \in Tab \ {t} : net'[s] = net[s]
    BY <2>1, <2>2, AnswersFacts
  <2>4. TypeInv'
    BY <1>2, <2>2, <2>3 DEF PostSignout, Answers, TypeInv, tabVars
  <2>5. TabInv(t)'
    BY <1>2, <1>0, <2>1, <2>2, <2>3
    DEF m, PostSignout, Answers, Answer, Cookie, tabVars, Messages, NoRequest,
        TabInv, PhaseInv, AnswerInv, OwnInv, About
  <2> QED
    BY <2>2, <2>3, <2>4, <2>5, OneTab DEF Answers, tabVars
<1>3. CASE GetIsus(t)
  <2> DEFINE m == IF HasSession(Cookie(t, "isus"))
                  THEN Answer(200, Cookie(t, "isus"), Keep) ELSE Answer(401, NoUser, Keep)
  <2>1. m \in Message /\ m.state = "answered" /\ m.body \in Known
    BY <1>0 DEF HasSession, Answer, Message, Known, TypeInv
  <2>2. Answers(t, "isus", m)
    BY <1>3 DEF GetIsus
  <2> HIDE DEF m
  <2>3. /\ net' \in [Tab -> Messages]
        /\ net'[t] = [net[t] EXCEPT !.isus = m]
        /\ \A s \in Tab \ {t} : net'[s] = net[s]
    BY <2>1, <2>2, AnswersFacts
  <2>4. TypeInv'
    BY <1>3, <2>2, <2>3 DEF GetIsus, Answers, TypeInv, tabVars
  <2>5. TabInv(t)'
    BY <1>3, <1>0, <2>1, <2>2, <2>3
    DEF m, GetIsus, Answers, Answer, Cookie, tabVars, Messages, NoRequest,
        TabInv, PhaseInv, AnswerInv, OwnInv, About
  <2> QED
    BY <2>2, <2>3, <2>4, <2>5, OneTab DEF Answers, tabVars
<1>4. CASE PostAuth(t)
  <2> DEFINE token == net[t].login.body
             m == IF token.valid THEN Answer(200, NoUser, token.user) ELSE Answer(403, NoUser, Keep)
  <2>1. token \in Token /\ (token.valid => token.user \in Verified)
    BY <1>4 DEF PostAuth, TabInv, PhaseInv, Verified
  <2>2. m \in Message /\ m.state = "answered" /\ m.body \in Known
    BY <2>1 DEF Answer, Message, Known
  <2>3. Answers(t, "login", m) /\ phase[t] = "auth"
    BY <1>4 DEF PostAuth
  <2>4. m.status # 200 => m.cookie = Keep
    BY DEF Answer
  <2> HIDE DEF m
  <2>5. /\ net' \in [Tab -> Messages]
        /\ net'[t] = [net[t] EXCEPT !.login = m]
        /\ \A s \in Tab \ {t} : net'[s] = net[s]
    BY <2>2, <2>3, AnswersFacts
  <2>6. users' \subseteq Verified
    BY <1>4, <2>1 DEF PostAuth, TypeInv
  <2>7. TypeInv'
    BY <2>3, <2>5, <2>6 DEF Answers, TypeInv, tabVars
  <2>8. TabInv(t)'
    BY <1>0, <2>2, <2>3, <2>4, <2>5
    DEF Answers, tabVars, Messages, NoRequest, TabInv, PhaseInv, AnswerInv, OwnInv, About
  <2> QED
    BY <2>3, <2>5, <2>7, <2>8, OneTab DEF Answers, tabVars
<1> QED
  BY <1>1, <1>2, <1>3, <1>4 DEF Serve

\* The requests a tab sends carry the cookie; a tab without any has none to take.
LEMMA Requests ==
    ASSUME TypeInv
    PROVE  /\ NoRequest \in Message /\ NoRequest.state = "none"
           /\ Sent(jar) \in Message /\ Sent(jar).state = "sent" /\ Sent(jar).cookie = jar
           /\ Idle \in Messages /\ [Idle EXCEPT !.login = Sent(jar)] \in Messages
<1>1. NoRequest \in Message /\ NoRequest.state = "none"
    BY DEF NoRequest, Message, Known
<1>2. Sent(jar) \in Message /\ Sent(jar).state = "sent" /\ Sent(jar).cookie = jar
    BY <1>1 DEF Sent, TypeInv, Message
<1> QED
    BY <1>1, <1>2 DEF Idle, Messages

\* A page is loaded.
LEMMA LoadStep ==
    ASSUME SessionInv, NEW t \in Tab, NEW token \in Token \cup {NoToken},
           NEW isHome \in BOOLEAN, Load(t, token, isHome)
    PROVE  SessionInv'
<1>1. TypeInv'
    BY Requests DEF SessionInv, TypeInv, Load, Known
<1>2. TabInv(t)'
    BY Requests DEF SessionInv, TypeInv, Load, Idle, TabInv, PhaseInv, AnswerInv, OwnInv, About
<1> QED
    BY <1>1, <1>2, OneTab DEF SessionInv, TypeInv, Load

\* What the user does with a tab.
LEMMA VisitorStep == ASSUME SessionInv, NEW t \in Tab, Visitor(t) PROVE SessionInv'
<1> USE DEF SessionInv
<1>1. CASE \E token \in Token \cup {NoToken} : Open(t, token)
  BY <1>1, LoadStep DEF Open
<1>2. CASE Reload(t)
  BY <1>2, LoadStep DEF Reload, TypeInv
<1>3. CASE \E token \in Token : ClickAuth(t, token)
  BY <1>3, LoadStep DEF ClickAuth
<1>4. CASE PressLogout(t)
  <2>1. /\ net' \in [Tab -> Messages]
        /\ net'[t].login = net[t].login
        /\ net'[t].signout = Sent(jar)
        /\ net'[t].isus = IF home[t] THEN net[t].isus ELSE Sent(jar)
        /\ \A s \in Tab \ {t} : net'[s] = net[s]
    BY <1>4, Requests DEF PressLogout, TypeInv, Messages
  <2>2. TypeInv'
    BY <1>4, <2>1 DEF PressLogout, TypeInv
  <2>3. TabInv(t)'
    BY <1>4, <2>1, Requests
    DEF PressLogout, TypeInv, TabInv, PhaseInv, AnswerInv, OwnInv, About
  <2> QED
    BY <1>4, <2>1, <2>2, <2>3, OneTab DEF PressLogout
<1>5. CASE Navigate(t)
  <2>1. /\ net' \in [Tab -> Messages]
        /\ net'[t].login = net[t].login
        /\ net'[t].signout = net[t].signout
        /\ net'[t].isus = IF home[t] THEN NoRequest ELSE Sent(jar)
        /\ \A s \in Tab \ {t} : net'[s] = net[s]
    BY <1>5, Requests DEF Navigate, TypeInv, Messages
  <2>2. TypeInv'
    BY <1>5, <2>1 DEF Navigate, TypeInv, Known
  <2>3. TabInv(t)'
    BY <1>5, <2>1, Requests
    DEF Navigate, TypeInv, TabInv, PhaseInv, AnswerInv, OwnInv, About
  <2> QED
    BY <1>5, <2>1, <2>2, <2>3, OneTab DEF Navigate, TypeInv
<1> QED
  BY <1>1, <1>2, <1>3, <1>4, <1>5 DEF Visitor

\* An answer without Set-Cookie is nothing to any tab.
LEMMA KeepsCookie ==
    ASSUME TypeInv, NEW t \in Tab, NEW kind, Takes(t, kind), net[t][kind].cookie = Keep,
           Foreign(t, FALSE)
    PROVE  jar' = jar /\ foreign' = foreign
<1>1. jar' = jar
    BY DEF Takes
<1>2. \A s \in Tab : foreign'[s] = foreign[s]
    BY <1>1 DEF TypeInv, Foreign
<1> QED
    BY <1>1, <1>2 DEF TypeInv, Foreign

\* Sending a request makes the tab one whose view is of the cookie again.
LEMMA AsksAgain ==
    ASSUME TypeInv, NEW t \in Tab, Foreign(t, TRUE)
    PROVE  /\ foreign' \in [Tab -> BOOLEAN]
           /\ \A s \in Tab \ {t} : ~foreign'[s] => ~foreign[s] /\ jar' = jar
<1> DEFINE F(s) == IF s = t THEN foreign[s] /\ ~TRUE ELSE foreign[s] \/ jar' # jar
<1>1. foreign' = [s \in Tab |-> F(s)]
    BY DEF Foreign
<1>2. \A s \in Tab : F(s) \in BOOLEAN
    BY Zenon
<1>3. \A s \in Tab \ {t} : ~F(s) => ~foreign[s] /\ jar' = jar
    OBVIOUS
<1> HIDE DEF F
<1> QED
    BY <1>1, <1>2, <1>3

\* The three ends of login, while the cookie stays.
LEMMA SettleStep ==
    ASSUME SessionInv, NEW t \in Tab, phase[t] \in {"check", "auth", "confirm"},
           UNCHANGED <<users, jar, foreign>>,
           \/ SettleLoggedOut(t)
           \/ SendToken(t)
           \/ \E user \in Known : SettleAs(t, user) /\ (~foreign[t] => user = jar)
    PROVE  SessionInv'
<1> USE DEF SessionInv
<1>0. \A s \in Tab \ {t} : ~foreign'[s] => ~foreign[s] /\ jar' = jar
    OBVIOUS
<1>1. CASE SettleLoggedOut(t)
  <2>1. /\ net' \in [Tab -> Messages]
        /\ net'[t] = [net[t] EXCEPT !.login = NoRequest]
        /\ \A s \in Tab \ {t} : net'[s] = net[s]
    BY <1>1, Requests DEF SettleLoggedOut, TypeInv, Messages
  <2>2. TypeInv'
    BY <1>1, <2>1 DEF SettleLoggedOut, TypeInv, Known
  <2>3. TabInv(t)'
    BY <1>1, <2>1, Requests
    DEF SettleLoggedOut, TypeInv, Messages, TabInv, PhaseInv, AnswerInv, OwnInv, About
  <2> QED
    BY <1>0, <1>1, <2>1, <2>2, <2>3, OneTab DEF SettleLoggedOut, TypeInv
<1>2. CASE SendToken(t) /\ ~SettleLoggedOut(t)
  <2> DEFINE m == [Sent(jar) EXCEPT !.body = address[t]]
  <2>0. address[t] \in Token
    BY <1>2 DEF SendToken, TypeInv
  <2>1. m \in Message /\ m.state = "sent" /\ m.body = address[t]
    BY <2>0, Requests DEF Message
  <2>2. net' = [net EXCEPT ![t].login = m]
    BY <1>2 DEF SendToken
  <2> HIDE DEF m
  <2>3. /\ net' \in [Tab -> Messages]
        /\ net'[t] = [net[t] EXCEPT !.login = m]
        /\ \A s \in Tab \ {t} : net'[s] = net[s]
    BY <2>1, <2>2 DEF TypeInv, Messages
  <2>4. TypeInv'
    BY <1>2, <2>3 DEF SendToken, TypeInv, Known
  <2>5. TabInv(t)'
    BY <1>2, <2>0, <2>1, <2>3
    DEF SendToken, TypeInv, Messages, TabInv, PhaseInv, AnswerInv, OwnInv, About
  <2> QED
    BY <1>0, <1>2, <2>3, <2>4, <2>5, OneTab DEF SendToken, TypeInv
<1>3. ASSUME NEW user \in Known, SettleAs(t, user), ~foreign[t] => user = jar
      PROVE  SessionInv'
  <2>1. /\ net' \in [Tab -> Messages]
        /\ net'[t].login = NoRequest
        /\ net'[t].signout = net[t].signout
        /\ net'[t].isus = IF home[t] THEN Sent(jar) ELSE NoRequest
        /\ \A s \in Tab \ {t} : net'[s] = net[s]
    BY <1>3, Requests DEF SettleAs, TypeInv, Messages
  <2>2. TypeInv'
    BY <1>3, <2>1 DEF SettleAs, TypeInv, Known
  <2>3. TabInv(t)'
    BY <1>3, <2>1, Requests
    DEF SettleAs, TypeInv, TabInv, PhaseInv, AnswerInv, OwnInv, About
  <2> QED
    BY <1>0, <1>3, <2>1, <2>2, <2>3, OneTab DEF SettleAs, TypeInv
<1> QED
  BY <1>1, <1>2, <1>3

\* An answer is taken.
LEMMA ReceiveStep == ASSUME SessionInv, NEW t \in Tab, Receive(t) PROVE SessionInv'
<1> USE DEF SessionInv
<1>0. net[t] \in Messages
  BY DEF TypeInv
<1>1. CASE Checked(t)
  <2>1. phase[t] = "check" /\ net[t].login.state = "answered" /\ net[t].login.cookie = Keep
    BY <1>1 DEF Checked, Takes, TabInv, AnswerInv
  <2>2. jar' = jar /\ foreign' = foreign
    BY <1>1, <2>1, KeepsCookie DEF Checked
  <2>3. net[t].login.status = 200 => (~foreign[t] => net[t].login.body = jar)
    BY <2>1 DEF TabInv, OwnInv, About
  <2>4. net[t].login.body \in Known
    BY <2>1 DEF TabInv, AnswerInv
  <2> QED
    BY <1>1, <2>1, <2>2, <2>3, <2>4, SettleStep DEF Checked
<1>2. CASE Authenticated(t) /\ net[t].login.status # 200
  <2>1. phase[t] = "auth" /\ net[t].login.cookie = Keep
    BY <1>2 DEF Authenticated, Takes, TabInv, AnswerInv
  <2>2. jar' = jar /\ foreign' = foreign
    BY <1>2, <2>1, KeepsCookie DEF Authenticated
  <2> QED
    BY <1>2, <2>1, <2>2, SettleStep DEF Authenticated
<1>3. CASE Authenticated(t) /\ net[t].login.status = 200
  <2>1. jar' \in Known
    BY <1>0, <1>3 DEF Authenticated, Takes, TypeInv, Messages, Message
  <2>2. Sent(jar') \in Message /\ Sent(jar').state = "sent" /\ Sent(jar').cookie = jar'
    BY <2>1, Requests DEF Sent, Message
  <2>3. /\ net' \in [Tab -> Messages]
        /\ net'[t] = [net[t] EXCEPT !.login = Sent(jar')]
        /\ \A s \in Tab \ {t} : net'[s] = net[s]
    BY <1>3, <2>2 DEF Authenticated, TypeInv, Messages
  <2>4. foreign' \in [Tab -> BOOLEAN] /\ \A s \in Tab \ {t} : ~foreign'[s] => ~foreign[s] /\ jar' = jar
    BY <1>3, AsksAgain DEF Authenticated
  <2>5. TypeInv'
    BY <1>3, <2>1, <2>3, <2>4 DEF Authenticated, TypeInv, Known
  <2>6. TabInv(t)'
    BY <1>0, <1>3, <2>2, <2>3, Requests
    DEF Authenticated, TypeInv, Messages, TabInv, PhaseInv, AnswerInv, OwnInv, About
  <2> QED
    BY <1>3, <2>3, <2>4, <2>5, <2>6, OneTab DEF Authenticated, TypeInv
<1>4. CASE Confirmed(t)
  <2>1. phase[t] = "confirm" /\ net[t].login.state = "answered" /\ net[t].login.cookie = Keep
    BY <1>4 DEF Confirmed, Takes, TabInv, AnswerInv
  <2>2. jar' = jar /\ foreign' = foreign
    BY <1>4, <2>1, KeepsCookie DEF Confirmed
  <2>3. net[t].login.status = 200 => (~foreign[t] => net[t].login.body = jar)
    BY <2>1 DEF TabInv, OwnInv, About
  <2>4. net[t].login.body \in Known
    BY <2>1 DEF TabInv, AnswerInv
  <2> QED
    BY <1>4, <2>1, <2>2, <2>3, <2>4, SettleStep DEF Confirmed
<1>5. CASE LoggedOut(t) /\ net[t].signout.status = 200
  <2>1. jar' \in Known
    BY <1>0, <1>5 DEF LoggedOut, Takes, TypeInv, Messages, Message
  <2>2. Sent(jar') \in Message /\ Sent(jar').state = "sent" /\ Sent(jar').cookie = jar'
    BY <2>1, Requests DEF Sent, Message
  <2>3. /\ [Idle EXCEPT !.login = Sent(jar')] \in Messages
        /\ Idle.signout = NoRequest /\ Idle.isus = NoRequest
    BY <2>2, Requests DEF Idle, Messages
  <2>4. /\ net' \in [Tab -> Messages]
        /\ net'[t].login = Sent(jar')
        /\ net'[t].signout = NoRequest /\ net'[t].isus = NoRequest
        /\ \A s \in Tab \ {t} : net'[s] = net[s]
    BY <1>5, <2>3, Requests DEF LoggedOut, TypeInv, Messages
  <2>5. foreign' \in [Tab -> BOOLEAN] /\ \A s \in Tab \ {t} : ~foreign'[s] => ~foreign[s] /\ jar' = jar
    BY <1>5, AsksAgain DEF LoggedOut
  <2>6. TypeInv'
    <3>1. /\ me' = [me EXCEPT ![t] = NoUser] /\ list' = [list EXCEPT ![t] = NoUser]
          /\ phase' = [phase EXCEPT ![t] = "check"] /\ home' = [home EXCEPT ![t] = TRUE]
          /\ UNCHANGED <<users, address>>
      BY <1>5 DEF LoggedOut
    <3> QED
      BY <2>1, <2>4, <2>5, <3>1 DEF TypeInv, Known
  <2>7. TabInv(t)'
    BY <1>5, <2>2, <2>4, Requests
    DEF LoggedOut, TypeInv, TabInv, PhaseInv, AnswerInv, OwnInv, About
  <2> QED
    BY <1>5, <2>4, <2>5, <2>6, <2>7, OneTab DEF LoggedOut, TypeInv
<1>6. CASE LoggedOut(t) /\ net[t].signout.status # 200
  <2>1. net[t].signout.cookie = Keep
    BY <1>6 DEF LoggedOut, Takes, TabInv, AnswerInv
  <2>2. jar' = jar /\ foreign' = foreign
    BY <1>6, <2>1, KeepsCookie DEF LoggedOut
  <2>3. /\ net' \in [Tab -> Messages]
        /\ net'[t] = [net[t] EXCEPT !.signout = NoRequest]
        /\ \A s \in Tab \ {t} : net'[s] = net[s]
    BY <1>6, Requests DEF LoggedOut, TypeInv, Messages
  <2>4. TypeInv'
    BY <1>6, <2>2, <2>3 DEF LoggedOut, TypeInv, tabVars
  <2>5. TabInv(t)'
    BY <1>0, <1>6, <2>2, <2>3, Requests
    DEF LoggedOut, tabVars, Messages, TabInv, PhaseInv, AnswerInv, OwnInv, About
  <2> QED
    BY <1>6, <2>2, <2>3, <2>4, <2>5, OneTab DEF LoggedOut, tabVars
<1>7. CASE Listed(t)
  <2>1. net[t].isus.state = "answered" /\ net[t].isus.cookie = Keep /\ net[t].isus.body \in Known
    BY <1>7 DEF Listed, Takes, TabInv, AnswerInv
  <2>2. jar' = jar /\ foreign' = foreign
    BY <1>7, <2>1 DEF Listed, Takes
  <2>3. /\ net' \in [Tab -> Messages]
        /\ net'[t] = [net[t] EXCEPT !.isus = NoRequest]
        /\ \A s \in Tab \ {t} : net'[s] = net[s]
    BY <1>7, Requests DEF Listed, TypeInv, Messages
  <2>4. TypeInv'
    BY <1>7, <2>1, <2>2, <2>3 DEF Listed, TypeInv
  <2>5. TabInv(t)'
    BY <1>0, <1>7, <2>1, <2>2, <2>3, Requests
    DEF Listed, TypeInv, Messages, TabInv, PhaseInv, AnswerInv, OwnInv, About
  <2> QED
    BY <1>7, <2>2, <2>3, <2>4, <2>5, OneTab DEF Listed, TypeInv
<1> QED
  BY <1>1, <1>2, <1>3, <1>4, <1>5, <1>6, <1>7 DEF Receive

\* An answer is lost.
LEMMA LossStep ==
    ASSUME SessionInv, NEW t \in Tab, NEW kind \in {"login", "signout", "isus"},
           AnswerLost(t, kind)
    PROVE  SessionInv'
<1> USE DEF SessionInv
<1>0. UNCHANGED <<users, jar, foreign>>
  BY DEF AnswerLost
<1>1. CASE kind # "login"
  <2>1. /\ net' \in [Tab -> Messages]
        /\ net'[t].login = net[t].login
        /\ net'[t].signout \in {NoRequest, net[t].signout}
        /\ net'[t].isus \in {NoRequest, net[t].isus}
        /\ \A s \in Tab \ {t} : net'[s] = net[s]
    <3>1. CASE kind = "signout"
      BY <1>1, <3>1, Requests DEF AnswerLost, TypeInv, Messages
    <3>2. CASE kind = "isus"
      BY <1>1, <3>2, Requests DEF AnswerLost, TypeInv, Messages
    <3> QED
      BY <1>1, <3>1, <3>2
  <2>2. TypeInv'
    BY <1>0, <1>1, <2>1 DEF AnswerLost, TypeInv, tabVars
  <2>3. TabInv(t)'
    BY <1>0, <1>1, <2>1, Requests
    DEF AnswerLost, tabVars, TabInv, PhaseInv, AnswerInv, OwnInv, About
  <2> QED
    BY <1>0, <1>1, <2>1, <2>2, <2>3, OneTab DEF AnswerLost, tabVars
<1>2. CASE kind = "login" /\ phase[t] = "check"
  BY <1>0, <1>2, SettleStep DEF AnswerLost
<1>3. CASE kind = "login" /\ phase[t] # "check"
  <2>1. phase[t] # "settled"
    BY <1>3 DEF AnswerLost, TabInv, PhaseInv
  <2>2. /\ net' \in [Tab -> Messages]
        /\ net'[t] = [net[t] EXCEPT !.login = NoRequest]
        /\ \A s \in Tab \ {t} : net'[s] = net[s]
    BY <1>3, Requests DEF AnswerLost, TypeInv, Messages
  <2>3. TypeInv'
    BY <1>0, <1>3, <2>2 DEF AnswerLost, TypeInv
  <2>4. TabInv(t)'
    BY <1>0, <1>3, <2>1, <2>2, Requests
    DEF AnswerLost, TypeInv, Messages, TabInv, PhaseInv, AnswerInv, OwnInv, About
  <2> QED
    BY <1>0, <1>3, <2>2, <2>3, <2>4, OneTab DEF AnswerLost, TypeInv
<1> QED
  BY <1>1, <1>2, <1>3

\* POST /initialize touches no tab.
LEMMA InitializeStep == ASSUME SessionInv, Initialize PROVE SessionInv'
<1>1. TypeInv'
  BY DEF SessionInv, TypeInv, Initialize, tabVars
<1> QED
  BY <1>1, Untouched DEF SessionInv, Initialize, tabVars

\* The invariant is inductive.
LEMMA InvStep == SessionInv /\ [Next]_vars => SessionInv'
<1> SUFFICES ASSUME SessionInv, [Next]_vars PROVE SessionInv'
  OBVIOUS
<1>1. CASE Next
  BY <1>1, ServeStep, ReceiveStep, VisitorStep, LossStep, InitializeStep DEF Next
<1>2. CASE UNCHANGED vars
  <2>1. TypeInv'
    BY <1>2 DEF vars, tabVars, SessionInv, TypeInv
  <2> QED
    BY <1>2, <2>1, Untouched DEF vars, tabVars, SessionInv
<1> QED
  BY <1>1, <1>2

----------------------------------------------------------------------------
(* The theorems. *)

\* The invariant holds in every state of every run, however many tabs, users
\* and tokens there are and however often pages are loaded, answers lost and
\* tables emptied.
THEOREM SessionInvHolds == Spec => []SessionInv
BY InvInit, InvStep, PTL DEF Spec

\* Nobody is a user, in the table, by the cookie or in any tab, whose token
\* POST /api/auth (app.ts:273) has not verified.
THEOREM SessionsAreVerifiedHolds == Spec => []SessionsAreVerified
<1>1. SessionInv => SessionsAreVerified
  BY DEF SessionInv, TypeInv, SessionsAreVerified, Verified, Known
<1> QED
  BY <1>1, SessionInvHolds, PTL

\* A settled tab shows the user the cookie names and that user's list, unless
\* another tab has changed the cookie since it asked (login.ts:26).
THEOREM TabShowsItsSessionHolds == Spec => []TabShowsItsSession
<1>1. SessionInv => TabShowsItsSession
  BY DEF SessionInv, TabInv, OwnInv, TabShowsItsSession
<1> QED
  BY <1>1, SessionInvHolds, PTL
=============================================================================
