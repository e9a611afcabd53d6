------------------------- MODULE TunnelProxyProofs -------------------------
(****************************************************************************)
(* Proofs about the proxy, the process of the tunnel server, the agent's    *)
(* API and the injection of scripts, without bounds.                        *)
(*                                                                          *)
(* Private tunnels are served to those they are for, for any tunnels,       *)
(* owners, tabs and headers: a request stays with the entry it has found,   *)
(* and entries are never reused, so what the target serves in the end is    *)
(* what was authorized; whatever lets a user in, a cookie or a header, is   *)
(* traced to entitled.                                                      *)
(****************************************************************************)
EXTENDS TunnelProxy, ServerProcess, AgentApi, Injection, FiniteSetTheorems,
        SequenceTheorems, WellFoundedInduction, TLAPS

\* The entry is the one opened at its target.
IsAt(e, ops) == e.target \in DOMAIN ops /\ ops[e.target] = e

\* Sessions of admins and tokens are of entitled users.
CookiesOK(c, ent) ==
  /\ \A o \in Owner : c.session[o] = "admin" => o \in ent
  /\ c.token # None => c.token.profiles \subseteq ent

\* The request may get to the tunnel.
Due(r, e, ent) ==
  (e.access = "private" /\ r.method # "OPTIONS") =>
    OwnerOf[e.key] \in ent \/ Vouches(r.header, OwnerOf[e.key])

HeaderOK(r, ent) == \A o \in Owner : r.browser /\ Vouches(r.header, o) => o \in ent

Sender(s, ent) ==
  /\ s.req \in Request /\ s.cookies \in Jar
  /\ CookiesOK(s.cookies, ent) /\ HeaderOK(s.req, ent)

Found(s, ops) == s.entry \in Entry /\ s.entry.key = s.req.key /\ IsAt(s.entry, ops)

TabOK(s, ops, ent) ==
  /\ s \in TabState
  /\ s.at # "idle" => Sender(s, ent)
  /\ s.at \in {"auth", "proxy"} => Found(s, ops)
  /\ s.at = "proxy" => Due(s.req, s.entry, ent)
  /\ s.at = "done" /\ s.answer = 200 => Due(s.req, s.entry, ent)

ServersOK ==
  /\ tunnels \in [Key -> Entry \cup {None}]
  /\ opened \in Seq(Entry) /\ live \subseteq DOMAIN opened
  /\ \A k \in Key : tunnels[k] # None =>
       tunnels[k] \in Entry /\ tunnels[k].key = k /\ IsAt(tunnels[k], opened)

UsersOK == entitled \subseteq Owner /\ member \subseteq entitled

JarOK == jar \in Jar /\ CookiesOK(jar, entitled)

TabsOK ==
  /\ tabs \in [Tab -> TabState]
  /\ \A t \in Tab : TabOK(tabs[t], opened, entitled)

CountersOK == visits \in 0 .. MaxVisits /\ changes \in 0 .. MaxChanges

IInv == ServersOK /\ UsersOK /\ JarOK /\ TabsOK /\ CountersOK

-----------------------------------------------------------------------------
(* Lemmas about tabs *)

\* Entries and entitlements only grow, and a tab stays all right with more.
LEMMA TabGrows ==
  ASSUME NEW s, NEW ops, NEW ent, NEW ops2, NEW ent2,
         TabOK(s, ops, ent), ent \subseteq ent2,
         DOMAIN ops \subseteq DOMAIN ops2, \A i \in DOMAIN ops : ops2[i] = ops[i]
  PROVE  TabOK(s, ops2, ent2)
<1>1. CookiesOK(s.cookies, ent) => CookiesOK(s.cookies, ent2)
  BY DEF CookiesOK
<1>2. HeaderOK(s.req, ent) => HeaderOK(s.req, ent2)
  BY DEF HeaderOK
<1>3. Due(s.req, s.entry, ent) => Due(s.req, s.entry, ent2)
  BY DEF Due
<1>4. Found(s, ops) => Found(s, ops2)
  BY DEF Found, IsAt
<1>. QED BY <1>1, <1>2, <1>3, <1>4 DEF TabOK, Sender

\* A request that is sent is all right when its sender is.
LEMMA SentOK ==
  ASSUME NEW stage \in {"find", "login", "saas"}, NEW r \in Request, NEW c \in Jar,
         NEW ops, NEW ent, CookiesOK(c, ent), HeaderOK(r, ent)
  PROVE  TabOK(Sent(stage, r, c), ops, ent)
BY DEF TabOK, Sent, TabState, Stage, Sender

\* An answer other than 200 claims nothing.
LEMMA AnsweredOK ==
  ASSUME NEW s, NEW ops, NEW ent, TabOK(s, ops, ent), s.at # "idle",
         NEW n \in Nat, n # 200
  PROVE  TabOK([s EXCEPT !.at = "done", !.answer = n], ops, ent)
<1>1. [s EXCEPT !.at = "done", !.answer = n] \in TabState
  BY DEF TabOK, TabState, Stage
<1>. QED BY <1>1 DEF TabOK, TabState, Sender

\* A suspended handler keeps the entry it has found.
LEMMA AwaitOK ==
  ASSUME NEW s, NEW ops, NEW ent, TabOK(s, ops, ent), s.at # "idle",
         NEW stage \in {"auth", "proxy", "loginAuth"}, NEW e \in Entry,
         e.key = s.req.key, IsAt(e, ops),
         stage = "proxy" => Due(s.req, e, ent)
  PROVE  TabOK([s EXCEPT !.at = stage, !.entry = e], ops, ent)
<1>1. [s EXCEPT !.at = stage, !.entry = e] \in TabState
  BY DEF TabOK, TabState, Stage
<1>. QED BY <1>1 DEF TabOK, TabState, Sender, Found

\* A step on one tab that leaves it and the cookies all right.
LEMMA TabStep ==
  ASSUME IInv, NEW t \in Tab, UNCHANGED <<servers, users, visits, changes>>,
         NEW s, TabOK(s, opened, entitled), tabs' = [tabs EXCEPT ![t] = s],
         JarOK'
  PROVE  IInv'
<1>1. TabsOK'
  <2>1. s \in TabState
    BY DEF TabOK
  <2>2. tabs' \in [Tab -> TabState]
    BY <2>1 DEF IInv, TabsOK
  <2>3. ASSUME NEW u \in Tab PROVE TabOK(tabs'[u], opened, entitled)
    BY DEF IInv, TabsOK
  <2>. QED BY <2>2, <2>3 DEF TabsOK, servers, users
<1>2. ServersOK' /\ UsersOK' /\ CountersOK'
  BY DEF IInv, ServersOK, UsersOK, CountersOK, servers, users
<1>. QED BY <1>1, <1>2 DEF IInv

-----------------------------------------------------------------------------
(* Lemmas about authentication *)

\* Whoever authenticates as an admin has a valid token of the owner in the
\* header, or is entitled by the token of the SaaS.
LEMMA AdminEntitled ==
  ASSUME NEW o \in Owner, NEW header, NEW token, NEW browser, NEW ent,
         token # None => token.profiles \subseteq ent,
         Authenticate(o, header, token, browser).is = "authenticated",
         Authenticate(o, header, token, browser).role = "admin"
  PROVE  o \in ent \/ Vouches(header, o)
<1>1. CASE header # None
  BY <1>1 DEF Authenticate, Vouches, Anonymous, AuthError
<1>2. CASE header = None /\ token # None /\ Saas
  BY <1>2 DEF Authenticate, ClaimsOf, Anonymous, AuthError
<1>3. CASE header = None /\ ~(token # None /\ Saas)
  BY <1>3 DEF Authenticate, Anonymous
<1>. QED BY <1>1, <1>2, <1>3

\* Only browsers are sent to log in.
LEMMA LoginBrowser ==
  ASSUME NEW o, NEW header, NEW token, NEW browser \in BOOLEAN,
         Authenticate(o, header, token, browser).login
  PROVE  browser
BY DEF Authenticate, Anonymous, AuthError

LEMMA RoleType ==
  ASSUME NEW o, NEW header, NEW token, NEW browser
  PROVE  /\ Authenticate(o, header, token, browser).role \in Role
         /\ Authenticate(o, header, token, browser).is \in {"authenticated", "anonymous", "error"}
BY DEF Authenticate, ClaimsOf, Anonymous, AuthError, Role

\* A session that is saved for an admin is of an entitled user.
LEMMA SavedOK ==
  ASSUME JarOK, NEW t \in Tab, OwnerAt(t) \in Owner, NEW role \in Role,
         role = "admin" => OwnerAt(t) \in entitled
  PROVE  Saved(t, role) \in Jar /\ CookiesOK(Saved(t, role), entitled)
<1>. DEFINE o == OwnerAt(t)
<1>1. Saved(t, role) = [jar EXCEPT !.session = [jar.session EXCEPT ![o] = role]]
  BY DEF Saved, JarOK, Jar
<1>2. [jar.session EXCEPT ![o] = role] \in [Owner -> Role \cup {None}]
  BY DEF JarOK, Jar
<1>3. Saved(t, role) \in Jar
  BY <1>1, <1>2 DEF JarOK, Jar
<1>4. Saved(t, role).token = jar.token /\ Saved(t, role).session = [jar.session EXCEPT ![o] = role]
  BY <1>1, <1>2 DEF JarOK, Jar
<1>. QED BY <1>2, <1>3, <1>4 DEF CookiesOK, JarOK, Jar

-----------------------------------------------------------------------------
(* The invariant holds initially and is preserved by each action *)

LEMMA InitInv == Init => IInv
<1>. SUFFICES ASSUME Init PROVE IInv
  OBVIOUS
<1>. USE ProxyAssumption
<1>1. ServersOK
  BY DEF Init, ServersOK
<1>2. UsersOK /\ CountersOK
  BY DEF Init, UsersOK, CountersOK
<1>3. JarOK
  BY DEF Init, JarOK, Jar, NoCookies, CookiesOK
<1>4. Idle \in TabState /\ Idle.at = "idle"
  BY DEF Idle, TabState, Stage
<1>5. TabsOK
  BY <1>4 DEF Init, TabsOK, TabOK
<1>. QED BY <1>1, <1>2, <1>3, <1>5 DEF IInv

\* What the actions on a tab know of it.
LEMMA TabFacts ==
  ASSUME IInv, NEW t \in Tab, tabs[t].at # "idle"
  PROVE  /\ TabOK(tabs[t], opened, entitled)
         /\ tabs[t].req \in Request /\ tabs[t].cookies \in Jar
         /\ CookiesOK(tabs[t].cookies, entitled) /\ HeaderOK(tabs[t].req, entitled)
         /\ OwnerAt(t) \in Owner /\ tabs[t].req.key \in Key
         /\ User(t) \in Role \cup {None}
<1>1. TabOK(tabs[t], opened, entitled) /\ Sender(tabs[t], entitled)
  BY DEF IInv, TabsOK, TabOK
<1>2. tabs[t].req \in Request /\ tabs[t].cookies \in Jar
  BY <1>1 DEF Sender
<1>3. OwnerAt(t) \in Owner /\ tabs[t].req.key \in Key
  BY <1>2, ProxyAssumption DEF Request, OwnerAt
<1>. QED BY <1>1, <1>2, <1>3 DEF Sender, User, Jar

\* The frame of the server's steps.
LEMMA AnswerInv ==
  ASSUME IInv, NEW t \in Tab, tabs[t].at # "idle", UNCHANGED <<servers, users, visits, changes>>,
         NEW n \in Nat, n # 200, Answer(t, n)
  PROVE  IInv'
<1>1. TabOK([tabs[t] EXCEPT !.at = "done", !.answer = n], opened, entitled)
  BY TabFacts, AnsweredOK
<1>2. tabs' = [tabs EXCEPT ![t] = [tabs[t] EXCEPT !.at = "done", !.answer = n]]
  BY DEF Answer
<1>3. JarOK'
  BY DEF IInv, JarOK, Answer, users
<1>. QED BY <1>1, <1>2, <1>3, TabStep

LEMMA AwaitInv ==
  ASSUME IInv, NEW t \in Tab, tabs[t].at # "idle", UNCHANGED <<servers, users, visits, changes>>,
         NEW stage \in {"auth", "proxy", "loginAuth"}, NEW e \in Entry, Await(t, stage, e),
         e.key = tabs[t].req.key, IsAt(e, opened),
         stage = "proxy" => Due(tabs[t].req, e, entitled)
  PROVE  IInv'
<1>1. TabOK([tabs[t] EXCEPT !.at = stage, !.entry = e], opened, entitled)
  BY TabFacts, AwaitOK
<1>2. tabs' = [tabs EXCEPT ![t] = [tabs[t] EXCEPT !.at = stage, !.entry = e]]
  BY DEF Await
<1>3. JarOK'
  BY DEF IInv, JarOK, Await, users
<1>. QED BY <1>1, <1>2, <1>3, TabStep

LEMMA SendInv ==
  ASSUME IInv, NEW t \in Tab, UNCHANGED <<servers, users, visits, changes>>,
         NEW stage \in {"find", "login", "saas"}, NEW r \in Request, NEW c \in Jar,
         CookiesOK(c, entitled), HeaderOK(r, entitled), Send(t, stage, r, c)
  PROVE  IInv'
<1>1. TabOK(Sent(stage, r, c), opened, entitled)
  BY SentOK
<1>2. JarOK'
  BY DEF JarOK, Send, users
<1>. QED BY <1>1, <1>2, TabStep DEF Send

LEMMA RedirectInv ==
  ASSUME IInv, NEW t \in Tab, tabs[t].at # "idle", UNCHANGED <<servers, users, visits, changes>>,
         NEW c \in Jar, CookiesOK(c, entitled), RedirectToLogin(t, c)
  PROVE  IInv'
<1>. DEFINE r == tabs[t].req
            s == [r EXCEPT !.hint = FALSE]
<1>1. CASE r.browser /\ ~r.upgrade
  <2>1. s \in Request /\ HeaderOK(s, entitled)
    <3>1. s \in Request
      BY TabFacts DEF Request
    <3>2. s.header = r.header /\ s.browser = r.browser
      BY TabFacts DEF Request
    <3>. QED BY <3>1, <3>2, TabFacts DEF HeaderOK
  <2>2. Send(t, "login", s, c)
    BY <1>1 DEF RedirectToLogin
  <2>. HIDE DEF s
  <2>. QED BY <2>1, <2>2, SendInv
<1>2. CASE ~(r.browser /\ ~r.upgrade)
  BY <1>2, AnswerInv DEF RedirectToLogin
<1>. QED BY <1>1, <1>2

LEMMA AdmitInv ==
  ASSUME IInv, NEW t \in Tab, tabs[t].at # "idle", UNCHANGED <<servers, users, visits, changes>>,
         NEW role \in Role, NEW e \in Entry, Admit(t, role, e),
         e.key = tabs[t].req.key, IsAt(e, opened),
         role = "admin" => OwnerAt(t) \in entitled \/ Vouches(tabs[t].req.header, OwnerAt(t))
  PROVE  IInv'
<1>1. CASE role = "admin"
  <2>1. Due(tabs[t].req, e, entitled)
    BY <1>1 DEF Due, OwnerAt
  <2>. QED BY <1>1, <2>1, AwaitInv DEF Admit
<1>2. CASE role # "admin"
  BY <1>2, AnswerInv DEF Admit
<1>. QED BY <1>1, <1>2

LEMMA FindInv ==
  ASSUME IInv, NEW t \in Tab, FindTunnel(t)
  PROVE  IInv'
<1>. DEFINE r == tabs[t].req
            e == tunnels[r.key]
<1>1. tabs[t].at # "idle" /\ UNCHANGED <<servers, users, visits, changes>>
  BY DEF FindTunnel, Handles
<1>2. CASE e = None
  BY <1>1, <1>2, AnswerInv DEF FindTunnel
<1>3. CASE e # None
  <2>1. e \in Entry /\ e.key = r.key /\ IsAt(e, opened)
    BY <1>1, <1>3, TabFacts DEF IInv, ServersOK
  <2>2. CASE e.access = "public" \/ r.method = "OPTIONS"
    <3>1. Due(r, e, entitled)
      BY <2>2 DEF Due
    <3>2. Await(t, "proxy", e)
      BY <1>3, <2>2 DEF FindTunnel
    <3>. QED BY <1>1, <2>1, <3>1, <3>2, AwaitInv
  <2>3. CASE ~(e.access = "public" \/ r.method = "OPTIONS") /\ User(t) = None
    <3>1. Await(t, "auth", e)
      BY <1>3, <2>3 DEF FindTunnel
    <3>. QED BY <1>1, <2>1, <3>1, AwaitInv
  <2>4. CASE ~(e.access = "public" \/ r.method = "OPTIONS") /\ User(t) # None
    <3>1. Admit(t, User(t), e)
      BY <1>3, <2>4 DEF FindTunnel
    <3>2. User(t) \in Role
      BY <1>1, <2>4, TabFacts
    <3>3. User(t) = "admin" => OwnerAt(t) \in entitled
      BY <1>1, TabFacts DEF User, CookiesOK
    <3>. QED BY <1>1, <2>1, <3>1, <3>2, <3>3, AdmitInv
  <2>. QED BY <2>2, <2>3, <2>4
<1>. QED BY <1>2, <1>3

LEMMA AuthenticateInv ==
  ASSUME IInv, NEW t \in Tab, AuthenticateRequest(t)
  PROVE  IInv'
<1>. DEFINE r == tabs[t].req
            o == OwnerAt(t)
            v == Authenticate(o, r.header, tabs[t].cookies.token, r.browser)
<1>1. tabs[t].at = "auth" /\ UNCHANGED <<servers, users, visits, changes>>
  BY DEF AuthenticateRequest, Handles
<1>2. tabs[t].entry \in Entry /\ tabs[t].entry.key = r.key /\ IsAt(tabs[t].entry, opened)
  BY <1>1, TabFacts DEF TabOK, Found
<1>3. o \in Owner /\ r.browser \in BOOLEAN /\ jar \in Jar /\ CookiesOK(jar, entitled)
  BY <1>1, TabFacts DEF Request, IInv, JarOK
<1>4. v.role \in Role /\ v.is \in {"authenticated", "anonymous", "error"}
  BY RoleType
<1>5. CASE v.is = "error"
  BY <1>1, <1>5, AnswerInv DEF AuthenticateRequest
<1>6. CASE v.is = "anonymous" /\ r.hint
  BY <1>1, <1>6, AnswerInv DEF AuthenticateRequest
<1>7. CASE v.is = "anonymous" /\ ~r.hint
  <2>1. RedirectToLogin(t, jar)
    BY <1>7 DEF AuthenticateRequest
  <2>. QED BY <1>1, <1>3, <2>1, RedirectInv
<1>8. CASE v.is = "authenticated"
  <2>1. v.role = "admin" => o \in entitled \/ Vouches(r.header, o)
    <3>1. tabs[t].cookies.token # None => tabs[t].cookies.token.profiles \subseteq entitled
      BY <1>1, TabFacts DEF CookiesOK
    <3>. QED BY <1>3, <1>8, <3>1, AdminEntitled
  <2>2. CASE v.login /\ r.method = "GET" /\ ~r.upgrade
    <3>1. RedirectToLogin(t, Saved(t, v.role))
      BY <1>8, <2>2 DEF AuthenticateRequest
    <3>2. r.browser
      BY <1>3, <2>2, LoginBrowser
    <3>3. v.role = "admin" => o \in entitled
      BY <1>1, <1>3, <2>1, <3>2, TabFacts DEF HeaderOK
    <3>4. Saved(t, v.role) \in Jar /\ CookiesOK(Saved(t, v.role), entitled)
      <4>. HIDE DEF v
      <4>. QED BY <1>3, <1>4, <3>3, SavedOK DEF IInv
    <3>. QED BY <1>1, <3>1, <3>4, RedirectInv
  <2>3. CASE ~(v.login /\ r.method = "GET" /\ ~r.upgrade)
    <3>1. Admit(t, v.role, tabs[t].entry)
      BY <1>8, <2>3 DEF AuthenticateRequest
    <3>. HIDE DEF v
    <3>. QED BY <1>1, <1>2, <1>4, <2>1, <3>1, AdmitInv
  <2>. QED BY <2>2, <2>3
<1>. QED BY <1>4, <1>5, <1>6, <1>7, <1>8

LEMMA ProxyInv ==
  ASSUME IInv, NEW t \in Tab, ProxyRequest(t)
  PROVE  IInv'
<1>. DEFINE e == tabs[t].entry
            s == [at |-> "done", req |-> tabs[t].req, cookies |-> tabs[t].cookies,
                  entry |-> e, answer |-> 200]
<1>1. tabs[t].at = "proxy" /\ UNCHANGED <<servers, users, visits, changes>>
  BY DEF ProxyRequest, Handles
<1>2. TabOK(tabs[t], opened, entitled) /\ e \in Entry /\ IsAt(e, opened) /\ Due(tabs[t].req, e, entitled)
  BY <1>1, TabFacts DEF TabOK, Found
<1>3. CASE Reached(t) \in live
  <2>1. opened[Reached(t)] = e
    BY <1>2 DEF Reached, IsAt
  <2>2. tabs' = [tabs EXCEPT ![t] = s]
    <3>1. tabs \in [Tab -> TabState] /\ tabs[t] \in TabState
      BY DEF IInv, TabsOK
    <3>. QED BY <1>3, <2>1, <3>1 DEF ProxyRequest, TabState
  <2>3. TabOK(s, opened, entitled)
    <3>1. s \in TabState
      <4>1. tabs[t].req \in Request \cup {None} /\ tabs[t].cookies \in Jar \cup {None}
        BY <1>2 DEF TabOK, TabState
      <4>. HIDE DEF e
      <4>. QED BY <1>2, <4>1 DEF TabState, Stage
    <3>2. s.at = "done" /\ s.req = tabs[t].req /\ s.entry = e /\ s.cookies = tabs[t].cookies
      OBVIOUS
    <3>. HIDE DEF s
    <3>. QED BY <1>1, <1>2, <3>1, <3>2 DEF TabOK, Sender
  <2>4. JarOK'
    BY <1>1, <1>3 DEF ProxyRequest, IInv, JarOK, users
  <2>. HIDE DEF s
  <2>. QED BY <1>1, <2>2, <2>3, <2>4, TabStep
<1>4. CASE Reached(t) \notin live
  BY <1>1, <1>4, AnswerInv DEF ProxyRequest
<1>. QED BY <1>3, <1>4

LEMMA LoginFindInv ==
  ASSUME IInv, NEW t \in Tab, LoginFind(t)
  PROVE  IInv'
<1>. DEFINE e == tunnels[tabs[t].req.key]
<1>1. tabs[t].at = "login" /\ UNCHANGED <<servers, users, visits, changes>>
  BY DEF LoginFind, Handles
<1>2. CASE tabs[t].req.method # "GET" \/ e = None
  BY <1>1, <1>2, AnswerInv DEF LoginFind
<1>3. CASE ~(tabs[t].req.method # "GET" \/ e = None) /\ User(t) = None
  <2>1. e \in Entry /\ e.key = tabs[t].req.key /\ IsAt(e, opened)
    BY <1>1, <1>3, TabFacts DEF IInv, ServersOK
  <2>2. Await(t, "loginAuth", e)
    BY <1>3 DEF LoginFind
  <2>. QED BY <1>1, <2>1, <2>2, AwaitInv
<1>4. CASE ~(tabs[t].req.method # "GET" \/ e = None) /\ User(t) # None
  <2>1. Send(t, "find", tabs[t].req, jar)
    BY <1>4 DEF LoginFind, RedirectToEnv
  <2>. QED BY <1>1, <2>1, TabFacts, SendInv DEF IInv, JarOK
<1>. QED BY <1>2, <1>3, <1>4

LEMMA LoginAuthInv ==
  ASSUME IInv, NEW t \in Tab, LoginAuth(t)
  PROVE  IInv'
<1>. DEFINE o == OwnerAt(t)
            v == Authenticate(o, None, tabs[t].cookies.token, TRUE)
<1>1. tabs[t].at = "loginAuth" /\ UNCHANGED <<servers, users, visits, changes>>
  BY DEF LoginAuth, Handles
<1>2. v.role \in Role /\ v.is \in {"authenticated", "anonymous", "error"}
  BY RoleType
<1>3. JarOK /\ o \in Owner /\ tabs[t].req \in Request /\ HeaderOK(tabs[t].req, entitled)
  BY <1>1, TabFacts DEF IInv
<1>4. CASE v.is = "error"
  <2>1. Answer(t, 500)
    BY <1>4 DEF LoginAuth
  <2>. QED BY <1>1, <2>1, AnswerInv
<1>5. CASE v.is = "anonymous" /\ Saas
  <2>1. Send(t, "saas", tabs[t].req, jar)
    BY <1>5 DEF LoginAuth
  <2>. QED BY <1>1, <1>3, <2>1, SendInv DEF JarOK
<1>6. CASE v.is = "anonymous" /\ ~Saas
  <2>1. Answer(t, 401)
    BY <1>6 DEF LoginAuth
  <2>. QED BY <1>1, <2>1, AnswerInv
<1>7. CASE v.is = "authenticated"
  <2>1. Send(t, "find", tabs[t].req, Saved(t, v.role))
    BY <1>7 DEF LoginAuth, RedirectToEnv
  <2>2. v.role = "admin" => o \in entitled
    <3>1. tabs[t].cookies.token # None => tabs[t].cookies.token.profiles \subseteq entitled
      BY <1>1, TabFacts DEF CookiesOK
    <3>2. ~Vouches(None, o)
      BY DEF Vouches
    <3>. QED BY <1>3, <1>7, <3>1, <3>2, AdminEntitled
  <2>. HIDE DEF v
  <2>3. Saved(t, v.role) \in Jar /\ CookiesOK(Saved(t, v.role), entitled)
    BY <1>2, <1>3, <2>2, SavedOK
  <2>. QED BY <1>1, <1>3, <2>1, <2>3, SendInv
<1>. QED BY <1>2, <1>4, <1>5, <1>6, <1>7

LEMMA SaasInv ==
  ASSUME IInv, NEW t \in Tab, SaasLogin(t)
  PROVE  IInv'
<1>. DEFINE c == [jar EXCEPT !.token = [profiles |-> member, valid |-> TRUE]]
<1>1. tabs[t].at = "saas" /\ UNCHANGED <<servers, users, visits, changes>>
  BY DEF SaasLogin, Handles
<1>2. Send(t, "login", tabs[t].req, c)
  BY DEF SaasLogin
<1>3. c \in Jar /\ CookiesOK(c, entitled)
  BY DEF IInv, JarOK, UsersOK, Jar, Token, CookiesOK
<1>4. tabs[t].req \in Request /\ HeaderOK(tabs[t].req, entitled)
  BY <1>1, TabFacts
<1>. HIDE DEF c
<1>. QED BY <1>1, <1>2, <1>3, <1>4, SendInv

LEMMA VisitInv ==
  ASSUME IInv, NEW t \in Tab, NEW r \in Request, Visit(t, r)
  PROVE  IInv'
<1>. DEFINE c == IF r.browser THEN jar ELSE NoCookies
<1>1. c \in Jar /\ CookiesOK(c, entitled) /\ CookiesOK(c, entitled') /\ CookiesOK(jar, entitled')
  <2>1. NoCookies \in Jar /\ CookiesOK(NoCookies, entitled) /\ entitled \subseteq entitled'
    BY ProxyAssumption DEF NoCookies, Jar, CookiesOK, Visit
  <2>. QED BY <2>1 DEF IInv, JarOK, CookiesOK
<1>2. HeaderOK(r, entitled')
  BY DEF HeaderOK, Visit
<1>3. TabOK(Sent("find", r, c), opened, entitled')
  BY <1>1, <1>2, SentOK
<1>4. tabs' = [tabs EXCEPT ![t] = Sent("find", r, c)] /\ UNCHANGED <<servers, jar, member, changes>>
  BY DEF Visit
<1>. HIDE DEF c
<1>5. TabsOK'
  <2>1. tabs' \in [Tab -> TabState]
    BY <1>3, <1>4 DEF IInv, TabsOK, TabOK
  <2>2. ASSUME NEW u \in Tab PROVE TabOK(tabs'[u], opened, entitled')
    <3>1. TabOK(tabs[u], opened, entitled')
      BY TabGrows DEF IInv, TabsOK, Visit
    <3>. QED BY <1>3, <1>4, <3>1 DEF IInv, TabsOK
  <2>. QED BY <1>4, <2>1, <2>2 DEF TabsOK, servers
<1>6. ServersOK' /\ JarOK'
  BY <1>1, <1>4 DEF IInv, ServersOK, JarOK, servers
<1>7. UsersOK'
  BY <1>4 DEF IInv, UsersOK, Visit
<1>8. CountersOK'
  BY ProxyAssumption DEF IInv, CountersOK, Visit
<1>. QED BY <1>5, <1>6, <1>7, <1>8 DEF IInv

LEMMA OpenInv ==
  ASSUME IInv, NEW k \in Key, NEW access \in {"public", "private"}, Open(k, access)
  PROVE  IInv'
<1>. DEFINE n == Len(opened) + 1
            e == [key |-> k, access |-> access, target |-> n]
<1>1. opened \in Seq(Entry) /\ n \in Target /\ e \in Entry
  BY DEF IInv, ServersOK, Open, Entry
<1>2. /\ tunnels' = [tunnels EXCEPT ![k] = e]
      /\ opened' = Append(opened, e) /\ live' = live \cup {n}
      /\ UNCHANGED <<jar, member, entitled, tabs, visits>>
  BY DEF Open, Change, users
<1>. HIDE DEF e
<1>3. /\ opened' \in Seq(Entry) /\ n \in DOMAIN opened' /\ opened'[n] = e
      /\ DOMAIN opened \subseteq DOMAIN opened'
      /\ \A i \in DOMAIN opened : opened'[i] = opened[i]
  BY <1>1, <1>2
<1>4. IsAt(e, opened') /\ e.key = k
  BY <1>3 DEF IsAt, e
<1>5. ServersOK'
  <2>1. tunnels' \in [Key -> Entry \cup {None}] /\ live' \subseteq DOMAIN opened'
    BY <1>1, <1>2, <1>3 DEF IInv, ServersOK
  <2>2. ASSUME NEW j \in Key, tunnels'[j] # None
        PROVE  tunnels'[j] \in Entry /\ tunnels'[j].key = j /\ IsAt(tunnels'[j], opened')
    <3>1. CASE j = k
      BY <1>1, <1>2, <1>4, <3>1 DEF IInv, ServersOK
    <3>2. CASE j # k
      <4>1. tunnels'[j] = tunnels[j]
        BY <1>2, <3>2 DEF IInv, ServersOK
      <4>. QED BY <1>3, <2>2, <4>1 DEF IInv, ServersOK, IsAt
    <3>. QED BY <3>1, <3>2
  <2>. QED BY <1>3, <2>1, <2>2 DEF ServersOK
<1>6. TabsOK'
  <2>1. ASSUME NEW t \in Tab PROVE TabOK(tabs[t], opened', entitled)
    BY <1>3, TabGrows DEF IInv, TabsOK
  <2>. QED BY <1>2, <2>1 DEF IInv, TabsOK
<1>7. UsersOK' /\ JarOK'
  BY <1>2 DEF IInv, UsersOK, JarOK
<1>8. CountersOK'
  BY ProxyAssumption, <1>2 DEF IInv, CountersOK, Open, Change
<1>. QED BY <1>5, <1>6, <1>7, <1>8 DEF IInv

LEMMA CloseInv ==
  ASSUME IInv, NEW k \in Key, Close(k)
  PROVE  IInv'
<1>1. /\ tunnels' = [tunnels EXCEPT ![k] = None] \/ tunnels' = tunnels
      /\ live' \subseteq live
      /\ UNCHANGED <<opened, jar, member, entitled, tabs, visits>>
  BY DEF Close, Change, users
<1>2. ServersOK'
  BY <1>1 DEF IInv, ServersOK
<1>3. TabsOK' /\ UsersOK' /\ JarOK'
  BY <1>1 DEF IInv, TabsOK, UsersOK, JarOK
<1>4. CountersOK'
  BY ProxyAssumption, <1>1 DEF IInv, CountersOK, Close, Change
<1>. QED BY <1>2, <1>3, <1>4 DEF IInv

LEMMA MembershipInv ==
  ASSUME IInv, NEW m \in SUBSET Owner, Membership(m)
  PROVE  IInv'
<1>1. /\ UNCHANGED <<tunnels, opened, live, jar, tabs, visits>>
      /\ member' = m /\ entitled' = entitled \cup m
  BY DEF Membership, Change, servers
<1>2. ServersOK' /\ UsersOK'
  BY <1>1 DEF IInv, ServersOK, UsersOK
<1>3. JarOK'
  BY <1>1 DEF IInv, JarOK, CookiesOK
<1>4. TabsOK'
  <2>1. ASSUME NEW t \in Tab PROVE TabOK(tabs[t], opened, entitled')
    BY <1>1, TabGrows DEF IInv, TabsOK
  <2>. QED BY <1>1, <2>1 DEF IInv, TabsOK
<1>5. CountersOK'
  BY ProxyAssumption, <1>1 DEF IInv, CountersOK, Membership, Change
<1>. QED BY <1>2, <1>3, <1>4, <1>5 DEF IInv

\* Cookies that are lost, or a token that no longer verifies.
LEMMA CookiesInv ==
  ASSUME IInv, TokenExpires \/ BrowserRestarts
  PROVE  IInv'
<1>1. UNCHANGED <<tunnels, opened, live, tabs, member, entitled, visits>>
  BY DEF TokenExpires, BrowserRestarts, Change, servers, users
<1>2. JarOK'
  <2>1. CASE TokenExpires
    <3>1. PICK cookie \in {None, [jar.token EXCEPT !.valid = FALSE]} :
            jar' = [jar EXCEPT !.token = cookie]
      BY <2>1 DEF TokenExpires
    <3>2. jar.token \in Token /\ jar.token.profiles \subseteq entitled /\ jar \in Jar
      BY <2>1 DEF TokenExpires, IInv, JarOK, Jar, CookiesOK
    <3>3. [jar.token EXCEPT !.valid = FALSE] \in Token
          /\ [jar.token EXCEPT !.valid = FALSE].profiles = jar.token.profiles
      BY <3>2 DEF Token
    <3>4. cookie \in Token \cup {None} /\ (cookie # None => cookie.profiles \subseteq entitled)
      BY <3>2, <3>3
    <3>5. jar' \in Jar /\ jar'.session = jar.session /\ jar'.token = cookie
      BY <3>1, <3>2, <3>4 DEF Jar
    <3>. QED BY <1>1, <3>4, <3>5 DEF IInv, JarOK, CookiesOK
  <2>2. CASE BrowserRestarts
    <3>1. /\ jar' \in Jar /\ jar'.token = jar.token
          /\ \A o \in Owner : jar'.session[o] = None
      BY <2>2 DEF BrowserRestarts, IInv, JarOK, Jar, NoCookies
    <3>. QED BY <1>1, <3>1, ProxyAssumption DEF IInv, JarOK, CookiesOK
  <2>. QED BY <2>1, <2>2
<1>3. ServersOK' /\ UsersOK' /\ TabsOK'
  BY <1>1 DEF IInv, ServersOK, UsersOK, TabsOK
<1>4. CountersOK'
  BY ProxyAssumption, <1>1 DEF IInv, CountersOK, TokenExpires, BrowserRestarts, Change
<1>. QED BY <1>2, <1>3, <1>4 DEF IInv

LEMMA StepInv == IInv /\ [Next]_vars => IInv'
<1>. SUFFICES ASSUME IInv, [Next]_vars PROVE IInv'
  OBVIOUS
<1>1. ASSUME NEW t \in Tab, Handle(t) PROVE IInv'
  BY <1>1, FindInv, AuthenticateInv, ProxyInv, LoginFindInv, LoginAuthInv, SaasInv DEF Handle
<1>2. ASSUME NEW t \in Tab, NEW r \in Request, Visit(t, r) PROVE IInv'
  BY <1>2, VisitInv
<1>3. ASSUME NEW k \in Key, Close(k) PROVE IInv'
  BY <1>3, CloseInv
<1>4. ASSUME NEW k \in Key, NEW access \in {"public", "private"}, Open(k, access) PROVE IInv'
  BY <1>4, OpenInv
<1>5. ASSUME NEW m \in SUBSET Owner, Membership(m) PROVE IInv'
  BY <1>5, MembershipInv
<1>6. CASE TokenExpires \/ BrowserRestarts
  BY <1>6, CookiesInv
<1>7. CASE UNCHANGED vars
  BY <1>7 DEF vars, servers, users, IInv, ServersOK, UsersOK, JarOK, TabsOK, CountersOK
<1>. QED BY <1>1, <1>2, <1>3, <1>4, <1>5, <1>6, <1>7 DEF Next

LEMMA Invariant == Spec => []IInv
BY InitInv, StepInv, PTL DEF Spec

-----------------------------------------------------------------------------
(* Results *)

\* The variables of the proxy, the login page and the browser keep their types.
THEOREM TypeCorrect == Spec => []TypeOK
<1>1. IInv => TypeOK
  <2>. SUFFICES ASSUME IInv PROVE TypeOK
    OBVIOUS
  <2>1. \A t \in Tab : tabs[t].at # "idle" => tabs[t].req \in Request /\ tabs[t].cookies \in Jar
    BY DEF IInv, TabsOK, TabOK, Sender
  <2>. QED BY <2>1 DEF TypeOK, IInv, ServersOK, UsersOK, JarOK, TabsOK, CountersOK
<1>. QED BY <1>1, Invariant, PTL

\* proxy/index.ts serves a private tunnel to members of its profile and to
\* holders of a token of its owner, however long the request was suspended
\* and whatever took the tunnel's place meanwhile.
THEOREM ServedCorrect == Spec => []ServedProperly
<1>1. IInv => ServedProperly
  <2>. SUFFICES ASSUME IInv, NEW t \in Tab,
                       tabs[t].at = "done", tabs[t].answer = 200,
                       tabs[t].entry.access = "private", tabs[t].req.method # "OPTIONS"
                PROVE  OwnerOf[tabs[t].entry.key] \in entitled
                       \/ Vouches(tabs[t].req.header, OwnerOf[tabs[t].entry.key])
    BY DEF ServedProperly
  <2>. QED BY DEF IInv, TabsOK, TabOK, Due
<1>. QED BY <1>1, Invariant, PTL

ProcessSpec == ProcessInit /\ [][ProcessNext]_processVars

ApiSpec == ApiInit /\ [][ApiNext]_apiVars

-----------------------------------------------------------------------------
(* The process of the tunnel server *)

Place == {"none", "app", "ssh", "tls", "metrics"}

Connection == [port : Place, handler : Place, active : BOOLEAN]

\* Where an open connection came in is one of the servers that are closed in the
\* end; what was handled came as a signal; and a process that has ended with
\* connections had a reason.
ProcessInv ==
  /\ tls \in BOOLEAN /\ next \in 0 .. 5 /\ signals \in Nat
  /\ listening \subseteq allServers
  /\ conns \in [Conn -> Connection]
  /\ \A c \in Conn : conns[c].port = "none" \/ conns[c].port \in allServers
  /\ handled \subseteq Signals /\ IsFiniteSet(handled)
  /\ Cardinality(handled) \in Nat /\ Cardinality(handled) <= signals
  /\ CutExplained

LEMMA ServersAre ==
  ASSUME tls \in BOOLEAN
  PROVE  /\ Len(Servers) \in {3, 4}
         /\ \A i \in 1 .. Len(Servers) : Servers[i] \in allServers
         /\ "none" \notin allServers
<1>1. CASE tls
  <2>1. Servers = <<"app", "ssh", "tls", "metrics">>
    BY <1>1 DEF Servers
  <2> QED
    BY <2>1 DEF allServers
<1>2. CASE ~tls
  <2>1. Servers = <<"app", "ssh", "metrics">>
    BY <1>2 DEF Servers
  <2> QED
    BY <2>1 DEF allServers
<1> QED
  BY <1>1, <1>2

LEMMA NoConnType == NoConn \in Connection /\ NoConn.port = "none"
<1>1. "none" \in Place
  BY DEF Place
<1>2. FALSE \in BOOLEAN
  BY Zenon
<1> QED
  BY <1>1, <1>2 DEF NoConn, Connection

LEMMA ProcessInitHasInv == ProcessInit => ProcessInv
<1> SUFFICES ASSUME ProcessInit PROVE ProcessInv
  OBVIOUS
<1>1. IsFiniteSet({}) /\ Cardinality({}) = 0
  BY FS_EmptySet
<1>2. conns \in [Conn -> Connection]
  BY NoConnType DEF ProcessInit
<1>3. \A c \in Conn : conns[c].port = "none"
  BY NoConnType DEF ProcessInit
<1>4. CutExplained
  BY DEF ProcessInit, CutExplained
<1>5. tls \in BOOLEAN /\ next = 1 /\ signals = 0 /\ listening = {} /\ handled = {}
  BY DEF ProcessInit
<1> QED
  BY <1>1, <1>2, <1>3, <1>4, <1>5 DEF ProcessInv

\* Connections come and go while the process runs.
LEMMA ConnsKeepInv ==
  ASSUME ProcessInv, process = "runs", process' = process,
         UNCHANGED <<tls, listening, next, handled, signals>>,
         conns' \in [Conn -> Connection],
         \A c \in Conn : conns'[c].port \in {"none", conns[c].port} \cup listening
  PROVE  ProcessInv'
<1>1. allServers' = allServers
  BY DEF allServers, Servers
<1> QED
  BY <1>1 DEF ProcessInv, CutExplained

\* The process ends, with a reason or without connections.
LEMMA EndKeepsInv ==
  ASSUME ProcessInv, UNCHANGED <<tls, listening, next, conns, handled, signals>>,
         OpenConns = {} \/ ~Started \/ signals > 1 \/ process' = "uncaught"
  PROVE  ProcessInv'
<1>1. allServers' = allServers /\ OpenConns' = OpenConns /\ Started' = Started
  BY DEF allServers, Servers, OpenConns, Started
<1> QED
  BY <1>1 DEF ProcessInv, CutExplained

LEMMA SignalKeepsInv ==
  ASSUME ProcessInv, NEW signal \in Signals, Signal(signal)
  PROVE  ProcessInv'
<1> USE DEF ProcessInv
<1>1. allServers' = allServers /\ Started' = Started
  BY DEF Signal, allServers, Servers, Started
<1>2. CASE signal \in handled \/ ~Started
  <2>1. signals' = signals + 1 /\ process' = "killed"
        /\ UNCHANGED <<tls, next, listening, conns, handled>>
    BY <1>2 DEF Signal
  <2>2. signal \in handled => Cardinality(handled) >= 1
    BY FS_EmptySet, FS_CardinalityType
  <2>3. ~Started' \/ signals' > 1
    BY <1>1, <1>2, <2>1, <2>2
  <2> QED
    BY <1>1, <2>1, <2>3 DEF CutExplained
<1>3. CASE signal \notin handled /\ Started
  <2>1. /\ signals' = signals + 1 /\ handled' = handled \cup {signal}
        /\ process' = process /\ process = "runs" /\ UNCHANGED <<tls, next>>
        /\ listening' = listening \ allServers
        /\ conns' = [c \in Conn |-> IF conns[c].active THEN conns[c] ELSE NoConn]
    BY <1>3 DEF Signal, close
  <2>2. IsFiniteSet(handled') /\ Cardinality(handled') = Cardinality(handled) + 1
    BY <1>3, <2>1, FS_AddElement
  <2>3. \A c \in Conn : conns'[c].port \in {"none", conns[c].port}
    BY <2>1, NoConnType
  <2>4. NoConn \in Connection
    BY NoConnType
  <2>5. conns' \in [Conn -> Connection]
    BY <2>1, <2>4
  <2>6. CutExplained'
    BY <2>1 DEF CutExplained
  <2>7. handled' \subseteq Signals /\ listening' \subseteq allServers'
    BY <1>1, <2>1
  <2>8. Cardinality(handled') \in Nat /\ Cardinality(handled') <= signals' /\ signals' \in Nat
    BY <2>1, <2>2
  <2> QED
    BY <1>1, <2>1, <2>2, <2>3, <2>5, <2>6, <2>7, <2>8
<1> QED
  BY <1>2, <1>3

LEMMA ProcessStepKeepsInv == ProcessInv /\ [ProcessNext]_processVars => ProcessInv'
<1> SUFFICES ASSUME ProcessInv, [ProcessNext]_processVars PROVE ProcessInv'
  OBVIOUS
<1>0. tls \in BOOLEAN
  BY DEF ProcessInv
<1>1. CASE listen
  <2>1. next \in 1 .. Len(Servers)
    BY <1>0, <1>1, ServersAre DEF listen, Started, ProcessInv
  <2>2. Servers[next] \in allServers /\ next + 1 \in 0 .. 5
    BY <1>0, <2>1, ServersAre
  <2>3. allServers' = allServers
    BY <1>1 DEF listen, allServers, Servers
  <2> QED
    BY <1>1, <2>2, <2>3 DEF listen, ProcessInv, CutExplained
<1>2. CASE listenFails
  <2>1. CASE Servers[next] \in {"app", "metrics"}
    BY <1>2, <2>1, EndKeepsInv DEF listenFails
  <2>2. CASE Servers[next] \notin {"app", "metrics"}
    <3>1. next' = 0 /\ UNCHANGED <<process, tls, listening, conns, handled, signals>> /\ process = "runs"
      BY <1>2, <2>2 DEF listenFails
    <3>2. allServers' = allServers
      BY <3>1 DEF allServers, Servers
    <3> QED
      BY <3>1, <3>2 DEF ProcessInv, CutExplained
  <2> QED
    BY <2>1, <2>2
<1>3. CASE Exit
  <2>1. \A c \in Conn : conns[c].port \notin allServers
    BY <1>0, <1>3, ServersAre DEF Exit, Closed, OpenConns
  <2>2. OpenConns = {}
    BY <2>1 DEF OpenConns, ProcessInv
  <2> QED
    BY <1>3, <2>2, EndKeepsInv DEF Exit
<1>4. CASE ExitFails
  <2>0. Cardinality(handled) > 1
    BY <1>4 DEF ExitFails
  <2>1. signals > 1
    BY <2>0 DEF ProcessInv
  <2> QED
    BY <1>4, <2>1, EndKeepsInv DEF ExitFails
<1>5. ASSUME NEW signal \in Signals, Signal(signal) PROVE ProcessInv'
  BY <1>5, SignalKeepsInv
<1>6. ASSUME NEW c \in Conn, NEW port \in Place, NEW handler \in Place, Connects(c, port, handler)
      PROVE  ProcessInv'
  <2>1. [port |-> port, handler |-> handler, active |-> TRUE] \in Connection
    BY DEF Connection
  <2> QED
    BY <1>6, <2>1, ConnsKeepInv DEF Connects, ProcessInv
<1>7. ASSUME NEW c \in Conn, Answered(c) \/ Requests(c) PROVE ProcessInv'
  <2>1. PICK b \in BOOLEAN : conns' = [conns EXCEPT ![c].active = b]
    BY <1>7 DEF Answered, Requests
  <2>2. /\ process = "runs" /\ process' = process
        /\ UNCHANGED <<tls, listening, next, handled, signals>>
    BY <1>7 DEF Answered, Requests
  <2>3. \A d \in Conn : conns'[d].port = conns[d].port
    BY <2>1 DEF ProcessInv, Connection
  <2> QED
    BY <2>1, <2>2, <2>3, ConnsKeepInv DEF ProcessInv, Connection
<1>8. ASSUME NEW c \in Conn, Leaves(c) PROVE ProcessInv'
  <2>1. /\ process = "runs" /\ process' = process /\ conns' = [conns EXCEPT ![c] = NoConn]
        /\ UNCHANGED <<tls, listening, next, handled, signals>>
    BY <1>8 DEF Leaves
  <2> QED
    BY <2>1, NoConnType, ConnsKeepInv DEF ProcessInv
<1>9. ASSUME NEW c \in Conn, UpgradeFails(c) \/ AnswerFails(c) PROVE ProcessInv'
  BY <1>9, EndKeepsInv DEF UpgradeFails, AnswerFails, Uncaught
<1>10. CASE UNCHANGED processVars
  BY <1>10 DEF processVars, ProcessInv, CutExplained, OpenConns, Started, allServers, Servers
<1>11. ASSUME NEW c \in Conn, ConnectsTls(c) PROVE ProcessInv'
  <2>1. PICK servername \in {"base", "other"}, alpn \in {"ssh", "http"} :
          Connects(c, "tls", secureConnection(servername, alpn))
    BY <1>11 DEF ConnectsTls
  <2>2. Connects(c, "tls", "ssh") \/ Connects(c, "tls", "app")
    BY <2>1 DEF secureConnection
  <2>3. "tls" \in Place /\ "ssh" \in Place /\ "app" \in Place
    BY DEF Place
  <2> QED
    BY <1>6, <2>2, <2>3
<1>12. ASSUME NEW c \in Conn, NEW s \in {"app", "ssh", "metrics"}, Connects(c, s, s)
       PROVE  ProcessInv'
  BY <1>6, <1>12 DEF Place
<1> QED
  BY <1>1, <1>2, <1>3, <1>4, <1>5, <1>7, <1>8, <1>9, <1>10, <1>11, <1>12 DEF ProcessNext

\* The shutdown of the tunnel server waits for every connection, however many
\* there are and wherever they came in (the handlers of the exit signals in
\* tunnel-server/index.ts).  Errors that nobody catches are not its matter.
THEOREM CutCorrect == ProcessSpec => []CutExplained
<1>1. ProcessInv => CutExplained
  BY DEF ProcessInv
<1> QED
  BY <1>1, ProcessInitHasInv, ProcessStepKeepsInv, PTL DEF ProcessSpec

-----------------------------------------------------------------------------
(* The API of the agent *)

Streaming == {"started", "piped"}

Quiet == {"idle", "asked", "checked", "created", "pull", "again"}

\* A call has a stream from the step that makes it on; until then nothing is
\* there that its end could leave.
CallOK(c) ==
  /\ call[c].at \in Streaming \cup Quiet
  /\ call[c].at \in Quiet => stream[c] = NoContainer
  /\ stream[c] # NoContainer => call[c].connected \/ c \in early

CallType == [at : Streaming \cup Quiet,
             kind : {"none", "exec", "logs", "stop", "start", "restart", "status"},
             container : Container \cup {NoContainer}, connected : BOOLEAN]

ApiInv ==
  /\ call \in [Caller -> CallType] /\ stream \in [Caller -> Container \cup {NoContainer}]
  /\ \A c \in Caller : CallOK(c)

LEMMA NoCallType == NoCall \in CallType /\ NoCall.at = "idle" /\ NoCall.at \in Quiet
<1>1. NoCall.at \in Streaming \cup Quiet /\ NoCall.kind = "none" /\ NoCall.container = NoContainer
  BY DEF NoCall, Streaming, Quiet
<1>2. FALSE \in BOOLEAN
  BY Zenon
<1> QED
  BY <1>1, <1>2 DEF NoCall, CallType, Quiet

LEMMA ApiInitHasInv == ApiInit => ApiInv
BY NoCallType DEF ApiInit, ApiInv, CallOK

\* A step on the call of c leaves those of others alone.
LEMMA CallStepKeepsInv ==
  ASSUME ApiInv, NEW c \in Caller, NEW v \in CallType, NEW s \in Container \cup {NoContainer},
         call' = [call EXCEPT ![c] = v], stream' = [stream EXCEPT ![c] = s],
         early \ {c} \subseteq early',
         v.at \in Quiet => s = NoContainer,
         s # NoContainer => v.connected \/ c \in early'
  PROVE  ApiInv'
<1>1. call' \in [Caller -> CallType] /\ stream' \in [Caller -> Container \cup {NoContainer}]
  BY DEF ApiInv
<1>2. v.at \in Streaming \cup Quiet
  BY DEF CallType
<1>3. CallOK(c)'
  BY <1>2 DEF CallOK, ApiInv
<1>4. ASSUME NEW d \in Caller \ {c} PROVE CallOK(d)'
  BY DEF CallOK, ApiInv
<1> QED
  BY <1>1, <1>3, <1>4 DEF ApiInv

\* The call is over, or was refused, with nothing left.
LEMMA OverKeepsInv ==
  ASSUME ApiInv, NEW c \in Caller, call' = [call EXCEPT ![c] = NoCall], UNCHANGED early,
         \/ stream' = [stream EXCEPT ![c] = NoContainer]
         \/ stream[c] = NoContainer /\ UNCHANGED stream
  PROVE  ApiInv'
<1>1. stream' = [stream EXCEPT ![c] = NoContainer]
  BY DEF ApiInv
<1> QED
  BY <1>1, NoCallType, CallStepKeepsInv

\* The call goes on without a new stream.
LEMMA StageKeepsInv ==
  ASSUME ApiInv, NEW c \in Caller, NEW stage \in Streaming \cup Quiet, Comes(c, stage),
         stage \in Quiet => call[c].at \in Quiet, UNCHANGED <<stream, early>>
  PROVE  ApiInv'
<1> DEFINE v == [call[c] EXCEPT !.at = stage]
<1>1. v \in CallType /\ v.at = stage /\ v.connected = call[c].connected
  BY DEF ApiInv, CallType
<1>2. call' = [call EXCEPT ![c] = v] /\ stream' = [stream EXCEPT ![c] = stream[c]]
  BY DEF Comes, ApiInv
<1>3. stage \in Quiet => stream[c] = NoContainer
  BY DEF ApiInv, CallOK
<1>4. stream[c] # NoContainer => v.connected \/ c \in early'
  BY <1>1 DEF ApiInv, CallOK
<1> HIDE DEF v
<1> QED
  BY <1>1, <1>2, <1>3, <1>4, CallStepKeepsInv DEF ApiInv

\* Streams end, whoever has them.
LEMMA StreamsEndKeepsInv ==
  ASSUME ApiInv, UNCHANGED <<call, early>>,
         stream' \in [Caller -> Container \cup {NoContainer}],
         \A c \in Caller : stream'[c] \in {stream[c], NoContainer}
  PROVE  ApiInv'
BY DEF ApiInv, CallOK

LEMMA ListensKeepsInv ==
  ASSUME ApiInv, NEW c \in Caller, NEW stage \in Streaming, Listens(c, stage)
  PROVE  ApiInv'
<1> DEFINE v == [call[c] EXCEPT !.at = stage]
<1>1. v \in CallType /\ v.at = stage /\ v.connected = call[c].connected
  BY DEF ApiInv, CallType
<1>2. call' = [call EXCEPT ![c] = v] /\ stream' = [stream EXCEPT ![c] = call[c].container]
  BY DEF Listens, Comes, ApiInv
<1>3. call[c].container \in Container \cup {NoContainer}
  BY DEF ApiInv, CallType
<1>4. v.connected \/ c \in early'
  BY <1>1 DEF Listens
<1>5. early \subseteq early'
  BY DEF Listens
<1>6. stage \notin Quiet
  BY DEF Streaming, Quiet
<1> HIDE DEF v
<1> QED
  BY <1>1, <1>2, <1>3, <1>4, <1>5, <1>6, CallStepKeepsInv

LEMMA ApiStepKeepsInv == ApiInv /\ [ApiNext]_apiVars => ApiInv'
<1> SUFFICES ASSUME ApiInv, [ApiNext]_apiVars PROVE ApiInv'
  OBVIOUS
<1>a. \A c \in Caller : call[c].at \in Quiet => stream[c] = NoContainer
  BY DEF ApiInv, CallOK
<1>1. ASSUME NEW c \in Caller,
             NEW kind \in {"exec", "logs", "stop", "start", "restart", "status"},
             NEW k \in Container \cup {NoContainer}, Call(c, kind, k)
      PROVE  ApiInv'
  <2> DEFINE v == [at |-> "asked", kind |-> kind, container |-> k, connected |-> TRUE]
  <2>1. v \in CallType /\ v.connected
    BY DEF CallType, Quiet
  <2>2. stream[c] = NoContainer
    BY <1>1, <1>a DEF Call, Calls, Quiet
  <2>3. call' = [call EXCEPT ![c] = v] /\ stream' = [stream EXCEPT ![c] = NoContainer]
        /\ early' = early \ {c}
    BY <1>1, <2>2 DEF Call, ApiInv
  <2> HIDE DEF v
  <2> QED
    BY <2>1, <2>3, CallStepKeepsInv
<1>2. ASSUME NEW c \in Caller, Refused(c), call[c].at \in Quiet PROVE ApiInv'
  BY <1>2, <1>a, OverKeepsInv DEF Refused
<1>3. ASSUME NEW c \in Caller, inspectFilteredContainer(c) PROVE ApiInv'
  <2>1. call[c].at \in Quiet /\ "checked" \in Quiet
    BY <1>3 DEF inspectFilteredContainer, Calls, Quiet
  <2> QED
    BY <1>2, <1>3, <2>1, StageKeepsInv DEF inspectFilteredContainer
<1>4. ASSUME NEW c \in Caller, Act(c) PROVE ApiInv'
  <2>1. stream[c] = NoContainer
    BY <1>4, <1>a DEF Act, Calls, Quiet
  <2>2. /\ call' = [call EXCEPT ![c] = NoCall] /\ UNCHANGED early
        /\ stream' \in [Caller -> Container \cup {NoContainer}]
        /\ \A d \in Caller : stream'[d] \in {stream[d], NoContainer}
    BY <1>4 DEF Act, ApiInv
  <2>3. call' \in [Caller -> CallType] /\ call'[c] = NoCall
        /\ \A d \in Caller \ {c} : call'[d] = call[d]
    BY <2>2, NoCallType DEF ApiInv
  <2>4. \A d \in Caller : CallOK(d)'
    BY <2>1, <2>2, <2>3, NoCallType DEF ApiInv, CallOK
  <2> QED
    BY <2>2, <2>3, <2>4 DEF ApiInv
<1>5. ASSUME NEW c \in Caller, createExec(c) PROVE ApiInv'
  <2>1. call[c].at \in Quiet /\ "created" \in Quiet
    BY <1>5 DEF createExec, Calls, Quiet
  <2> QED
    BY <1>2, <1>5, <2>1, StageKeepsInv DEF createExec
<1>6. ASSUME NEW c \in Caller, startExec(c) PROVE ApiInv'
  <2>1. call[c].at \in Quiet /\ "started" \in Streaming
    BY <1>6 DEF startExec, Calls, Quiet, Streaming
  <2> QED
    BY <1>2, <1>6, <2>1, ListensKeepsInv DEF startExec
<1>7. ASSUME NEW c \in Caller, Piped(c) PROVE ApiInv'
  <2>1. "piped" \in Streaming /\ "piped" \notin Quiet
    BY DEF Streaming, Quiet
  <2> QED
    BY <1>7, <2>1, StageKeepsInv DEF Piped
<1>8. ASSUME NEW c \in Caller, logs(c) PROVE ApiInv'
  <2>1. "piped" \in Streaming
    BY DEF Streaming
  <2> QED
    BY <1>8, <2>1, ListensKeepsInv DEF logs
<1>9. ASSUME NEW c \in Caller, Fails(c) PROVE ApiInv'
  BY <1>9, OverKeepsInv DEF Fails
<1>10. ASSUME NEW c \in Caller, Hangs(c) PROVE ApiInv'
  <2>1. CASE Calls(c, {"started", "piped"})
    BY <1>10, <2>1, OverKeepsInv DEF Hangs
  <2>2. CASE ~Calls(c, {"started", "piped"})
    <3> DEFINE v == [call[c] EXCEPT !.connected = FALSE]
    <3>1. call' = [call EXCEPT ![c] = v] /\ UNCHANGED <<stream, early>>
      BY <1>10, <2>2 DEF Hangs, ApiInv
    <3>2. FALSE \in BOOLEAN
      BY Zenon
    <3>3. v \in CallType /\ v.at = call[c].at
      BY <3>2 DEF ApiInv, CallType
    <3>4. call[c].at \in Quiet
      BY <2>2 DEF Calls, ApiInv, CallOK, Streaming
    <3>5. stream[c] = NoContainer /\ stream' = [stream EXCEPT ![c] = NoContainer]
      BY <1>a, <3>1, <3>4 DEF ApiInv
    <3> HIDE DEF v
    <3> QED
      BY <3>1, <3>3, <3>5, CallStepKeepsInv
  <2> QED
    BY <2>1, <2>2
<1>11. ASSUME NEW c \in Caller, StreamEnds(c) PROVE ApiInv'
  BY <1>11, OverKeepsInv DEF StreamEnds
<1>12. ASSUME NEW c \in Caller, MachineStatus(c) PROVE ApiInv'
  <2>1. call[c].at \in Quiet /\ "pull" \in Quiet
    BY <1>12 DEF MachineStatus, Calls, Quiet
  <2>2. CASE call' = [call EXCEPT ![c] = NoCall]
    BY <1>12, <1>a, <2>1, <2>2, OverKeepsInv DEF MachineStatus
  <2>3. CASE Comes(c, "pull")
    BY <1>12, <2>1, <2>3, StageKeepsInv DEF MachineStatus
  <2> QED
    BY <1>12, <2>2, <2>3 DEF MachineStatus
<1>13. ASSUME NEW c \in Caller, Pull(c) PROVE ApiInv'
  <2>1. call[c].at \in Quiet /\ "again" \in Quiet
    BY <1>13 DEF Pull, Calls, Quiet
  <2> QED
    BY <1>13, <2>1, StageKeepsInv DEF Pull
<1>14. ASSUME NEW k \in Container, ContainerStops(k) PROVE ApiInv'
  BY <1>14, StreamsEndKeepsInv DEF ContainerStops, ApiInv
<1>15. CASE Restart
  <2>1. /\ \A c \in Caller : call'[c] = NoCall /\ stream'[c] = NoContainer
        /\ call' \in [Caller -> CallType] /\ stream' \in [Caller -> Container \cup {NoContainer}]
    BY <1>15, NoCallType DEF Restart
  <2> QED
    BY <2>1, NoCallType DEF ApiInv, CallOK
<1>16. CASE UNCHANGED apiVars
  BY <1>16 DEF apiVars, ApiInv, CallOK
<1> QED
  BY <1>1, <1>3, <1>4, <1>5, <1>6, <1>7, <1>8, <1>9, <1>10, <1>11, <1>12, <1>13, <1>14, <1>15,
     <1>16 DEF ApiNext

\* The agent keeps no stream for a caller that is gone, but for one that left
\* before anybody listened, however many callers and containers there are (the
\* listeners of exec.ts and logs.ts).
THEOREM StreamsCorrect == ApiSpec => []StreamsClosed
<1>1. ApiInv => StreamsClosed
  BY DEF ApiInv, CallOK, StreamsClosed
<1> QED
  BY <1>1, ApiInitHasInv, ApiStepKeepsInv, PTL DEF ApiSpec

-----------------------------------------------------------------------------
(* Injection *)

InjectionSpec == InjectionInit /\ [][InjectionNext]_injectionVars

Content == Piece \cup {"scripts", "head-with-scripts"}

Places(doc) == {i \in DOMAIN doc : doc[i] \in Reported}

\* The piece before a place is of the same tag.
IsPage(doc) == doc \in Seq(Piece) /\ \A i \in Places(doc) : i > 1

\* Before the place, all that has come is held back; after it, what is still to come is missing.
StreamOK(r) ==
  /\ IsPage(r.doc) /\ r.seen \in 0 .. Len(r.doc)
  /\ IF r.injected
     THEN /\ r.held = <<>> /\ r.out \in Seq(Content)
          /\ r.out \o SubSeq(r.doc, r.seen + 1, Len(r.doc)) = Injected(r.doc)
     ELSE /\ r.out = <<>> /\ r.held = SubSeq(r.doc, 1, r.seen)
          /\ \A i \in Places(r.doc) : i > r.seen

ResponseFields == {"at", "script", "asks", "doc", "seen", "held", "injected", "out"}

InjectionInv ==
  /\ DOMAIN cached = {"version", "suffix"}
  /\ DOMAIN resp = ResponseFields /\ DOMAIN resp.asks = {"version", "suffix"}
  /\ At({"asked", "revalidated"}) => resp.asks = cached
  /\ At({"asked"}) => resp.seen = 0 /\ resp.held = <<>> /\ resp.out = <<>> /\ ~resp.injected
  /\ At({"streams"}) => StreamOK(resp)
  /\ At({"passes"}) => resp.asks.suffix = NoScript
  /\ InjectedAlike /\ CachedFresh

\* A nonempty set of numbers has a least one.
LEMMA LeastPlace ==
  ASSUME NEW S, S \subseteq Nat, S # {}
  PROVE  Min(S) \in S /\ \A k \in S : Min(S) <= k
<1>1. PICK R : R = OpToRel(<, Nat)
  OBVIOUS
<1>2. IsWellFoundedOn(R, Nat)
  BY <1>1, NatLessThanWellFounded
<1>3. R = {ss \in Nat \X Nat : ss[1] < ss[2]}
  BY <1>1 DEF OpToRel
<1>4. PICK i \in S : \A k \in S : <<k, i>> \notin R
  BY <1>2, WFMin
<1>5. i \in Nat /\ \A k \in S : k \in Nat /\ ~(k < i)
  BY <1>3, <1>4
<1>6. \A k \in S : i <= k
  BY <1>5
<1>. QED BY <1>4, <1>6 DEF Min

LEMMA DocumentsArePages == ASSUME NEW doc \in Documents PROVE IsPage(doc)
<1>1. PICK m \in 0 .. MaxPieces : doc \in [1 .. m -> Piece]
  BY DEF Documents, SeqOf
<1>2. m \in Nat
  BY InjectionAssumption
<1>3. doc \in Seq(Piece)
  BY <1>1, <1>2
<1>4. ASSUME NEW i \in Places(doc) PROVE i > 1
  <2>1. i \in DOMAIN doc /\ doc[i] \in Reported /\ i \in Int
    BY <1>3 DEF Places
  <2>2. \/ doc[i] = "text"
        \/ i < Len(doc) /\ <<doc[i], doc[i + 1]>> \in Tag
        \/ i > 1 /\ <<doc[i - 1], doc[i]>> \in Tag
    BY <2>1 DEF Documents
  <2>3. ASSUME NEW p, <<doc[i], p>> \in Tag PROVE FALSE
    <3>1. doc[i] \in {"head-", "body-", "/html-"}
      BY <2>3 DEF Tag
    <3>. QED BY <2>1, <3>1 DEF Reported
  <2>. QED BY <2>1, <2>2, <2>3 DEF Reported
<1>. QED BY <1>3, <1>4 DEF IsPage

LEMMA SubSeqPrefix ==
  ASSUME NEW S, NEW s \in Seq(S), NEW n \in 0 .. Len(s), NEW a \in 1 .. n + 1, NEW b \in 0 .. n
  PROVE  SubSeq(SubSeq(s, 1, n), a, b) = SubSeq(s, a, b)
<1>. DEFINE t == SubSeq(s, 1, n)
<1>1. \A i \in 1 .. n : s[i] \in S
  OBVIOUS
<1>2. t \in Seq(S) /\ Len(t) = n /\ \A i \in 1 .. n : t[i] = s[i]
  BY <1>1, SubSeqProperties
<1>. HIDE DEF t
<1>3. /\ SubSeq(s, a, b) \in Seq(S)
      /\ Len(SubSeq(s, a, b)) = IF a <= b THEN b - a + 1 ELSE 0
      /\ \A i \in 1 .. b - a + 1 : SubSeq(s, a, b)[i] = s[a + i - 1]
  BY <1>1, SubSeqProperties
<1>4. \A i \in a .. b : t[i] \in S
  BY <1>1, <1>2
<1>5. /\ SubSeq(t, a, b) \in Seq(S)
      /\ Len(SubSeq(t, a, b)) = IF a <= b THEN b - a + 1 ELSE 0
      /\ \A i \in 1 .. b - a + 1 : SubSeq(t, a, b)[i] = t[a + i - 1]
  BY <1>4, SubSeqProperties
<1>6. \A i \in 1 .. Len(SubSeq(t, a, b)) : SubSeq(t, a, b)[i] = SubSeq(s, a, b)[i]
  BY <1>2, <1>3, <1>5
<1>7. SubSeq(t, a, b) = SubSeq(s, a, b)
  BY <1>3, <1>5, <1>6, SeqEqual
<1>. QED BY <1>7 DEF t

LEMMA PieceOfPage ==
  ASSUME NEW s \in Seq(Content), NEW a \in 1 .. Len(s) + 1, NEW b \in 0 .. Len(s)
  PROVE  SubSeq(s, a, b) \in Seq(Content)
<1>1. \A i \in a .. b : s[i] \in Content
  OBVIOUS
<1>. QED BY <1>1, SubSeqProperties

LEMMA ContentConcat ==
  ASSUME NEW s \in Seq(Content), NEW t \in Seq(Content), NEW u \in Seq(Content)
  PROVE  (s \o t) \o u = s \o (t \o u) /\ s \o t \in Seq(Content)
<1>1. (s \o t) \o u = s \o (t \o u)
  BY ConcatAssociative
<1>2. s \o t \in Seq(Content)
  OBVIOUS
<1>. QED BY <1>1, <1>2

\* The scripts go to the same place, whatever of the page follows it.
LEMMA InsertedPrefix ==
  ASSUME NEW doc, IsPage(doc), NEW n \in 0 .. Len(doc), NEW i \in Places(doc), i <= n
  PROVE  /\ Inserted(SubSeq(doc, 1, n), i) \in Seq(Content)
         /\ Inserted(SubSeq(doc, 1, n), i) \o SubSeq(doc, n + 1, Len(doc)) = Inserted(doc, i)
<1>. DEFINE s == SubSeq(doc, 1, n)
<1>1. doc \in Seq(Content) /\ Len(doc) \in Nat /\ i \in 1 .. Len(doc) /\ i > 1
  <2>1. doc \in Seq(Piece) /\ Piece \subseteq Content
    BY DEF IsPage, Content
  <2>2. doc \in Seq(Content)
    BY <2>1
  <2>. QED BY <2>1, <2>2 DEF IsPage, Places
<1>2. s \in Seq(Content) /\ Len(s) = n /\ s[i] = doc[i]
  <2>1. \A k \in 1 .. n : doc[k] \in Content
    BY <1>1
  <2>. QED BY <1>1, <2>1, SubSeqProperties
<1>3. PICK o \in 0 .. n : o = offset(doc, i) /\ o = offset(s, i)
  BY <1>1, <1>2 DEF offset
<1>4. PICK j : j \in Seq(Content) /\ j = stringToInject(doc[i]) /\ j = stringToInject(s[i])
  <2>1. "scripts" \in Content /\ "head-with-scripts" \in Content
    BY DEF Content
  <2>2. \A x \in Content : <<x>> \in Seq(Content)
    OBVIOUS
  <2>. QED BY <1>2, <2>1, <2>2 DEF stringToInject
<1>5. PICK a : /\ a = o + 1 /\ a \in 1 .. n + 1 /\ a \in 1 .. Len(doc) + 1
               /\ 1 \in 1 .. n + 1 /\ 1 \in 1 .. Len(doc) + 1
               /\ o \in 0 .. Len(doc) /\ n \in 0 .. n /\ n \in a - 1 .. Len(doc)
               /\ Len(doc) \in n .. Len(doc) /\ Len(doc) \in 0 .. Len(doc)
               /\ n + 1 \in 1 .. Len(doc) + 1
  BY <1>1, <1>3
<1>6. SubSeq(s, 1, o) = SubSeq(doc, 1, o) /\ SubSeq(s, a, n) = SubSeq(doc, a, n)
  BY <1>1, <1>3, <1>5, SubSeqPrefix
<1>7. PICK start, before, after :
        /\ start = SubSeq(doc, 1, o) \o j /\ before = SubSeq(doc, a, n)
        /\ after = SubSeq(doc, n + 1, Len(doc))
  OBVIOUS
<1>8. before \o after = SubSeq(doc, a, Len(doc))
  BY <1>1, <1>5, <1>7, ConcatAdjacentSubSeq
<1>. HIDE DEF s
<1>9. start \in Seq(Content) /\ before \in Seq(Content) /\ after \in Seq(Content)
  <2>1. /\ SubSeq(doc, 1, o) \in Seq(Content) /\ before \in Seq(Content)
        /\ after \in Seq(Content)
    BY <1>1, <1>3, <1>5, <1>7, PieceOfPage
  <2>. QED BY <1>4, <1>7, <2>1
<1>10. Inserted(s, i) = start \o before /\ Inserted(doc, i) = start \o SubSeq(doc, a, Len(doc))
  BY <1>2, <1>3, <1>4, <1>5, <1>6, <1>7 DEF Inserted
<1>11. (start \o before) \o after = start \o (before \o after)
  BY <1>9, ConcatAssociative
<1>12. Inserted(s, i) \o after = Inserted(doc, i) /\ Inserted(s, i) \in Seq(Content)
  BY <1>8, <1>9, <1>10, <1>11
<1>. QED BY <1>7, <1>12 DEF s

\* The place that a chunk completes is that of the whole page.
LEMMA FirstFound ==
  ASSUME NEW doc, IsPage(doc), NEW n \in 0 .. Len(doc), NEW found,
         found = {i \in Places(doc) : i <= n}, found # {}
  PROVE  /\ Min(found) \in Places(doc) /\ Min(found) <= n
         /\ Min(Places(doc)) = Min(found)
<1>1. Places(doc) \subseteq Nat /\ found \subseteq Places(doc) /\ n \in Nat
  BY DEF IsPage, Places
<1>2. Min(found) \in found /\ \A k \in found : Min(found) <= k
  BY <1>1, LeastPlace
<1>3. Min(Places(doc)) \in Places(doc) /\ \A k \in Places(doc) : Min(Places(doc)) <= k
  <2>1. Places(doc) # {}
    BY <1>1
  <2>. QED BY <1>1, <2>1, LeastPlace
<1>4. PICK m \in Nat, p \in Nat : m = Min(found) /\ p = Min(Places(doc))
  BY <1>1, <1>2, <1>3
<1>5. p <= m /\ (p \in found => m <= p) /\ (p \notin found => n < p) /\ m <= n
  BY <1>1, <1>2, <1>3, <1>4
<1>6. p = m
  BY <1>1, <1>4, <1>5
<1>. QED BY <1>1, <1>2, <1>4, <1>6

LEMMA InjectedPages ==
  ASSUME NEW doc
  PROVE  /\ Places(doc) = {} => Injected(doc) = Append(doc, "head-with-scripts")
         /\ Places(doc) # {} => Injected(doc) = Inserted(doc, Min(Places(doc)))
BY DEF Injected, Places

\* A chunk, wherever it is cut, keeps the promise of the stream.
LEMMA ChunkKeepsStream ==
  ASSUME NEW r, StreamOK(r), DOMAIN r = ResponseFields, NEW n \in (r.seen + 1) .. Len(r.doc),
         NEW t, t = [Transform(r, SubSeq(r.doc, r.seen + 1, n)) EXCEPT !.seen = n]
  PROVE  StreamOK(t) /\ DOMAIN t = ResponseFields /\ t.asks = r.asks /\ t.at = r.at
<1>. DEFINE chunk == SubSeq(r.doc, r.seen + 1, n)
            before == SubSeq(r.doc, 1, n)
            after == SubSeq(r.doc, n + 1, Len(r.doc))
<1>1. PICK doc, seen : doc = r.doc /\ seen = r.seen
  OBVIOUS
<1>2. /\ IsPage(doc) /\ doc \in Seq(Content) /\ Len(doc) \in Nat /\ seen \in 0 .. Len(doc)
      /\ n \in Nat /\ n \in (seen + 1) .. Len(doc)
  <2>1. IsPage(doc) /\ doc \in Seq(Piece) /\ Piece \subseteq Content
    BY <1>1 DEF StreamOK, IsPage, Content
  <2>2. doc \in Seq(Content)
    BY <2>1
  <2>. QED BY <1>1, <2>1, <2>2 DEF StreamOK
<1>3. /\ chunk \in Seq(Content) /\ Len(chunk) = n - seen
      /\ before \in Seq(Content) /\ after \in Seq(Content)
  <2>1. \A i \in 1 .. Len(doc) : doc[i] \in Content
    BY <1>2
  <2>. QED BY <1>1, <1>2, <2>1, SubSeqProperties
<1>4. before = SubSeq(doc, 1, seen) \o chunk
  <2>1. /\ 1 \in 1 .. Len(doc) + 1 /\ seen \in 1 - 1 .. Len(doc) /\ n \in seen .. Len(doc)
    BY <1>2
  <2>. QED BY <1>1, <1>2, <2>1, ConcatAdjacentSubSeq
<1>5. SubSeq(doc, seen + 1, Len(doc)) = chunk \o after
  <2>1. /\ seen + 1 \in 1 .. Len(doc) + 1 /\ n \in (seen + 1) - 1 .. Len(doc)
        /\ Len(doc) \in n .. Len(doc)
    BY <1>2
  <2>. QED BY <1>1, <1>2, <2>1, ConcatAdjacentSubSeq
<1>6. before = SubSeq(doc, 1, n) /\ after = SubSeq(doc, n + 1, Len(doc)) /\ n \in 0 .. Len(doc)
  BY <1>1, <1>2
<1>. HIDE DEF chunk, before, after
<1>7. Detected(r, chunk) = {i \in Places(doc) : seen < i /\ i <= n}
  <2>1. DOMAIN doc = 1 .. Len(doc) /\ seen \in Nat /\ seen + Len(chunk) = n
    BY <1>2, <1>3
  <2>2. Detected(r, chunk) = {i \in (seen + 1) .. n : doc[i] \in Reported}
    BY <1>1, <2>1 DEF Detected
  <2>. QED BY <1>2, <2>1, <2>2 DEF Places
<1>8. CASE r.injected
  <2>1. t = [[r EXCEPT !.out = @ \o chunk] EXCEPT !.seen = n]
    BY <1>8 DEF Transform, chunk
  <2>2. /\ DOMAIN t = ResponseFields /\ t.out = r.out \o chunk /\ t.seen = n /\ t.doc = doc
        /\ t.injected = r.injected /\ t.held = r.held /\ t.asks = r.asks /\ t.at = r.at
    BY <1>1, <2>1 DEF ResponseFields
  <2>3. r.out \in Seq(Content) /\ r.out \o (chunk \o after) = Injected(doc) /\ r.held = <<>>
    BY <1>1, <1>5, <1>8 DEF StreamOK
  <2>4. PICK out : out \in Seq(Content) /\ out = r.out
    BY <2>3
  <2>5. (out \o chunk) \o after = out \o (chunk \o after) /\ out \o chunk \in Seq(Content)
    BY <1>3, <2>4, ContentConcat
  <2>6. t.out \in Seq(Content) /\ t.out \o after = Injected(doc) /\ t.held = <<>>
    BY <2>2, <2>3, <2>4, <2>5
  <2>7. StreamOK(t)
    BY <1>2, <1>6, <1>8, <2>2, <2>6 DEF StreamOK
  <2>. QED BY <2>2, <2>7
<1>9. CASE ~r.injected
  <2>1. /\ r.out = <<>> /\ r.held \o chunk = before
        /\ Detected(r, chunk) = {i \in Places(doc) : i <= n}
    BY <1>1, <1>2, <1>4, <1>7, <1>9 DEF StreamOK
  <2>2. CASE Detected(r, chunk) = {}
    <3>1. t = [[r EXCEPT !.held = before] EXCEPT !.seen = n]
      BY <1>9, <2>1, <2>2 DEF Transform, chunk
    <3>2. /\ DOMAIN t = ResponseFields /\ t.out = <<>> /\ t.seen = n /\ t.doc = doc
          /\ t.injected = r.injected /\ t.held = before /\ t.asks = r.asks /\ t.at = r.at
      BY <1>1, <2>1, <3>1 DEF ResponseFields
    <3>3. \A i \in Places(doc) : i > n
      BY <1>2, <2>1, <2>2 DEF Places, IsPage
    <3>. QED BY <1>1, <1>2, <1>9, <3>2, <3>3 DEF StreamOK, before
  <2>3. CASE Detected(r, chunk) # {}
    <3>1. PICK i, found : i = Min(found) /\ found = Detected(r, chunk)
      OBVIOUS
    <3>2. i \in Places(doc) /\ i <= n /\ i = Min(Places(doc))
      BY <1>2, <1>6, <2>1, <2>3, <3>1, FirstFound
    <3>3. t = [[r EXCEPT !.out = @ \o Inserted(before, i), !.held = <<>>, !.injected = TRUE]
                 EXCEPT !.seen = n]
      BY <1>9, <2>1, <2>3, <3>1 DEF Transform, chunk
    <3>4. /\ DOMAIN t = ResponseFields /\ t.out = <<>> \o Inserted(before, i) /\ t.seen = n
          /\ t.doc = doc /\ t.injected = TRUE /\ t.held = <<>> /\ t.asks = r.asks /\ t.at = r.at
      BY <1>1, <2>1, <3>3 DEF ResponseFields
    <3>5. Inserted(before, i) \in Seq(Content) /\ Inserted(before, i) \o after = Inserted(doc, i)
      BY <1>2, <1>6, <3>2, InsertedPrefix
    <3>6. t.out = Inserted(before, i)
      BY <3>4, <3>5
    <3>7. Injected(doc) = Inserted(doc, i)
      BY <3>2, InjectedPages
    <3>8. StreamOK(t)
      BY <1>2, <1>6, <3>4, <3>5, <3>6, <3>7 DEF StreamOK
    <3>. QED BY <3>4, <3>8
  <2>. QED BY <2>2, <2>3
<1>. QED BY <1>8, <1>9

\* At its end the stream has what it promised.
LEMMA FinalInjected ==
  ASSUME NEW r, StreamOK(r), DOMAIN r = ResponseFields, r.seen = Len(r.doc)
  PROVE  Final(r).out = Injected(r.doc)
<1>0. PICK doc : doc = r.doc
  OBVIOUS
<1>1. /\ doc \in Seq(Content) /\ Len(doc) \in Nat /\ DOMAIN doc = 1 .. Len(doc)
      /\ "head-with-scripts" \in Content
  <2>1. doc \in Seq(Piece) /\ Piece \subseteq Content
    BY <1>0 DEF StreamOK, IsPage, Content
  <2>2. doc \in Seq(Content)
    BY <2>1
  <2>3. "head-with-scripts" \in Content
    BY DEF Content
  <2>. QED BY <2>2, <2>3
<1>2. Final(r).out = r.out \o r.held \o (IF r.injected THEN <<>> ELSE <<"head-with-scripts">>)
  BY DEF Final, ResponseFields
<1>3. CASE r.injected
  <2>1. PICK out : out \in Seq(Content) /\ out = r.out
    BY <1>3 DEF StreamOK
  <2>2. SubSeq(doc, Len(doc) + 1, Len(doc)) = <<>>
    <3>1. Len(doc) + 1 \in Int /\ Len(doc) \in Int /\ Len(doc) < Len(doc) + 1
      BY <1>1
    <3>. QED BY <3>1, SubSeqEmpty
  <2>3. out \o <<>> = out
    BY <2>1
  <2>4. r.held = <<>> /\ out \o <<>> = Injected(doc)
    BY <1>0, <1>3, <2>1, <2>2 DEF StreamOK
  <2>. QED BY <1>0, <1>2, <1>3, <2>1, <2>3, <2>4
<1>4. CASE ~r.injected
  <2>1. r.out = <<>> /\ r.held = SubSeq(doc, 1, Len(doc)) /\ \A i \in Places(doc) : i > Len(doc)
    BY <1>0, <1>4 DEF StreamOK
  <2>2. r.held = doc
    BY <1>1, <2>1, SubSeqFull
  <2>3. Places(doc) = {}
    BY <1>1, <2>1 DEF Places
  <2>4. Injected(doc) = Append(doc, "head-with-scripts")
    BY <2>3, InjectedPages
  <2>5. \A s \in Seq(Content), x \in Content : <<>> \o s \o <<x>> = Append(s, x)
    OBVIOUS
  <2>. QED BY <1>0, <1>1, <1>2, <1>4, <2>1, <2>2, <2>4, <2>5
<1>. QED BY <1>3, <1>4

LEMMA InjectionInitHasInv == InjectionInit => InjectionInv
BY DEF InjectionInit, InjectionInv, NoPage, NoResponse, At, InjectedAlike, CachedFresh,
       ResponseFields

\* A new stream has promised nothing yet.
LEMMA InjectsKeepsInv == InjectionInv /\ Injects => InjectionInv'
<1>. SUFFICES ASSUME InjectionInv, Injects PROVE InjectionInv'
  OBVIOUS
<1>1. PICK doc \in Documents :
        resp' = [resp EXCEPT !.at = "streams", !.doc = doc,
                             !.asks = addOutgoingEtagSuffix(resp.script)]
  BY DEF Injects
<1>2. resp.at = "asked" /\ UNCHANGED <<cached, validator>> /\ DOMAIN resp = ResponseFields
  BY DEF Injects, At, Environs, InjectionInv
<1>3. IsPage(doc) /\ doc \in Seq(Piece)
  BY DocumentsArePages DEF IsPage

<1>4. /\ resp'.at = "streams" /\ DOMAIN resp' = ResponseFields /\ resp'.doc = doc
      /\ resp'.asks = addOutgoingEtagSuffix(resp.script)
      /\ resp'.seen = resp.seen /\ resp'.held = resp.held /\ resp'.out = resp.out
      /\ resp'.injected = resp.injected
  BY <1>1, <1>2 DEF ResponseFields
<1>5. resp.seen = 0 /\ resp.held = <<>> /\ resp.out = <<>> /\ ~resp.injected
  BY <1>2 DEF InjectionInv, At
<1>6. StreamOK(resp')
  <2>1. SubSeq(doc, 1, 0) = <<>>
    BY SubSeqEmpty
  <2>2. Len(doc) \in Nat /\ 0 \in 0 .. Len(doc)
    BY <1>3
  <2>3. \A i \in Places(doc) : i > 0
    BY <1>3 DEF IsPage, Places
  <2>. QED BY <1>3, <1>4, <1>5, <2>1, <2>2, <2>3 DEF StreamOK
<1>7. DOMAIN resp'.asks = {"version", "suffix"}
  BY <1>4 DEF addOutgoingEtagSuffix
<1>. QED BY <1>2, <1>4, <1>6, <1>7 DEF InjectionInv, At, InjectedAlike, CachedFresh

\* Without its own suffix, only a page without scripts has an etag of the service.
LEMMA NotModifiedKeepsInv == InjectionInv /\ NotModified => InjectionInv'
<1>. SUFFICES ASSUME InjectionInv, NotModified PROVE InjectionInv'
  OBVIOUS
<1>1. /\ resp.at = "asked" /\ UNCHANGED <<cached, validator>> /\ DOMAIN resp = ResponseFields
      /\ resp.asks = cached /\ DOMAIN cached = {"version", "suffix"} /\ Unmodified
      /\ resp' = [resp EXCEPT !.at = "revalidated"]
  BY DEF NotModified, At, Environs, InjectionInv
<1>2. /\ resp'.at = "revalidated" /\ DOMAIN resp' = ResponseFields /\ resp'.asks = cached
      /\ resp'.script = resp.script
  BY <1>1 DEF ResponseFields
<1>3. validator = "etag" => cached.suffix \in {resp.script, NoScript}
  <2>1. SUFFICES ASSUME validator = "etag" PROVE cached.suffix \in {resp.script, NoScript}
    OBVIOUS
  <2>2. removeIncomingEtagSuffix(cached, resp.script) = [version |-> version, suffix |-> NoScript]
    BY <1>1, <2>1 DEF Unmodified
  <2>. QED BY <2>2 DEF removeIncomingEtagSuffix
<1>. QED BY <1>1, <1>2, <1>3 DEF InjectionInv, At, InjectedAlike, CachedFresh

LEMMA PageKeptKeepsInv == InjectionInv /\ End => InjectionInv'
<1>. SUFFICES ASSUME InjectionInv, End PROVE InjectionInv'
  OBVIOUS
<1>1. /\ DOMAIN resp = ResponseFields /\ DOMAIN resp.asks = {"version", "suffix"}
      /\ cached' = resp.asks /\ UNCHANGED validator
  BY DEF End, Environs, InjectionInv
<1>2. CASE At({"streams"}) /\ resp.seen = Len(resp.doc) /\ resp' = [Final(resp) EXCEPT !.at = "done"]
  <2>1. Final(resp).out = Injected(resp.doc)
    BY <1>1, <1>2, FinalInjected DEF InjectionInv
  <2>2. /\ resp'.at = "done" /\ DOMAIN resp' = ResponseFields /\ resp'.asks = resp.asks
        /\ resp'.doc = resp.doc /\ resp'.out = Final(resp).out
    BY <1>1, <1>2 DEF Final, ResponseFields
  <2>. QED BY <1>1, <2>1, <2>2 DEF InjectionInv, At, InjectedAlike, CachedFresh
<1>3. CASE At({"passes"}) /\ resp' = [resp EXCEPT !.at = "done"]
  <2>1. /\ resp'.at = "done" /\ DOMAIN resp' = ResponseFields /\ resp'.asks = resp.asks
        /\ resp.asks.suffix = NoScript
    BY <1>1, <1>3 DEF ResponseFields, InjectionInv
  <2>. QED BY <1>1, <2>1 DEF InjectionInv, At, InjectedAlike, CachedFresh
<1>4. \/ At({"streams"}) /\ resp.seen = Len(resp.doc) /\ resp' = [Final(resp) EXCEPT !.at = "done"]
      \/ At({"passes"}) /\ resp' = [resp EXCEPT !.at = "done"]
  BY DEF End
<1>. QED BY <1>2, <1>3, <1>4

LEMMA InjectionStepKeepsInv == InjectionInv /\ [InjectionNext]_injectionVars => InjectionInv'
<1>. SUFFICES ASSUME InjectionInv, [InjectionNext]_injectionVars PROVE InjectionInv'
  OBVIOUS
<1>1. CASE Asks
  <2>1. /\ resp' = [NoResponse EXCEPT !.at = "asked", !.script = inject, !.asks = cached]
        /\ UNCHANGED <<cached, validator>> /\ DOMAIN cached = {"version", "suffix"}
    BY <1>1 DEF Asks, Environs, InjectionInv
  <2>2. /\ resp'.at = "asked" /\ DOMAIN resp' = ResponseFields /\ resp'.asks = cached
        /\ resp'.seen = 0 /\ resp'.held = <<>> /\ resp'.out = <<>> /\ ~resp'.injected
    BY <2>1 DEF NoResponse, ResponseFields
  <2>. QED BY <2>1, <2>2 DEF InjectionInv, At, InjectedAlike, CachedFresh
<1>2. CASE Passes \/ Crashes
  <2>1. /\ UNCHANGED <<cached, validator>> /\ DOMAIN resp = ResponseFields
        /\ DOMAIN cached = {"version", "suffix"} /\ DOMAIN resp.asks = {"version", "suffix"}
    BY <1>2 DEF Passes, Crashes, Environs, InjectionInv
  <2>2. \/ resp' = [resp EXCEPT !.at = "crashed"]
        \/ resp' = [resp EXCEPT !.at = "passes",
                                !.asks = [version |-> version, suffix |-> NoScript]]
    BY <1>2 DEF Passes, Crashes
  <2>3. /\ DOMAIN resp' = ResponseFields /\ DOMAIN resp'.asks = {"version", "suffix"}
        /\ \/ resp'.at = "crashed"
           \/ resp'.at = "passes" /\ resp'.asks.suffix = NoScript
    <3>1. CASE resp' = [resp EXCEPT !.at = "crashed"]
      BY <2>1, <3>1 DEF ResponseFields
    <3>2. CASE resp' = [resp EXCEPT !.at = "passes",
                                    !.asks = [version |-> version, suffix |-> NoScript]]
      <4>1. PICK page : page = [version |-> version, suffix |-> NoScript]
        OBVIOUS
      <4>2. DOMAIN page = {"version", "suffix"} /\ page.suffix = NoScript
        BY <4>1
      <4>3. DOMAIN resp' = ResponseFields /\ resp'.at = "passes" /\ resp'.asks = page
        BY <2>1, <3>2, <4>1 DEF ResponseFields
      <4>. QED BY <4>2, <4>3
    <3>. QED BY <2>2, <3>1, <3>2
  <2>. QED BY <2>1, <2>3 DEF InjectionInv, At, InjectedAlike, CachedFresh
<1>3. CASE Chunk
  <2>1. /\ resp.at = "streams" /\ StreamOK(resp) /\ UNCHANGED <<cached, validator>>
        /\ DOMAIN cached = {"version", "suffix"} /\ DOMAIN resp.asks = {"version", "suffix"}
        /\ DOMAIN resp = ResponseFields
    BY <1>3 DEF Chunk, At, Environs, InjectionInv
  <2>2. PICK n \in (resp.seen + 1) .. Len(resp.doc) :
          resp' = [Transform(resp, SubSeq(resp.doc, resp.seen + 1, n)) EXCEPT !.seen = n]
    BY <1>3 DEF Chunk
  <2>3. StreamOK(resp') /\ DOMAIN resp' = ResponseFields /\ resp'.asks = resp.asks
        /\ resp'.at = resp.at
    <3>1. PICK r, t : r = resp /\ t = resp'
      OBVIOUS
    <3>. QED BY <2>1, <2>2, <3>1, ChunkKeepsStream
  <2>. QED BY <2>1, <2>3 DEF InjectionInv, At, InjectedAlike, CachedFresh
<1>4. CASE Cut
  <2>1. resp' = [NoResponse EXCEPT !.at = "cut"] /\ UNCHANGED <<cached, validator>>
    BY <1>4 DEF Cut, Environs
  <2>2. /\ resp'.at = "cut" /\ DOMAIN resp' = ResponseFields
        /\ DOMAIN resp'.asks = {"version", "suffix"}
    BY <2>1 DEF NoResponse, NoPage, ResponseFields
  <2>. QED BY <2>1, <2>2 DEF InjectionInv, At, InjectedAlike, CachedFresh
<1>5. CASE PageChanges \/ ScriptsChange \/ UNCHANGED injectionVars
  <2>1. UNCHANGED <<validator, cached, resp>>
    BY <1>5 DEF PageChanges, ScriptsChange, injectionVars
  <2>. QED BY <2>1 DEF InjectionInv, At, InjectedAlike, CachedFresh
<1>. QED BY <1>1, <1>2, <1>3, <1>4, <1>5, InjectsKeepsInv, NotModifiedKeepsInv, PageKeptKeepsInv
        DEF InjectionNext

\* inject-transform.ts: a page of any length, cut into chunks anywhere, reaches the
\* browser whole and in its order, with the scripts in it once, and where they would
\* be if it had come in one piece.
THEOREM InjectedCorrect == InjectionSpec => []InjectedAlike
<1>1. InjectionInv => InjectedAlike
  BY DEF InjectionInv
<1>. QED BY <1>1, InjectionInitHasInv, InjectionStepKeepsInv, PTL DEF InjectionSpec

\* removeIncomingEtagSuffix: of a service that names versions by etags, no page with
\* other scripts is ever taken out of a cache, whatever the order in which pages and
\* scripts change and requests are answered.
THEOREM CachedCorrect == InjectionSpec => []CachedFresh
<1>1. InjectionInv => CachedFresh
  BY DEF InjectionInv
<1>. QED BY <1>1, InjectionInitHasInv, InjectionStepKeepsInv, PTL DEF InjectionSpec
=============================================================================
