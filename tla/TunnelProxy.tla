---------------------------- MODULE TunnelProxy ----------------------------
(****************************************************************************)
(* The HTTP side of the tunnel server: the proxy in front of the tunnels,   *)
(* with its sessions, and the login page that private tunnels redirect to.  *)
(*                                                                          *)
(* A browser has tabs that share its cookies; a tab follows redirects.  The *)
(* server handles a request in stages, between which tunnels come and go    *)
(* (TunnelServer); the cookies of a request are those of when it was sent.  *)
(* The site that users log in to (SaaS) is external.                        *)
(****************************************************************************)
EXTENDS Naturals, Sequences

CONSTANTS
  Key,          \* hostnames of tunnels
  Owner,        \* thumbprints of profile keys
  OwnerOf,      \* the owner of a tunnel
  Tab,          \* requests at the same time
  Header,       \* authorization headers that clients send
  None,
  Saas,         \* a SaaS login is configured
  MaxTargets, MaxVisits, MaxChanges   \* bounds

\* An authorization header carries a token signed with the key of an owner;
\* a token of the SaaS names the profiles its user belongs to.
ASSUME ProxyAssumption ==
  /\ OwnerOf \in [Key -> Owner]
  /\ Header \subseteq [scheme : {"Basic", "Bearer"}, of : Owner, valid : BOOLEAN] \cup {None}
  /\ Saas \in BOOLEAN
  /\ None \notin {"admin", "guest"}
  /\ MaxTargets \in Nat /\ MaxVisits \in Nat /\ MaxChanges \in Nat

VARIABLES
  tunnels,      \* the store: entries by hostname
  opened,       \* the entries of all sockets so far, by target
  live,         \* targets whose sockets listen
  tabs,         \* the requests being handled
  jar,          \* the browser's cookies
  member,       \* profiles the user belongs to
  entitled,     \* owners of profiles the user has ever belonged to, or whose
                \* tokens its browser has sent
  visits, changes   \* counters of the bounds

servers == <<tunnels, opened, live>>
users == <<member, entitled>>
vars == <<servers, tabs, jar, users, visits, changes>>

Target == 1 .. MaxTargets

Entry == [key : Key, access : {"public", "private"}, target : Target]

Role == {"admin", "guest"}

Token == [profiles : SUBSET Owner, valid : BOOLEAN]

Jar == [session : [Owner -> Role \cup {None}], token : Token \cup {None}]

Request == [key : Key, method : {"GET", "OPTIONS", "POST"}, upgrade : BOOLEAN,
            header : Header, hint : BOOLEAN, browser : BOOLEAN]

Idle == [at |-> "idle", req |-> None, cookies |-> None, entry |-> None, answer |-> None]

Stage == {"idle", "find", "auth", "proxy", "login", "loginAuth", "saas", "done"}

TabState == [at : Stage, req : Request \cup {None}, cookies : Jar \cup {None},
             entry : Entry \cup {None}, answer : Nat \cup {None}]

TypeOK ==
  /\ tunnels \in [Key -> Entry \cup {None}]
  /\ opened \in Seq(Entry) /\ live \subseteq DOMAIN opened
  /\ tabs \in [Tab -> TabState]
  /\ \A t \in Tab : tabs[t].at # "idle" => tabs[t].req \in Request /\ tabs[t].cookies \in Jar
  /\ jar \in Jar
  /\ member \subseteq Owner /\ entitled \subseteq Owner
  /\ visits \in 0 .. MaxVisits /\ changes \in 0 .. MaxChanges

NoCookies == [session |-> [o \in Owner |-> None], token |-> None]

Init ==
  /\ tunnels = [k \in Key |-> None]
  /\ opened = <<>> /\ live = {}
  /\ tabs = [t \in Tab |-> Idle]
  /\ jar = NoCookies
  /\ member = {} /\ entitled = {}
  /\ visits = 0 /\ changes = 0

-----------------------------------------------------------------------------
(* Requests and answers *)

\* The tab sends a request, with the cookies that the browser has then.
Sent(stage, r, cookies) ==
  [at |-> stage, req |-> r, cookies |-> cookies, entry |-> None, answer |-> None]

Send(t, stage, r, cookies) ==
  /\ tabs' = [tabs EXCEPT ![t] = Sent(stage, r, cookies)]
  /\ jar' = cookies

Answer(t, status) ==
  /\ tabs' = [tabs EXCEPT ![t].at = "done", ![t].answer = status]
  /\ UNCHANGED jar

\* The handler is suspended, with the entry it has found.
Await(t, stage, e) ==
  /\ tabs' = [tabs EXCEPT ![t].at = stage, ![t].entry = e]
  /\ UNCHANGED jar

\* The header has a valid token of the owner.
Vouches(header, o) == header # None /\ header.of = o /\ header.valid

\* Clients that are not browsers keep no cookies.
Visit(t, r) ==
  /\ tabs[t].at \in {"idle", "done"}
  /\ visits < MaxVisits
  /\ visits' = visits + 1
  /\ r.upgrade => r.method = "GET"
  /\ tabs' = [tabs EXCEPT ![t] = Sent("find", r, IF r.browser THEN jar ELSE NoCookies)]
  /\ entitled' = entitled \cup {o \in Owner : r.browser /\ Vouches(r.header, o)}
  /\ UNCHANGED <<servers, jar, member, changes>>

\* A server step on the request of a tab.
Handles(t, stage) ==
  /\ tabs[t].at = stage
  /\ UNCHANGED <<servers, users, visits, changes>>

OwnerAt(t) == OwnerOf[tabs[t].req.key]

\* session.user
User(t) == tabs[t].cookies.session[OwnerAt(t)]

SavedNowhere(t, role) == jar

\* session.set and session.save: the cookies with the answer.
Saved(t, role) == [jar EXCEPT !.session[OwnerAt(t)] = role]

\* 307 to the login page, which keeps the method.  A client that is not a
\* browser takes it for the answer.
RedirectToLogin(t, cookies) ==
  LET r == tabs[t].req IN
  IF r.browser /\ ~r.upgrade
  THEN Send(t, "login", [r EXCEPT !.hint = FALSE], cookies)
  ELSE Answer(t, 307)

-----------------------------------------------------------------------------
(* Authentication *)

Anonymous == [is |-> "anonymous", role |-> "guest", login |-> FALSE]
AuthError == [is |-> "error", role |-> "guest", login |-> FALSE]

\* Mutant of ClaimsOf: every user of the SaaS is a guest.
ClaimsOfGuest(o, token) == "guest"

\* saasIdentityProvider: the role depends on the profiles of the token.
ClaimsOf(o, token) == IF o \in token.profiles THEN "admin" ELSE "guest"

\* jwtAuthenticator.  A token of another issuer authenticates nobody, one
\* that does not verify is an error; the cookie counts without a header only.
Authenticate(o, header, token, browser) ==
  CASE header # None ->
         IF header.of # o THEN Anonymous
         ELSE IF ~header.valid THEN AuthError
         ELSE [is |-> "authenticated", role |-> "admin",
               login |-> browser /\ header.scheme # "Bearer"]
    [] header = None /\ token # None /\ Saas ->
         IF ~token.valid THEN AuthError
         ELSE [is |-> "authenticated", role |-> ClaimsOf(o, token), login |-> browser]
    [] OTHER -> Anonymous

\* Only admins get to a private tunnel.
Admit(t, role, e) == IF role = "admin" THEN Await(t, "proxy", e) ELSE Answer(t, 401)

-----------------------------------------------------------------------------
(* The proxy *)

\* validateProxyRequest, up to the authentication of a user without session.
FindTunnel(t) ==
  LET r == tabs[t].req
      e == tunnels[r.key] IN
  /\ Handles(t, "find")
  /\ CASE e = None -> Answer(t, 502)
       [] e # None /\ (e.access = "public" \/ r.method = "OPTIONS") -> Await(t, "proxy", e)
       [] OTHER -> IF User(t) = None THEN Await(t, "auth", e) ELSE Admit(t, User(t), e)

\* The rest of validatePrivateTunnelRequest.
AuthenticateRequest(t) ==
  LET r == tabs[t].req
      verdict == Authenticate(OwnerAt(t), r.header, tabs[t].cookies.token, r.browser) IN
  /\ Handles(t, "auth")
  /\ CASE verdict.is = "error" -> Answer(t, 502)
       [] verdict.is = "anonymous" ->
            IF r.hint THEN Answer(t, 401) ELSE RedirectToLogin(t, jar)
       [] verdict.is = "authenticated" ->
            IF verdict.login /\ r.method = "GET" /\ ~r.upgrade
            THEN RedirectToLogin(t, Saved(t, verdict.role))
            ELSE Admit(t, verdict.role, tabs[t].entry)

\* Mutant of Reached: the tunnel is looked up again.
ReachedByKey(t) ==
  LET e == tunnels[tabs[t].req.key] IN IF e = None THEN 0 ELSE e.target

\* The socket the request goes to.
Reached(t) == tabs[t].entry.target

\* The target may be gone, or not listen.
ProxyRequest(t) ==
  /\ Handles(t, "proxy")
  /\ IF Reached(t) \in live
     THEN /\ tabs' = [tabs EXCEPT ![t].at = "done", ![t].answer = 200,
                                  ![t].entry = opened[Reached(t)]]
          /\ UNCHANGED jar
     ELSE Answer(t, 500)

-----------------------------------------------------------------------------
(* The login page *)

RedirectToEnv(t, cookies) == Send(t, "find", tabs[t].req, cookies)

LoginFind(t) ==
  LET e == tunnels[tabs[t].req.key] IN
  /\ Handles(t, "login")
  /\ CASE tabs[t].req.method # "GET" \/ e = None -> Answer(t, 404)
       [] OTHER -> IF User(t) = None THEN Await(t, "loginAuth", e) ELSE RedirectToEnv(t, jar)

\* The browser does not send the header here, which is another origin.
LoginAuth(t) ==
  LET verdict == Authenticate(OwnerAt(t), None, tabs[t].cookies.token, TRUE) IN
  /\ Handles(t, "loginAuth")
  /\ CASE verdict.is = "error" -> Answer(t, 500)
       [] verdict.is = "anonymous" ->
            IF Saas THEN Send(t, "saas", tabs[t].req, jar) ELSE Answer(t, 401)
       [] verdict.is = "authenticated" -> RedirectToEnv(t, Saved(t, verdict.role))

\* The user logs in, and is sent back to the login page with a fresh token.
SaasLogin(t) ==
  /\ Handles(t, "saas")
  /\ Send(t, "login", tabs[t].req, [jar EXCEPT !.token = [profiles |-> member, valid |-> TRUE]])

-----------------------------------------------------------------------------
(* What changes around the requests *)

Change ==
  /\ changes < MaxChanges
  /\ changes' = changes + 1
  /\ UNCHANGED <<tabs, visits>>

Open(k, access) ==
  LET n == Len(opened) + 1
      e == [key |-> k, access |-> access, target |-> n] IN
  /\ Change
  /\ tunnels[k] = None /\ n \in Target
  /\ tunnels' = [tunnels EXCEPT ![k] = e]
  /\ opened' = Append(opened, e)
  /\ live' = live \cup {n}
  /\ UNCHANGED <<jar, users>>

\* The socket closes, before its entry is removed or with it.
Close(k) ==
  /\ Change
  /\ tunnels[k] # None
  /\ live' = live \ {tunnels[k].target}
  /\ \/ tunnels' = [tunnels EXCEPT ![k] = None]
     \/ tunnels[k].target \in live /\ UNCHANGED tunnels
  /\ UNCHANGED <<opened, jar, users>>

Membership(m) ==
  /\ Change
  /\ m # member
  /\ member' = m /\ entitled' = entitled \cup m
  /\ UNCHANGED <<servers, jar>>

\* The token's cookie may outlast the token.
TokenExpires ==
  /\ Change
  /\ jar.token # None
  /\ \E cookie \in {None, [jar.token EXCEPT !.valid = FALSE]} :
       jar' = [jar EXCEPT !.token = cookie]
  /\ UNCHANGED <<servers, users>>

\* Session cookies end with the browser.
BrowserRestarts ==
  /\ Change
  /\ jar' = [jar EXCEPT !.session = NoCookies.session]
  /\ UNCHANGED <<servers, users>>

-----------------------------------------------------------------------------
Handle(t) ==
  \/ FindTunnel(t) \/ AuthenticateRequest(t) \/ ProxyRequest(t)
  \/ LoginFind(t) \/ LoginAuth(t) \/ SaasLogin(t)

Next ==
  \/ \E t \in Tab : Handle(t) \/ \E r \in Request : Visit(t, r)
  \/ \E k \in Key : Close(k) \/ \E access \in {"public", "private"} : Open(k, access)
  \/ \E m \in SUBSET Owner : Membership(m)
  \/ TokenExpires \/ BrowserRestarts

\* The server answers, browsers follow redirects and users log in when they
\* are asked to.
Fairness == \A t \in Tab : WF_vars(Handle(t))

Spec == Init /\ [][Next]_vars /\ Fairness

-----------------------------------------------------------------------------
(* Properties *)

\* Whatever tunnels are replaced while a request is handled, and whichever
\* sessions and tokens the browser has collected: what a private tunnel
\* serves, preflights apart, goes to users whose profile it is, or was when
\* their session was made, and to holders of a valid token of its owner.
ServedProperly ==
  \A t \in Tab :
    LET r == tabs[t].req
        e == tabs[t].entry IN
    (tabs[t].at = "done" /\ tabs[t].answer = 200
       /\ e.access = "private" /\ r.method # "OPTIONS") =>
      \/ OwnerOf[e.key] \in entitled
      \/ Vouches(r.header, OwnerOf[e.key])

\* No visit ends in a redirect loop between the tunnel, the login page and
\* the SaaS, whatever changes on the way.
VisitsSettle == \A t \in Tab : (tabs[t].at # "idle") ~> (tabs[t].at = "done")

\* A member who opens a private tunnel in a browser, without an earlier
\* session as a guest and without an expired token, gets to it through the
\* login, unless something changes meanwhile.
Welcome(t) ==
  LET r == tabs[t].req
      e == tunnels[r.key]
      cookies == tabs[t].cookies IN
  /\ Saas
  /\ r.browser /\ r.method = "GET" /\ ~r.upgrade /\ ~r.hint /\ r.header = None
  /\ e # None /\ e.target \in live
  /\ OwnerAt(t) \in member
  /\ User(t) # "guest"
  /\ cookies.token # None => cookies.token.valid /\ OwnerAt(t) \in cookies.token.profiles

MemberServed ==
  \A t \in Tab, n \in 0 .. MaxChanges :
    (tabs[t].at = "find" /\ Welcome(t) /\ changes = n)
      ~> ((tabs[t].at = "done" /\ tabs[t].answer = 200) \/ changes # n)
=============================================================================
