-------------------------------- MODULE Login --------------------------------
(****************************************************************************)
(* Login: the commands "login" and "profile link" of one data directory,    *)
(* against the authorization server and the API of the SaaS.                *)
(*                                                                          *)
(* Commands share the file with the tokens and nothing else: there is no    *)
(* lock, and any of them may be killed or fail at every request.            *)
(****************************************************************************)
EXTENDS Naturals, FiniteSets

CONSTANTS
  User,         \* accounts
  Process,      \* processes that run commands, one after the other
  NoOne,
  MaxLogins     \* bound: the number of commands

VARIABLES
  tokenFile,    \* lc-access-token.json
  members,      \* the users that have an organization
  linkedTo,     \* the user to whose organization the profile is linked
  runs,         \* what the processes are at
  interrupted,  \* users whose login has stopped after the tokens were written
  logins        \* the number of commands so far

loginVars == <<tokenFile, members, linkedTo, runs, interrupted, logins>>

\* A file that is being written, or whose writer was killed, is empty.
NoFile == [state |-> "none", user |-> NoOne]
EmptyFile == [state |-> "empty", user |-> NoOne]
TokensOf(u) == [state |-> "valid", user |-> u]

LoggedOut == [at |-> "idle", user |-> NoOne]

LoginInit ==
  /\ tokenFile = NoFile
  /\ members \in SUBSET User
  /\ linkedTo = NoOne
  /\ runs = [p \in Process |-> LoggedOut]
  /\ interrupted = {} /\ logins = 0

-----------------------------------------------------------------------------
(* Commands *)

RunAt(p, at) == runs[p].at = at

RunGo(p, at) == runs' = [runs EXCEPT ![p].at = at]

\* Between the tokens and the organization of their user.
Joining(p) == runs[p].at \in {"write", "postLogin", "prompt", "createOrg"}

\* An error or a signal ends the command where it is.
RunStops(p) ==
  /\ runs[p].at \notin {"idle", "done", "stopped"}
  /\ RunGo(p, "stopped")
  /\ interrupted' = IF Joining(p) THEN interrupted \cup {runs[p].user} ELSE interrupted
  /\ UNCHANGED <<tokenFile, members, linkedTo, logins>>

LoginStarts(p) ==
  /\ runs[p].at \in {"idle", "done", "stopped"}
  /\ logins < MaxLogins /\ logins' = logins + 1
  /\ \E at \in {"loginRead", "linkRead"} : runs' = [runs EXCEPT ![p] = [at |-> at, user |-> NoOne]]
  /\ UNCHANGED <<tokenFile, members, linkedTo, interrupted>>

\* getTokensFromLocalFs: an empty file is no JSON, which login takes for an error.
LoginReads(p) ==
  /\ RunAt(p, "loginRead") /\ tokenFile.state \in {"none", "valid", "expired"}
  /\ RunGo(p, IF tokenFile.state = "valid" THEN "done" ELSE "device")
  /\ UNCHANGED <<tokenFile, members, linkedTo, interrupted, logins>>

DeviceCode(p) ==
  /\ RunAt(p, "device") /\ RunGo(p, "poll")
  /\ UNCHANGED <<tokenFile, members, linkedTo, interrupted, logins>>

\* Whoever confirms the code in the browser.  Until then, and for ever if the code is refused or
\* has expired, the answer is 403 and polling goes on.
Approved(p) ==
  /\ RunAt(p, "poll")
  /\ \E u \in User : runs' = [runs EXCEPT ![p] = [at |-> "create", user |-> u]]
  /\ UNCHANGED <<tokenFile, members, linkedTo, interrupted, logins>>

\* fs.writeFile empties the file before it writes.
TokensCreate(p) ==
  /\ RunAt(p, "create") /\ RunGo(p, "write")
  /\ tokenFile' = EmptyFile
  /\ UNCHANGED <<members, linkedTo, interrupted, logins>>

TokensWritten(p) ==
  /\ RunAt(p, "write") /\ RunGo(p, "postLogin")
  /\ tokenFile' = TokensOf(runs[p].user)
  /\ UNCHANGED <<members, linkedTo, interrupted, logins>>

\* The plausible error of taking every answer for one with an organization.
PostLoginDone(p) ==
  /\ RunAt(p, "postLogin") /\ RunGo(p, "done")
  /\ UNCHANGED <<tokenFile, members, linkedTo, interrupted, logins>>

PostLogin(p) ==
  /\ RunAt(p, "postLogin")
  /\ RunGo(p, IF runs[p].user \in members THEN "done" ELSE "prompt")
  /\ UNCHANGED <<tokenFile, members, linkedTo, interrupted, logins>>

OrgNamed(p) ==
  /\ RunAt(p, "prompt") /\ RunGo(p, "createOrg")
  /\ UNCHANGED <<tokenFile, members, linkedTo, interrupted, logins>>

\* The answer may be lost after the organization has been created.
CreateOrg(p) ==
  /\ RunAt(p, "createOrg")
  /\ members' = members \cup {runs[p].user}
  /\ \E at \in {"done", "stopped"} : RunGo(p, at)
  /\ UNCHANGED <<tokenFile, linkedTo, interrupted, logins>>

\* link has the tokens of the file, or an access token from its flags.
LinkReads(p) ==
  /\ RunAt(p, "linkRead")
  /\ \E flag \in User \cup {NoOne} :
       /\ flag = NoOne => tokenFile.state = "valid"
       /\ runs' = [runs EXCEPT ![p] =
                     [at |-> "orgs", user |-> IF flag = NoOne THEN tokenFile.user ELSE flag]]
  /\ UNCHANGED <<tokenFile, members, linkedTo, interrupted, logins>>

\* Without an organization, link fails.
SelectOrg(p) ==
  /\ RunAt(p, "orgs") /\ runs[p].user \in members
  /\ RunGo(p, "link")
  /\ UNCHANGED <<tokenFile, members, linkedTo, interrupted, logins>>

LinkProfile(p) ==
  /\ RunAt(p, "link") /\ linkedTo' = runs[p].user
  /\ \E at \in {"done", "stopped"} : RunGo(p, at)
  /\ UNCHANGED <<tokenFile, members, interrupted, logins>>

\* The tokens of the file expire.
TokensExpire ==
  /\ tokenFile.state = "valid"
  /\ tokenFile' = [tokenFile EXCEPT !.state = "expired"]
  /\ UNCHANGED <<members, linkedTo, runs, interrupted, logins>>

LoginNext ==
  \/ \E p \in Process :
       \/ LoginStarts(p) \/ RunStops(p)
       \/ LoginReads(p) \/ DeviceCode(p) \/ Approved(p)
       \/ TokensCreate(p) \/ TokensWritten(p) \/ PostLogin(p) \/ OrgNamed(p) \/ CreateOrg(p)
       \/ LinkReads(p) \/ SelectOrg(p) \/ LinkProfile(p)
  \/ TokensExpire

-----------------------------------------------------------------------------
(* Properties *)

\* A user whose tokens are in the file has an organization, is just getting one, or has had a
\* login stopped in between, which later logins do not make up for: they find the tokens
\* (login.ts:140-143).  A profile is linked to an organization.
LoginsJoin ==
  /\ tokenFile.user # NoOne =>
       \/ tokenFile.user \in members \cup interrupted
       \/ \E p \in Process : Joining(p) /\ runs[p].user = tokenFile.user
  /\ linkedTo # NoOne => linkedTo \in members
=============================================================================
