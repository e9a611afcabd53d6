---------------------------- MODULE PullRequests ----------------------------
(****************************************************************************)
(* PullRequests: the commands up, down, github pr comment and uncomment, as *)
(* a CI runs them for the branches of pull requests, the environments they  *)
(* find, and the comments the GitHub plugin keeps on the pull requests.     *)
(*                                                                          *)
(* What up and down do to machines is that of MachineLifecycle, and here    *)
(* one step.  A job may be killed or fail anywhere.                         *)
(****************************************************************************)
EXTENDS Naturals, Sequences, FiniteSets

CONSTANTS
  Name,         \* normalized names of branches
  Spelling,     \* what normalizing forgets of a name: case, and characters outside a-z0-9_-
  Job,          \* processes that run commands, one after the other
  Nothing,
  MaxJobs       \* bound: the number of commands

VARIABLES
  environments, \* the environments that exist
  comments,     \* the comments on the pull request of each branch
  jobs,         \* what the processes are at
  crossed,      \* environments for which two commands have run at a time
  told,         \* the branch on whose pull request the last command of an environment has told
                \* of it, if it was alone
  started       \* the number of commands so far

prVars == <<environments, comments, jobs, crossed, told, started>>

ASSUME PullRequestsAssumption == Nothing \notin Name

Branch == [name : Name, spelling : Spelling]

\* Branches that differ in their spelling only have the same environment.
normalize(branch) == branch.name

\* An id from the flags has to be normalized; a branch, of the CI or of git, is made so.
findEnvId(flag, branch) == IF flag = Nothing THEN normalize(branch) ELSE flag

Waiting == [at |-> "idle", command |-> Nothing, branch |-> Nothing, env |-> Nothing,
            alone |-> FALSE, comment |-> 0]

PrInit ==
  /\ environments = {}
  /\ comments = [b \in Branch |-> <<>>]
  /\ jobs = [j \in Job |-> Waiting]
  /\ crossed = {} /\ told = [e \in Name |-> Nothing] /\ started = 0

-----------------------------------------------------------------------------
(* Commands *)

JobAt(j, at) == jobs[j].at = at

\* A command ends as it begins: only the ghosts remember it.
JobEnds(j) == jobs' = [jobs EXCEPT ![j] = Waiting]

JobGo(j, at) == jobs' = [jobs EXCEPT ![j].at = at]

JobStops(j) ==
  /\ ~JobAt(j, "idle") /\ JobEnds(j)
  /\ UNCHANGED <<environments, comments, crossed, told, started>>

JobStarts(j) ==
  /\ JobAt(j, "idle") /\ started < MaxJobs /\ started' = started + 1
  /\ \E c \in {"up", "down", "comment", "uncomment"}, b \in Branch, flag \in Name \cup {Nothing} :
       LET env == findEnvId(flag, b)
           others == {i \in Job : jobs[i].env = env}
       IN /\ jobs' = [i \in Job |->
               IF i = j
               THEN [at |-> c, command |-> c, branch |-> b, env |-> env,
                     alone |-> others = {}, comment |-> 0]
               ELSE [jobs[i] EXCEPT !.alone = @ /\ i \notin others]]
          /\ crossed' = IF others = {} THEN crossed ELSE crossed \cup {env}
          /\ told' = [told EXCEPT ![env] = Nothing]
  /\ UNCHANGED <<environments, comments>>

\* ensureMachine and commands.up, which may fail when the environment is there already.
UpDeploys(j) ==
  /\ JobAt(j, "up") /\ environments' = environments \cup {jobs[j].env}
  /\ JobGo(j, "urls")
  /\ UNCHANGED <<comments, crossed, told, started>>

\* Also the command "urls", which "github pr comment" runs.
QueryUrls(j) ==
  /\ jobs[j].at \in {"urls", "comment"} /\ jobs[j].env \in environments
  /\ JobGo(j, "hook")
  /\ UNCHANGED <<environments, comments, crossed, told, started>>

\* Without a machine down has nothing to do, by --force or by an error, and tells nobody.
DownDeletes(j) ==
  /\ JobAt(j, "down")
  /\ IF jobs[j].env \in environments
     THEN environments' = environments \ {jobs[j].env} /\ JobGo(j, "hook")
     ELSE JobEnds(j) /\ UNCHANGED environments
  /\ UNCHANGED <<comments, crossed, told, started>>

Uncomments(j) ==
  /\ JobAt(j, "uncomment") /\ JobGo(j, "hook")
  /\ UNCHANGED <<environments, comments, crossed, told, started>>

\* Comments are off, or the token, the repository or the pull request is not known: up and down
\* end without a comment, and the commands of the plugin with an error.
HookSkips(j) ==
  /\ JobAt(j, "hook") /\ JobEnds(j)
  /\ UNCHANGED <<environments, comments, crossed, told, started>>

\* The comments of a pull request with the marker of an environment.
Marked(branch, env) ==
  {i \in DOMAIN comments[branch] : comments[branch][i].env = env}

First(indexes) == CHOOSE i \in indexes : \A k \in indexes : i <= k

\* The plausible error of looking for the marker in one's own content.
FindCommentNever(j) ==
  /\ JobAt(j, "hook")
  /\ jobs' = [jobs EXCEPT ![j].at = "post"]
  /\ UNCHANGED <<environments, comments, crossed, told, started>>

FindComment(j) ==
  LET marked == Marked(jobs[j].branch, jobs[j].env)
  IN /\ JobAt(j, "hook")
     /\ jobs' = [jobs EXCEPT ![j].at = "post",
                             ![j].comment = IF marked = {} THEN 0 ELSE First(marked)]
     /\ UNCHANGED <<environments, comments, crossed, told, started>>

Body(j) == IF jobs[j].command \in {"up", "comment"} THEN "urls" ELSE "deleted"

\* Creates the comment that was not found, or updates the one that was.
PostComment(j) ==
  LET me == jobs[j]
      comment == [env |-> me.env, body |-> Body(j)]
  IN /\ JobAt(j, "post") /\ JobEnds(j)
     /\ comments' = [comments EXCEPT ![me.branch] =
          IF me.comment = 0 THEN Append(@, comment) ELSE [@ EXCEPT ![me.comment] = comment]]
     /\ told' = [told EXCEPT ![me.env] =
          IF me.alone /\ me.command # "uncomment" THEN me.branch ELSE Nothing]
     /\ UNCHANGED <<environments, crossed, started>>

PrNext == \E j \in Job :
  \/ JobStarts(j) \/ JobStops(j)
  \/ UpDeploys(j) \/ QueryUrls(j) \/ DownDeletes(j) \/ Uncomments(j)
  \/ HookSkips(j) \/ FindComment(j) \/ PostComment(j)

-----------------------------------------------------------------------------
(* Properties *)

\* The comment a pull request shows first for an environment is true after a command that ran
\* alone and got to comment, whatever went wrong before it; and there is one such comment,
\* unless two commands of the environment have run at a time, which both find none
\* (github-comment.ts:65-71).
CommentTells ==
  /\ \A e \in Name : told[e] # Nothing =>
       /\ Marked(told[e], e) # {}
       /\ comments[told[e]][First(Marked(told[e], e))].body =
            IF e \in environments THEN "urls" ELSE "deleted"
  /\ \A b \in Branch, e \in Name \ crossed : Cardinality(Marked(b, e)) <= 1
=============================================================================
