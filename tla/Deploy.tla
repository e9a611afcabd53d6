-------------------------------- MODULE Deploy --------------------------------
(****************************************************************************)
(* `preevy up` on a machine that is there: from the compose model of the    *)
(* project to the URLs of its environment.  The command writes what it      *)
(* generates to a local directory of the project, computes image tags from  *)
(* the git state, builds, copies files to the machine, runs docker compose  *)
(* against its docker, and asks the tunnel agent for the URLs.              *)
(*                                                                          *)
(* Commands of one host share that directory, and the user goes on editing. *)
(* The project has one service with a build, which may name an image of its *)
(* own, and mounts one file.  docker, git and the agent are external.       *)
(****************************************************************************)
EXTENDS Naturals, Sequences

CONSTANTS
  Cli,            \* commands of one host
  Env,            \* environment ids, each with a machine of its own
  Build,          \* kinds of build asked for: "none", "load", "push"
  Own,            \* the image that the service may name
  None,
  MaxUps, MaxEdits, MaxTime, MaxAttempts   \* bounds

VARIABLES
  now,         \* the clock, in seconds
  edits,       \* versions of the sources handed out
  image,       \* what the compose file names as the image of the service, or None
  source,      \* the working tree: the build context, and the mounted file
  head,        \* the commit that is checked out, None outside of a repository
  dir,         \* the project's local data directory, None if there is none
  registry,    \* images pushed
  host,        \* the machine of each environment
  up,          \* the commands
  ups,         \* commands started
  overlapped   \* history: commands that did not run alone

tree == <<edits, image, source, head>>
vars == <<now, tree, dir, registry, host, up, ups, overlapped>>

Version == 0 .. MaxEdits

File == {"conf", "keys", "compose"}

\* What lstat and a read give of a file: nothing is known of one that is not there.
NoFile == [content |-> None, mtime |-> 0, size |-> 0]

Source == {"web", "conf"}

\* A tag names a commit and the files that are changed, or is random: these
\* have numbers past those of the commits.
Tag == [of : Nat, changed : SUBSET Source]

Commits == [of : Nat, web : Nat, conf : Nat]

ASSUME DeployAssumption ==
  /\ Build \subseteq {"none", "load", "push"}
  /\ None \notin Env /\ None \notin Tag /\ None \notin Commits
  /\ Own \notin Tag /\ Own # None
  /\ MaxUps \in Nat /\ MaxEdits \in Nat /\ MaxTime \in Nat /\ MaxAttempts \in Nat

\* What an image is called.
ImageRef == Tag \cup {Own}

Model(e, t) == [env |-> e, tag |-> t]

Stage == {"idle", "model", "head", "changes", "plan", "bake", "file",
          "upload", "compose", "urls", "done", "failed"}

TypeOK ==
  /\ now \in 0 .. MaxTime /\ edits \in Version /\ ups \in 0 .. MaxUps
  /\ image \in {None, Own}
  /\ source.web \in Version /\ source.conf.content \in Version
  /\ head # None => head.web \in Version /\ head.conf \in Version
  /\ dir # None => dir.build = None \/ dir.build \in Tag
  /\ \A i \in registry : i.tag \in ImageRef /\ i.content \in Version
  /\ \A e \in Env : host[e].agent \in {"none", "starting", "unready", "stable"}
  /\ \A c \in Cli :
       /\ up[c].at \in Stage /\ up[c].env \in Env \cup {None}
       /\ up[c].tag = None \/ up[c].tag \in Tag
       /\ up[c].left \subseteq File /\ up[c].tries \in 0 .. MaxAttempts
       /\ \A i \in 1 .. Len(up[c].queue) : up[c].queue[i].name \in File
  /\ overlapped \subseteq Cli

Idle ==
  [at |-> "idle", env |-> None, build |-> "none", skip |-> FALSE,
   number |-> 0, tag |-> None, built |-> None, walked |-> NoFile, known |-> [f \in File |-> NoFile],
   left |-> {}, queue |-> <<>>, tries |-> 0, why |-> None]

NewHost == [images |-> {}, files |-> [f \in File |-> NoFile], running |-> None,
            agent |-> "none"]

\* Somebody has pushed an image of the name that the service may have.
Init ==
  /\ now = 0 /\ edits = 0 /\ ups = 0
  /\ source = [web |-> 0, conf |-> [content |-> 0, mtime |-> 0, size |-> 1]]
  /\ head \in {None, [of |-> 0, web |-> 0, conf |-> 0]}
  /\ image \in {None, Own}
  /\ registry = {[tag |-> Own, content |-> 0]}
  /\ dir = None
  /\ host = [e \in Env |-> NewHost]
  /\ up = [c \in Cli |-> Idle]
  /\ overlapped = {}

-----------------------------------------------------------------------------
(* Commands *)

At(c, stage) == up[c].at = stage

Go(c, stage) == up' = [up EXCEPT ![c].at = stage]

\* The command ends; what it knew is gone.
Done(c) == up' = [up EXCEPT ![c] = [Idle EXCEPT !.at = "done"]]

Fail(c, why) ==
  up' = [up EXCEPT ![c] = [Idle EXCEPT !.at = "failed", !.why = why, !.tries = up[c].tries]]

Finished == {c \in Cli : up[c].at \in {"done", "failed"}}

Active == {c \in Cli : up[c].at \notin {"idle", "done", "failed"}}

-----------------------------------------------------------------------------
(* The user, and time *)

Used(e) == host[e] # NewHost \/ \E c \in Active : up[c].env = e

\* Bounds: a behaviour has commands that overlap, or a user who edits, or a service
\* that names an image, or a repository; and time passes where there is one
\* environment.
Quiet == overlapped = {}

Tick ==
  /\ Quiet /\ now < MaxTime /\ \A e, f \in Env : Used(e) /\ Used(f) => e = f
  /\ now' = now + 1
  /\ UNCHANGED <<tree, dir, registry, host, up, ups, overlapped>>

Edit ==
  /\ Quiet /\ edits < MaxEdits
  /\ edits' = edits + 1
  /\ \/ source' = [source EXCEPT !.web = edits']
     \/ \E s \in 1 .. 2 :
          source' = [source EXCEPT !.conf = [content |-> edits', mtime |-> now, size |-> s]]
  /\ UNCHANGED <<now, image, head, dir, registry, host, up, ups, overlapped>>

\* A commit of the whole tree, numbered by the last edit in it.
Commit ==
  /\ Quiet /\ head # None /\ head.of # edits
  /\ head' = [of |-> edits, web |-> source.web, conf |-> source.conf.content]
  /\ UNCHANGED <<now, edits, image, source, dir, registry, host, up, ups, overlapped>>

-----------------------------------------------------------------------------
(* The local directory and the model of the environment *)

Outside == UNCHANGED <<now, tree, ups, overlapped>>

\* The command starts, and removes the local directory of the project.  Its
\* flags are chosen where they are read.  Bound: it takes the place of one that has
\* ended, if there is one.
Begin(c, e) ==
  /\ c \notin Active /\ ups < MaxUps /\ (Finished # {} => c \in Finished)
  /\ Active # {} => edits = 0 /\ now = 0 /\ image = None /\ head = None
  /\ (\E f \in Env \ {e} : Used(f)) => now = 0
  /\ ups' = ups + 1
  /\ dir' = None
  /\ up' = [up EXCEPT ![c] = [Idle EXCEPT !.at = "model", !.env = e, !.number = ups']]
  /\ overlapped' = IF Active = {} THEN overlapped \ {c}
                   ELSE overlapped \cup Active \cup {c}
  /\ UNCHANGED <<now, tree, registry, host>>

\* createCopiedFile makes the directory if it is not there.
Copied(name, content) ==
  LET d == IF dir = None THEN [keys |-> NoFile, compose |-> NoFile, build |-> None] ELSE dir
  IN [d EXCEPT ![name] = [content |-> content, mtime |-> now, size |-> 1]]

\* The model is read, the file it mounts is found, and the keys are written.
\* The images of the model are tagged only if there is a build.
RemoteModel(c, b) ==
  /\ At(c, "model")
  /\ dir' = Copied("keys", "keys")
  /\ up' = [up EXCEPT ![c].left = {"conf", "keys"}, ![c].build = b,
                      ![c].at = IF b = "none" THEN "file" ELSE "head"]
  /\ UNCHANGED <<registry, host>> /\ Outside

-----------------------------------------------------------------------------
(* The build *)

\* The first part of a tag: the commit.  Outside of a repository it is random.
TagHead(c) ==
  /\ At(c, "head")
  /\ up' = IF head = None
           THEN [up EXCEPT ![c].tag = [of |-> MaxEdits + up[c].number, changed |-> {}],
                           ![c].at = "plan"]
           ELSE [up EXCEPT ![c].tag = [of |-> head.of, changed |-> {}], ![c].at = "changes"]
  /\ UNCHANGED <<dir, registry, host>> /\ Outside

\* The second part: a hash of what `git diff-index HEAD` prints.  It names the
\* changed files, and prints zeros for the hash of one that was not added.
LocalChanges == (IF source.web # head.web THEN {"web"} ELSE {})
                \cup (IF source.conf.content # head.conf THEN {"conf"} ELSE {})

TagChanges(c) ==
  /\ At(c, "changes")
  /\ up' = [up EXCEPT ![c].tag.changed = LocalChanges, ![c].at = "plan"]
  /\ UNCHANGED <<dir, registry, host>> /\ Outside

\* The build file is written to the directory, which has to be there.
WriteBuild(c) ==
  /\ At(c, "plan")
  /\ IF dir = None THEN Fail(c, "error") /\ UNCHANGED dir
     ELSE Go(c, "bake") /\ dir' = [dir EXCEPT !.build = up[c].tag]
  /\ UNCHANGED <<registry, host>> /\ Outside

Tagged(images, names, v) ==
  {i \in images : i.tag \notin names} \cup {[tag |-> n, content |-> v] : n \in names}

Has(images, n) == \E i \in images : i.tag = n

ImageOf(images, n) == (CHOOSE i \in images : i.tag = n).content

\* Mutant of BakeImage: an image that has the tag is not built again.
BakeImageOnce(images, names) ==
  Tagged(images, {n \in names : ~Has(images, n)}, source.web)

BakeImage(images, names) == Tagged(images, names, source.web)

\* docker buildx bake builds what the build file says of the context as it is
\* now, on the machine's docker, and leaves the image there or pushes it.  The
\* build file has the tags, and the name of the service's own image: whether the
\* image gets that name too is left to buildx.
Bake(c) ==
  /\ At(c, "bake")
  /\ LET e == up[c].env t == IF dir = None THEN None ELSE dir.build IN
     IF t = None THEN Fail(c, "error") /\ UNCHANGED <<registry, host>>
     ELSE /\ up' = [up EXCEPT ![c].built = source.web, ![c].at = "file"]
          /\ \E names \in {{t}, {t, image} \ {None}} :
               IF up[c].build = "push"
               THEN registry' = BakeImage(registry, names) /\ UNCHANGED host
               ELSE /\ host' = [host EXCEPT ![e].images = BakeImage(@, names)]
                    /\ UNCHANGED registry
  /\ UNCHANGED dir /\ Outside

\* The image that the command deploys: the one that the service names, or else
\* the one that the build is tagged for; none when there is neither.
ImageName(c) == IF image # None THEN image ELSE up[c].tag

\* Mutant of DeployModel: always the image of the build.
DeployModelBuilt(c) == Model(up[c].env, up[c].tag)

DeployModel(c) == Model(up[c].env, ImageName(c))

\* The compose file is the last of the files to copy.  With
\* --skip-unchanged-files the remote files are listed before the walk.
WriteCompose(c, skip) ==
  /\ At(c, "file")
  /\ dir' = Copied("compose", DeployModel(c))
  /\ up' = [up EXCEPT ![c].left = @ \cup {"compose"}, ![c].at = "upload", ![c].skip = skip,
                      ![c].known = IF skip THEN host[up[c].env].files ELSE @]
  /\ UNCHANGED <<registry, host>> /\ Outside

-----------------------------------------------------------------------------
(* The upload *)

Local(f) == IF f = "conf" THEN source.conf ELSE IF dir = None THEN NoFile ELSE dir[f]

\* Mutant of Unchanged: files of the same size are the same.
UnchangedSize(f, k) == f.size = k.size

Unchanged(f, k) == f.mtime = k.mtime /\ f.size = k.size

\* The walker stats a file and puts it in the chain of the archive's entries.
Walk(c, f) ==
  /\ At(c, "upload") /\ f \in up[c].left
  /\ LET s == Local(f) IN
     IF s = NoFile THEN Fail(c, "error")
     ELSE up' = [up EXCEPT ![c].left = @ \ {f}, ![c].walked = IF f = "conf" THEN s ELSE @,
                           ![c].queue =
                   IF Unchanged(s, up[c].known[f]) THEN @
                   ELSE Append(@, [name |-> f, mtime |-> s.mtime, size |-> s.size])]
  /\ UNCHANGED <<dir, registry, host>> /\ Outside

\* The next entry is read, which may be later: of another size it breaks the
\* archive.  The machine unpacks it with the time of the entry's header.
AddEntry(c) ==
  /\ At(c, "upload") /\ up[c].queue # <<>>
  /\ LET h == Head(up[c].queue) s == Local(h.name) e == up[c].env IN
     IF s.size # h.size THEN Fail(c, "error") /\ UNCHANGED host
     ELSE /\ up' = [up EXCEPT ![c].queue = Tail(@)]
          /\ host' = [host EXCEPT ![e].files[h.name] = [s EXCEPT !.mtime = h.mtime]]
  /\ UNCHANGED <<dir, registry>> /\ Outside

\* The walk is over, and finalize is the last in the chain.
Uploaded(u) == u.left = {} /\ u.queue = <<>>

Finalize(c) ==
  /\ At(c, "upload") /\ Uploaded(up[c])
  /\ Go(c, "compose")
  /\ UNCHANGED <<dir, registry, host>> /\ Outside

-----------------------------------------------------------------------------
(* docker compose up *)

\* Containers whose configuration or image has changed are created anew; that
\* of the agent always is, its environment has the time of the deploy.
Run(h, m, v) == [model |-> m, image |-> v]

\* An image that the machine has is not pulled, and with --no-build none is built.
ComposeUp(c) ==
  /\ At(c, "compose")
  /\ LET e == up[c].env h == host[e]
         m == IF dir = None THEN None ELSE dir.compose.content
         Deployed(images, v) ==
           /\ host' = [host EXCEPT ![e].images = images, ![e].running = Run(h, m, v),
                                   ![e].agent = "starting"]
           /\ Go(c, "urls") IN
     IF m = None \/ m.tag = None THEN Fail(c, "error") /\ UNCHANGED host
     ELSE IF Has(h.images, m.tag) THEN Deployed(h.images, ImageOf(h.images, m.tag))
     ELSE IF Has(registry, m.tag)
     THEN LET v == ImageOf(registry, m.tag) IN Deployed(Tagged(h.images, {m.tag}, v), v)
     ELSE Fail(c, "error") /\ UNCHANGED host
  /\ UNCHANGED <<dir, registry>> /\ Outside

-----------------------------------------------------------------------------
(* The agent and its answers *)

AgentStep(e) ==
  /\ \/ host[e].agent = "starting" /\ host' = [host EXCEPT ![e].agent = "unready"]
     \/ host[e].agent = "unready" /\ host' = [host EXCEPT ![e].agent = "stable"]
  /\ UNCHANGED <<dir, registry, up>> /\ Outside

\* An answer of an agent that is not stable ends a command that waits.
Answered(c, wait, agent) ==
  IF wait /\ agent # "stable" THEN Fail(c, "unready") ELSE Done(c)

\* The agent is asked again when it does not answer.
QueryTunnels(c, wait) ==
  /\ At(c, "urls")
  /\ LET agent == host[up[c].env].agent IN
     IF agent # "starting" THEN Answered(c, wait, agent)
     ELSE IF up[c].tries < MaxAttempts THEN up' = [up EXCEPT ![c].tries = @ + 1]
     ELSE Fail(c, "silent")
  /\ UNCHANGED <<dir, registry, host>> /\ Outside

-----------------------------------------------------------------------------

Next ==
  \/ Tick \/ Edit \/ Commit
  \/ \E c \in Cli, e \in Env : Begin(c, e)
  \/ \E c \in Cli :
       \/ (\E b \in Build : RemoteModel(c, b)) \/ TagHead(c) \/ TagChanges(c)
       \/ WriteBuild(c) \/ Bake(c) \/ (\E skip \in BOOLEAN : WriteCompose(c, skip))
       \/ (\E f \in File : Walk(c, f)) \/ AddEntry(c) \/ Finalize(c) \/ ComposeUp(c)
       \/ (\E wait \in BOOLEAN : QueryTunnels(c, wait))
  \/ \E e \in Env : AgentStep(e)

Spec == Init /\ [][Next]_vars

-----------------------------------------------------------------------------
(* Properties *)

\* A command that shared the local directory with no other one.
Alone(c) == c \notin overlapped

\* When docker compose starts containers, every file they mount is on the
\* machine, and none is older than what the command found when it walked the
\* files: the archive is complete, and what it left out as unchanged was.  Of two
\* versions of one size and one second the filter cannot tell the newer one.
UploadedBeforeUp ==
  \A c \in Cli : (At(c, "compose") /\ Alone(c)) =>
    LET there == host[up[c].env].files w == up[c].walked IN
    /\ \A f \in File : there[f] # NoFile
    /\ \/ there["conf"].content >= w.content
       \/ up[c].skip /\ there["conf"].size = w.size /\ there["conf"].mtime = w.mtime

\* A command that ran alone leaves its environment with the model it made for it,
\* with the image that the service names or else that of its own build: not with
\* what an earlier command, of this environment or of another one, left in the
\* directory they share.
OwnModel ==
  \A c \in Cli : (At(c, "urls") /\ Alone(c)) =>
    LET r == host[up[c].env].running IN
    r.model.env = up[c].env /\ r.model.tag = ImageName(c)

\* Of a service that names no image, the image that is built on the machine is the
\* one that runs, and so is one with a random tag: what was there under the same
\* tag is gone.  A service that names an image runs what has that name.
FreshImage ==
  \A c \in Cli : (/\ At(c, "urls") /\ Alone(c) /\ image = None
                  /\ up[c].build = "load" \/ (up[c].build = "push" /\ head = None)) =>
    host[up[c].env].running.image = up[c].built

\* Documented, and not so, even of a service that names no image: what runs is what
\* the command has built.  A registry gets the new image, but a machine that has
\* one with its tag does not pull.
RunsWhatWasBuilt ==
  \A c \in Cli : (At(c, "urls") /\ Alone(c) /\ image = None /\ up[c].build = "push") =>
    host[up[c].env].running.image = up[c].built

\* Documented, and not so: --wait waits for all tunnels to be ready.  The agent
\* is asked again if it does not answer, but not if it answers that it is not.
WaitsForTunnels ==
  \A c \in Cli : (At(c, "failed") /\ up[c].why = "unready") => up[c].tries = MaxAttempts
=============================================================================
