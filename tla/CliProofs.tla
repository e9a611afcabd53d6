------------------------------ MODULE CliProofs ------------------------------
(****************************************************************************)
(* Proofs about the steps of a command of the CLI, for any commands of a    *)
(* host, environments, edits, commits, branches and flags, and for          *)
(* behaviours of any length.                                                *)
(*                                                                          *)
(* `preevy up` on a machine that is there: what a command that shares the   *)
(* local directory with no other one finds there is what it wrote; what it  *)
(* uploads arrives; and the image it has built is told from all others by   *)
(* its tag.  Flags of drivers, telemetry, and comments on pull requests.    *)
(****************************************************************************)
EXTENDS Deploy, Telemetry, PullRequests, DriverFlags,
        FiniteSetTheorems, WellFoundedInduction, TLAPS

PrSpec == PrInit /\ [][PrNext]_prVars

TelemetrySpec == TelemetryInit /\ [][TelemetryNext]_telemetryVars

FlagsSpec == FlagsInit /\ [][FlagsNext]_flagVars

-----------------------------------------------------------------------------
(* Up on a machine: the inductive invariant *)

Image == [tag : ImageRef, content : Version]

ModelOf == [env : Env, tag : ImageRef \cup {None}]

Content == Version \cup ModelOf \cup {"keys", None}

Found == [content : Content, mtime : Nat, size : Nat \ {0}]

FileInfo == Found \cup {NoFile}

Dir == [keys : FileInfo, compose : FileInfo, build : Tag \cup {None}]

Running == [model : ModelOf, image : Version]

Host == [images : SUBSET Image, files : [File -> FileInfo], running : Running \cup {None},
         agent : {"none", "starting", "unready", "stable"}]

Entry == [name : File, mtime : Nat, size : Nat \ {0}]

Command ==
  [at : Stage, env : Env \cup {None}, build : {"none", "load", "push"}, skip : BOOLEAN,
   number : Nat, tag : Tag \cup {None}, built : Version \cup {None}, walked : FileInfo,
   known : [File -> FileInfo], left : SUBSET File, queue : Seq(Entry),
   tries : 0 .. MaxAttempts, why : {"error", "unready", "silent", None}]

Working == [web : Version, conf : [content : Version, mtime : Nat, size : Nat \ {0}]]

TreeOK ==
  /\ now \in 0 .. MaxTime /\ edits \in Version /\ ups \in 0 .. MaxUps
  /\ source \in Working /\ source.conf.content <= edits
  /\ head # None => head \in [of : Version, web : Version, conf : Version]
  /\ image \in {None, Own}
  /\ overlapped \subseteq Cli

StateOK ==
  /\ dir # None => dir \in Dir /\ dir.compose.content \in ModelOf \cup {None}
  /\ registry \subseteq Image
  /\ host \in [Env -> Host]

\* Tags are of commits, or of commands that have started.
TagsOK ==
  /\ \A i \in registry : i.tag \in Tag => i.tag.of <= MaxEdits + ups
  /\ \A e \in Env : \A i \in host[e].images : i.tag \in Tag => i.tag.of <= MaxEdits + ups
  /\ dir # None /\ dir.build # None => dir.build.of <= MaxEdits + ups

Before == {"model", "head", "changes", "plan", "bake"}

After == {"file", "upload", "compose"}

\* A command that runs has an environment, and a tag if it builds.  Until the
\* upload it knows of nothing on the machine.
CommandOK(c) ==
  c \in Active =>
    /\ up[c].env \in Env /\ up[c].number <= ups
    /\ At(c, "model") => up[c].tag = None
    /\ up[c].at \in {"head", "changes", "plan", "bake"} => up[c].build # "none"
    /\ up[c].at \in {"changes", "plan", "bake"} => up[c].tag # None
    /\ up[c].at \in After \cup {"urls"} => ((up[c].build = "none") <=> (up[c].tag = None))
    /\ up[c].at \in Before \cup {"file"} =>
         up[c].queue = <<>> /\ \A f \in File : up[c].known[f] = NoFile
    /\ up[c].at \in (Before \ {"model"}) \cup {"file"} => up[c].left = {"conf", "keys"}
    /\ up[c].tag # None => /\ up[c].tag.of <= MaxEdits + ups
                           /\ head = None => up[c].tag.of = MaxEdits + up[c].number

\* In the directory is what the command has written there.
DirOK(c) ==
  dir # None =>
    /\ At(c, "bake") => dir.build = up[c].tag
    /\ up[c].at \in {"upload", "compose"} => dir.compose.content = Model(up[c].env, ImageName(c))

Names(queue) == {queue[i].name : i \in DOMAIN queue}

Queued(c, f) == f \in Names(up[c].queue)

\* The machine has what was found of the file, or what it may be taken for.
There(c, f) ==
  LET there == host[up[c].env].files[f] w == up[c].walked IN
  /\ there.size > 0
  /\ f = "conf" => \/ there.content \in Version /\ there.content >= w.content
                   \/ up[c].skip /\ there.size = w.size /\ there.mtime = w.mtime

FilesOK(c) ==
  up[c].at \in {"upload", "compose"} =>
    /\ \A f \in File : f \in up[c].left \/ Queued(c, f) \/ There(c, f)
    /\ \A f \in up[c].left :
         up[c].known[f].size > 0 => up[c].skip /\ up[c].known[f] = host[up[c].env].files[f]
    /\ "conf" \notin up[c].left =>
         up[c].walked.content \in Version /\ up[c].walked.content <= source.conf.content
    /\ \A f \in up[c].left : ~Queued(c, f)
    /\ At(c, "compose") => up[c].left = {} /\ up[c].queue = <<>>

\* The only image of the tag is the one that was built.
Only(images, t, v) == Has(images, t) /\ \A i \in images : i.tag = t => i.content = v

ImageOK(c) ==
  LET images == host[up[c].env].images IN
  /\ up[c].at \in After /\ up[c].build = "load" => Only(images, up[c].tag, up[c].built)
  /\ up[c].at \in After /\ up[c].build = "push" => Only(registry, up[c].tag, up[c].built)
  /\ head = None /\ (up[c].at \in Before \/ (up[c].at \in After /\ up[c].build = "push")) =>
       \A i \in images : i.tag \in Tag => i.tag.of # MaxEdits + up[c].number

RunningOK(c) ==
  LET running == host[up[c].env].running IN
  At(c, "urls") =>
    /\ running.model = Model(up[c].env, ImageName(c))
    /\ (image = None /\ (up[c].build = "load" \/ (up[c].build = "push" /\ head = None))) =>
         running.image = up[c].built

AloneOK(c) == DirOK(c) /\ FilesOK(c) /\ ImageOK(c) /\ RunningOK(c)

DeployInv ==
  /\ TreeOK /\ StateOK /\ TagsOK
  /\ up \in [Cli -> Command]
  /\ \A c \in Cli : CommandOK(c)
  /\ \A c \in Active \ overlapped : Active = {c} /\ AloneOK(c)

-----------------------------------------------------------------------------
(* Files, commands and what they leave *)

\* A file that was found has a size, and only of one that was not is nothing known.
LEMMA FileFacts ==
  ASSUME NEW f \in FileInfo
  PROVE  /\ f.size \in Nat /\ f.mtime \in Nat
         /\ f.size = 0 <=> f = NoFile
         /\ f # NoFile => f \in Found
  <1>1. CASE f = NoFile
    BY <1>1 DEF NoFile, Found
  <1>2. CASE f \in Found
    BY <1>2 DEF NoFile, Found
  <1>. QED BY <1>1, <1>2 DEF FileInfo

LEMMA NoFileIsInfo == NoFile \in FileInfo
  BY DEF FileInfo

LEMMA IdleIsCommand == Idle \in Command
  <1>1. [f \in File |-> NoFile] \in [File -> FileInfo]
    BY NoFileIsInfo
  <1>2. <<>> \in Seq(Entry)
    OBVIOUS
  <1>. QED BY <1>1, <1>2, NoFileIsInfo, DeployAssumption DEF Idle, Command, Stage, File

LEMMA Updated ==
  ASSUME NEW c \in Cli, NEW u \in Command, up \in [Cli -> Command],
         up' = [up EXCEPT ![c] = u]
  PROVE  /\ up' \in [Cli -> Command] /\ up'[c] = u
         /\ \A x \in Cli \ {c} : up'[x] = up[x]
  OBVIOUS

\* The image that a command deploys is the same as long as its tag is.
LEMMA NameStays ==
  ASSUME NEW c \in Cli, up'[c].tag = up[c].tag, Outside
  PROVE  ImageName(c)' = ImageName(c) /\ head' = head /\ image' = image
  BY DEF ImageName, Outside, tree

\* What is true of a command stays true of it while others work.
LEMMA CommandStays ==
  ASSUME NEW x \in Cli, CommandOK(x), up'[x] = up[x], head' = None => head = None,
         ups \in Nat, ups' \in Nat, ups <= ups', up[x] \in Command
  PROVE  CommandOK(x)'
  <1>1. up[x].number \in Nat /\ (up[x].tag # None => up[x].tag \in Tag)
    BY DEF Command
  <1>2. up[x].tag # None => up[x].tag.of \in Nat
    BY <1>1 DEF Tag
  <1>. QED BY <1>1, <1>2, DeployAssumption DEF CommandOK, Active, At

\* The command c goes on with u.
Works(c, u) ==
  /\ c \in Active /\ u \in Command
  /\ up' = [up EXCEPT ![c] = u]
  /\ Outside

\* If it still runs then no other command does.
LEMMA WorkKeepsInv ==
  ASSUME DeployInv, NEW c \in Cli, NEW u, Works(c, u),
         StateOK', TagsOK', CommandOK(c)',
         (Active = {c} /\ c \in Active' /\ c \notin overlapped /\ AloneOK(c)) => AloneOK(c)'
  PROVE  DeployInv'
  <1>1. /\ up' \in [Cli -> Command] /\ up'[c] = u
        /\ \A x \in Cli \ {c} : up'[x] = up[x]
    BY Updated DEF DeployInv, Works
  <1>2. TreeOK'
    BY DEF DeployInv, Works, Outside, tree, TreeOK
  <1>3. ASSUME NEW x \in Cli PROVE CommandOK(x)'
    <2>1. CASE x = c
      BY <2>1
    <2>2. CASE x # c
      <3>1. /\ CommandOK(x) /\ up'[x] = up[x] /\ head' = head /\ ups' = ups
            /\ ups \in Nat /\ up[x] \in Command
        BY <2>2, <1>1, DeployAssumption DEF DeployInv, Works, Outside, tree, TreeOK
      <3>. QED BY <3>1, CommandStays
    <2>. QED BY <2>1, <2>2
  <1>4. ASSUME NEW x \in (Active \ overlapped)'
        PROVE  Active' = {x} /\ AloneOK(x)'
    <2>1. overlapped' = overlapped /\ c \in Active
      BY DEF Works, Outside
    <2>2. x \in Cli /\ x \in Active /\ x \notin overlapped
      BY <1>1, <1>4, <2>1 DEF Active
    <2>3. Active = {x} /\ AloneOK(x)
      BY <2>2 DEF DeployInv
    <2>4. x = c /\ c \in Active'
      BY <2>1, <2>3, <1>4
    <2>5. Active' = {x}
      BY <2>3, <2>4, <1>1 DEF Active
    <2>. QED BY <2>2, <2>3, <2>4, <2>5
  <1>. QED BY <1>1, <1>2, <1>3, <1>4 DEF DeployInv

LEMMA WorldStays ==
  ASSUME DeployInv, UNCHANGED <<dir, registry, host, ups>>
  PROVE  StateOK' /\ TagsOK'
  BY DEF DeployInv, StateOK, TagsOK

\* A command that has ended is none of those that run.
LEMMA EndOfCommand ==
  ASSUME DeployInv, NEW c \in Cli, c \in Active, StateOK', TagsOK', Outside,
         Done(c) \/ \E why \in {"error", "unready", "silent"} : Fail(c, why)
  PROVE  DeployInv'
  <1>1. ASSUME NEW u \in Command, u.at \in {"done", "failed"}, up' = [up EXCEPT ![c] = u]
        PROVE  DeployInv'
    <2>1. up'[c] = u
      BY <1>1 DEF DeployInv
    <2>2. c \notin Active' /\ Works(c, u)
      BY <2>1, <1>1 DEF Active, Works
    <2>3. CommandOK(c)'
      BY <2>2 DEF CommandOK
    <2>. QED BY <2>2, <2>3, WorkKeepsInv
  <1>2. CASE Done(c)
    <2>. DEFINE u == [Idle EXCEPT !.at = "done"]
    <2>1. u \in Command /\ u.at = "done"
      BY IdleIsCommand DEF Command, Stage, Idle
    <2>. QED BY <2>1, <1>1, <1>2 DEF Done
  <1>3. ASSUME NEW why \in {"error", "unready", "silent"}, Fail(c, why) PROVE DeployInv'
    <2>. DEFINE u == [Idle EXCEPT !.at = "failed", !.why = why, !.tries = up[c].tries]
    <2>1. up[c].tries \in 0 .. MaxAttempts
      BY DEF DeployInv, Command
    <2>2. u \in Command /\ u.at = "failed"
      BY <2>1, IdleIsCommand DEF Command, Stage, Idle
    <2>. QED BY <2>2, <1>1, <1>3 DEF Fail
  <1>. QED BY <1>2, <1>3

LEMMA CommandFacts ==
  ASSUME DeployInv, NEW c \in Cli, c \in Active
  PROVE  /\ up[c] \in Command /\ up[c].env \in Env /\ CommandOK(c)
         /\ Active = {c} /\ c \notin overlapped => AloneOK(c)
  BY DEF DeployInv, CommandOK

-----------------------------------------------------------------------------
(* The user, and the start of a command *)

LEMMA InitKeepsDeploy == Init => DeployInv
  <1>. SUFFICES ASSUME Init PROVE DeployInv
    OBVIOUS
  <1>1. TreeOK
    BY DeployAssumption DEF Init, TreeOK, Version, Working
  <1>2. NewHost \in Host
    <2>1. [f \in File |-> NoFile] \in [File -> FileInfo]
      BY NoFileIsInfo
    <2>. QED BY <2>1 DEF NewHost, Host
  <1>3. StateOK
    <2>1. registry \subseteq Image
      BY DeployAssumption DEF Init, Image, ImageRef, Version
    <2>. QED BY <1>2, <2>1 DEF Init, StateOK
  <1>4. TagsOK
    <2>1. \A i \in registry : i.tag \notin Tag
      BY DeployAssumption DEF Init
    <2>. QED BY <2>1 DEF Init, TagsOK, NewHost
  <1>5. up \in [Cli -> Command]
    BY IdleIsCommand DEF Init
  <1>6. Active = {}
    BY DEF Init, Active, Idle
  <1>. QED BY <1>1, <1>3, <1>4, <1>5, <1>6 DEF DeployInv, CommandOK

LEMMA TickKeepsDeploy ==
  ASSUME DeployInv, Tick
  PROVE  DeployInv'
  <1>1. TreeOK' /\ StateOK' /\ TagsOK' /\ up' \in [Cli -> Command]
    BY DeployAssumption DEF DeployInv, Tick, tree, TreeOK, StateOK, TagsOK
  <1>2. \A c \in Cli : CommandOK(c)'
    BY DEF DeployInv, Tick, tree, CommandOK, Active, At
  <1>3. Active' = Active /\ overlapped' = overlapped
    BY DEF Tick, tree, Active
  <1>4. \A c \in Active \ overlapped : AloneOK(c)'
    BY DEF DeployInv, Tick, tree, AloneOK, DirOK, FilesOK, ImageOK, RunningOK, ImageName, At, There,
           Queued, Only, Has
  <1>. QED BY <1>1, <1>2, <1>3, <1>4 DEF DeployInv

LEMMA EditKeepsDeploy ==
  ASSUME DeployInv, Edit
  PROVE  DeployInv'
  <1>. edits \in Nat /\ edits' \in Version /\ edits' = edits + 1
    BY DeployAssumption DEF DeployInv, Edit, TreeOK, Version
  <1>1. /\ source' \in Working /\ source'.conf.content <= edits'
        /\ source'.conf.content >= source.conf.content
    <2>. source \in Working /\ source.conf.content <= edits /\ now \in Nat
      BY DEF DeployInv, TreeOK
    <2>1. CASE source' = [source EXCEPT !.web = edits']
      BY <2>1 DEF Working, Version
    <2>2. ASSUME NEW s \in 1 .. 2,
                 source' = [source EXCEPT !.conf = [content |-> edits', mtime |-> now, size |-> s]]
          PROVE  /\ source' \in Working /\ source'.conf.content <= edits'
                 /\ source'.conf.content >= source.conf.content
      BY <2>2 DEF Working, Version
    <2>. QED BY <2>1, <2>2 DEF Edit
  <1>2. TreeOK'
    BY <1>1 DEF DeployInv, Edit, TreeOK
  <1>3. StateOK' /\ TagsOK' /\ up' \in [Cli -> Command]
    BY DEF DeployInv, Edit, StateOK, TagsOK
  <1>4. \A c \in Cli : CommandOK(c)'
    BY DEF DeployInv, Edit, CommandOK, Active, At
  <1>5. Active' = Active /\ overlapped' = overlapped
    BY DEF Edit, Active
  <1>6. ASSUME NEW c \in Active \ overlapped
        PROVE  AloneOK(c)'
    <2>1. AloneOK(c)
      BY DEF DeployInv
    <2>2. DirOK(c)' /\ ImageOK(c)' /\ RunningOK(c)'
      BY <2>1 DEF Edit, AloneOK, DirOK, ImageOK, RunningOK, ImageName, At, Only, Has
    <2>3. FilesOK(c)'
      <3>1. source.conf.content \in Nat /\ source'.conf.content \in Nat
        BY <1>1 DEF DeployInv, TreeOK, Working, Version
      <3>2. \A k \in Version : k <= source.conf.content => k <= source'.conf.content
        BY <3>1, <1>1 DEF Version
      <3>3. UNCHANGED <<up, host>>
        BY DEF Edit
      <3>4. \A f \in File : (Queued(c, f)' <=> Queued(c, f)) /\ (There(c, f)' <=> There(c, f))
        <4>1. \A f \in File : Queued(c, f)' <=> Queued(c, f)
          BY <3>3 DEF Queued, Names
        <4>2. \A f \in File : There(c, f)' <=> There(c, f)
          BY <3>3 DEF There
        <4>. QED BY <4>1, <4>2
      <3>5. up[c].left \subseteq File
        BY DEF DeployInv, Active, Command
      <3>. QED BY <2>1, <3>2, <3>3, <3>4, <3>5 DEF AloneOK, FilesOK, At
    <2>. QED BY <2>2, <2>3 DEF AloneOK
  <1>. QED BY <1>2, <1>3, <1>4, <1>5, <1>6 DEF DeployInv

LEMMA CommitKeepsDeploy ==
  ASSUME DeployInv, Commit
  PROVE  DeployInv'
  <1>1. head # None /\ head' \in [of : Version, web : Version, conf : Version] /\ head' # None
    <2>1. head' \in [of : Version, web : Version, conf : Version]
      BY DEF DeployInv, Commit, TreeOK, Working
    <2>2. head' \in Commits
      BY <2>1 DEF Commits, Version
    <2>. QED BY <2>1, <2>2, DeployAssumption DEF Commit
  <1>2. TreeOK'
    BY <1>1 DEF DeployInv, Commit, TreeOK
  <1>3. StateOK' /\ TagsOK' /\ up' \in [Cli -> Command]
    BY DEF DeployInv, Commit, StateOK, TagsOK
  <1>4. \A c \in Cli : CommandOK(c)'
    BY <1>1 DEF DeployInv, Commit, CommandOK, Active, At
  <1>5. Active' = Active /\ overlapped' = overlapped
    BY DEF Commit, Active
  <1>6. \A c \in Active \ overlapped : AloneOK(c)'
    BY <1>1 DEF DeployInv, Commit, AloneOK, DirOK, FilesOK, ImageOK, RunningOK, ImageName, At, There,
                Queued, Only, Has
  <1>. QED BY <1>2, <1>3, <1>4, <1>5, <1>6 DEF DeployInv

\* A tag has the number of a command only if that has started.
LEMMA BeginKeepsDeploy ==
  ASSUME DeployInv, NEW c \in Cli, NEW e \in Env, Begin(c, e)
  PROVE  DeployInv'
  <1>. DEFINE u == [Idle EXCEPT !.at = "model", !.env = e, !.number = ups']
  <1>1. ups \in Nat /\ ups' = ups + 1 /\ ups' \in 0 .. MaxUps /\ ups' \in Nat
    BY DeployAssumption DEF DeployInv, TreeOK, Begin
  <1>2. u \in Command
    BY <1>1, IdleIsCommand DEF Command, Stage, Idle
  <1>3. /\ up' \in [Cli -> Command] /\ up'[c] = u
        /\ \A x \in Cli \ {c} : up'[x] = up[x]
    BY <1>2, Updated DEF DeployInv, Begin
  <1>4. /\ u.at = "model" /\ u.env = e /\ u.number = ups' /\ u.tag = None
        /\ u.queue = <<>> /\ u.known = [f \in File |-> NoFile]
    BY DEF Idle
  <1>5. Active' = Active \cup {c} /\ c \notin Active
    BY <1>3, <1>4 DEF Active, Begin
  <1>6. TreeOK'
    BY <1>1 DEF DeployInv, Begin, tree, TreeOK, Active
  <1>7. StateOK'
    BY DEF DeployInv, Begin, StateOK
  <1>8. TagsOK'
    <2>. host \in [Env -> Host] /\ registry \subseteq Image
      BY DEF DeployInv, StateOK
    <2>1. \A i \in Image : i.tag \in Tag => i.tag.of \in Nat
      BY DEF Image, Tag
    <2>2. \A i \in registry : i.tag \in Tag => i.tag.of <= MaxEdits + ups'
      BY <2>1, <1>1, DeployAssumption DEF DeployInv, TagsOK
    <2>3. \A x \in Env : \A i \in host[x].images : i \in Image
      BY DEF Host
    <2>4. \A x \in Env : \A i \in host[x].images :
            i.tag \in Tag => i.tag.of <= MaxEdits + ups'
      BY <2>1, <2>3, <1>1, DeployAssumption DEF DeployInv, TagsOK
    <2>. QED BY <2>2, <2>4 DEF Begin, TagsOK
  <1>9. ASSUME NEW x \in Cli PROVE CommandOK(x)'
    <2>1. CASE x = c
      BY <2>1, <1>1, <1>3, <1>4 DEF CommandOK, At, Before, After
    <2>2. CASE x # c
      <3>1. /\ CommandOK(x) /\ up'[x] = up[x] /\ head' = head /\ ups' \in Nat /\ ups <= ups'
            /\ up[x] \in Command
        BY <2>2, <1>1, <1>3 DEF DeployInv, Begin, tree
      <3>. QED BY <3>1, <1>1, CommandStays
    <2>. QED BY <2>1, <2>2
  <1>10. ASSUME NEW x \in (Active \ overlapped)'
         PROVE  Active' = {x} /\ AloneOK(x)'
    <2>1. Active = {} /\ x = c
      BY <1>5, <1>10 DEF Begin
    <2>2. DirOK(c)' /\ FilesOK(c)' /\ RunningOK(c)'
      BY <1>3, <1>4 DEF Begin, DirOK, FilesOK, RunningOK, At
    <2>3. ImageOK(c)'
      <3>1. \A i \in host[e].images :
              i.tag \in Tag => i.tag.of \in Nat /\ i.tag.of <= MaxEdits + ups
        BY DEF DeployInv, StateOK, TagsOK, Host, Image, Tag
      <3>2. \A i \in host[e].images : i.tag \in Tag => i.tag.of # MaxEdits + ups'
        BY <3>1, <1>1, DeployAssumption
      <3>. QED BY <3>2, <1>3, <1>4 DEF Begin, ImageOK, After
    <2>. QED BY <2>1, <2>2, <2>3, <1>5 DEF AloneOK
  <1>. QED BY <1>3, <1>6, <1>7, <1>8, <1>9, <1>10 DEF DeployInv

-----------------------------------------------------------------------------
(* The model, the tag and the build *)

LEMMA CopiedFacts ==
  ASSUME DeployInv, NEW name \in {"keys", "compose"}, NEW content \in Content,
         name = "compose" => content \in ModelOf
  PROVE  LET d == Copied(name, content) IN
         /\ d \in Dir /\ d.compose.content \in ModelOf \cup {None}
         /\ d.build = IF dir = None THEN None ELSE dir.build
         /\ name = "compose" => d.compose.content = content
  <1>. DEFINE old == IF dir = None THEN [keys |-> NoFile, compose |-> NoFile, build |-> None]
                     ELSE dir
              new == [content |-> content, mtime |-> now, size |-> 1]
  <1>1. now \in Nat
    BY DEF DeployInv, TreeOK
  <1>2. new \in FileInfo /\ new.content = content
    BY <1>1 DEF FileInfo, Found
  <1>3. old \in Dir /\ old.compose.content \in ModelOf \cup {None}
    <2>1. CASE dir = None
      <3>1. [keys |-> NoFile, compose |-> NoFile, build |-> None] \in Dir
        BY NoFileIsInfo DEF Dir
      <3>. QED BY <2>1, <3>1 DEF NoFile
    <2>2. CASE dir # None
      BY <2>2 DEF DeployInv, StateOK
    <2>. QED BY <2>1, <2>2
  <1>4. old.build = IF dir = None THEN None ELSE dir.build
    OBVIOUS
  <1>5. Copied(name, content) = [old EXCEPT ![name] = new]
    BY DEF Copied
  <1>. HIDE DEF old, new
  <1>6. CASE name = "keys"
    BY <1>2, <1>3, <1>4, <1>5, <1>6 DEF Dir
  <1>7. CASE name = "compose"
    BY <1>2, <1>3, <1>4, <1>5, <1>7 DEF Dir
  <1>. QED BY <1>6, <1>7

\* The files of the directory that a command writes are of no other command's.
LEMMA CopyKeepsState ==
  ASSUME DeployInv, NEW name \in {"keys", "compose"}, NEW content \in Content,
         name = "compose" => content \in ModelOf,
         dir' = Copied(name, content), UNCHANGED <<registry, host, ups>>
  PROVE  StateOK' /\ TagsOK'
  <1>1. /\ dir' \in Dir /\ dir'.compose.content \in ModelOf \cup {None}
        /\ dir'.build = IF dir = None THEN None ELSE dir.build
    BY CopiedFacts
  <1>. QED BY <1>1 DEF DeployInv, StateOK, TagsOK

LEMMA RemoteModelKeepsDeploy ==
  ASSUME DeployInv, NEW c \in Cli, NEW b \in Build, RemoteModel(c, b)
  PROVE  DeployInv'
  <1>. DEFINE u == [up[c] EXCEPT !.left = {"conf", "keys"}, !.build = b,
                                 !.at = IF b = "none" THEN "file" ELSE "head"]
  <1>1. c \in Active /\ up[c] \in Command /\ up[c].env \in Env /\ CommandOK(c)
        /\ (Active = {c} /\ c \notin overlapped => AloneOK(c))
    BY CommandFacts DEF RemoteModel, At, Active
  <1>2. u \in Command
    BY <1>1, DeployAssumption DEF Command, Stage, File
  <1>3. up' = [up EXCEPT ![c] = u]
    BY <1>1 DEF RemoteModel, DeployInv
  <1>4. Works(c, u) /\ up'[c] = u
    BY <1>1, <1>2, <1>3 DEF Works, RemoteModel, DeployInv
  <1>5. /\ u.env = up[c].env /\ u.number = up[c].number /\ u.tag = up[c].tag /\ u.build = b
        /\ u.at = IF b = "none" THEN "file" ELSE "head"
        /\ u.left = {"conf", "keys"} /\ u.queue = up[c].queue /\ u.known = up[c].known
    BY <1>1 DEF Command
  <1>6. StateOK' /\ TagsOK'
    BY CopyKeepsState DEF RemoteModel, Outside, Content
  <1>. HIDE DEF u
  <1>7. CommandOK(c)'
    <2>1. UNCHANGED <<head, ups>> /\ up[c].at = "model" /\ up[c].tag = None
      BY <1>1 DEF RemoteModel, Outside, tree, At, CommandOK
    <2>2. CASE b = "none"
      BY <2>1, <2>2, <1>1, <1>4, <1>5 DEF CommandOK, At, Before, After
    <2>3. CASE b # "none"
      BY <2>1, <2>3, <1>1, <1>4, <1>5 DEF CommandOK, At, Before, After
    <2>. QED BY <2>2, <2>3
  <1>8. ASSUME AloneOK(c) PROVE AloneOK(c)'
    <2>1. DirOK(c)' /\ FilesOK(c)' /\ RunningOK(c)'
      BY <1>4, <1>5 DEF DirOK, FilesOK, RunningOK, At
    <2>2. ImageOK(c)'
      <3>1. UNCHANGED <<host, registry, head>> /\ ImageOK(c) /\ up[c].at = "model"
        BY <1>8 DEF AloneOK, RemoteModel, Outside, tree, At
      <3>2. CASE b = "none"
        BY <3>1, <3>2, <1>4, <1>5 DEF ImageOK, Before, After
      <3>3. CASE b # "none"
        BY <3>1, <3>3, <1>4, <1>5 DEF ImageOK, Before, After
      <3>. QED BY <3>2, <3>3
    <2>. QED BY <2>1, <2>2 DEF AloneOK
  <1>. QED BY <1>1, <1>4, <1>6, <1>7, <1>8, WorkKeepsInv

\* Numbers of random tags are past those of the commits.
LEMMA TagHeadKeepsDeploy ==
  ASSUME DeployInv, NEW c \in Cli, TagHead(c)
  PROVE  DeployInv'
  <1>. DEFINE t == [of |-> IF head = None THEN MaxEdits + up[c].number ELSE head.of,
                    changed |-> {}]
              stage == IF head = None THEN "plan" ELSE "changes"
              u == [up[c] EXCEPT !.tag = t, !.at = stage]
  <1>1. c \in Active /\ up[c] \in Command /\ up[c].env \in Env /\ CommandOK(c)
        /\ (Active = {c} /\ c \notin overlapped => AloneOK(c))
    BY CommandFacts DEF TagHead, At, Active
  <1>2. up[c].number \in Nat /\ up[c].number <= ups /\ ups \in Nat
    BY <1>1, DeployAssumption DEF Command, CommandOK, DeployInv, TreeOK
  <1>3. t \in Tag /\ t.of <= MaxEdits + ups /\ (head = None => t.of = MaxEdits + up[c].number)
    BY <1>2, DeployAssumption DEF Tag, DeployInv, TreeOK, Version
  <1>4. stage \in Stage
    BY DEF Stage
  <1>5. up' = [up EXCEPT ![c] = [up[c] EXCEPT !.tag = t, !.at = stage]]
    BY <1>1 DEF TagHead, DeployInv
  <1>. HIDE DEF t
  <1>6. u \in Command
    BY <1>1, <1>3, <1>4 DEF Command
  <1>7. Works(c, u) /\ up'[c] = u
    BY <1>1, <1>5, <1>6 DEF Works, TagHead, DeployInv
  <1>8. /\ u.env = up[c].env /\ u.number = up[c].number /\ u.tag = t /\ u.build = up[c].build
        /\ u.at = stage
        /\ u.left = up[c].left /\ u.queue = up[c].queue /\ u.known = up[c].known
    BY <1>1 DEF Command
  <1>9. StateOK' /\ TagsOK'
    BY WorldStays DEF TagHead, Outside
  <1>10. t # None
    BY <1>3, DeployAssumption
  <1>. HIDE DEF u
  <1>11. CommandOK(c)'
    <2>1. UNCHANGED <<head, ups>> /\ up[c].at = "head"
      BY DEF TagHead, Outside, tree, At
    <2>2. u.at \in {"plan", "changes"}
      BY <1>8
    <2>. QED BY <2>1, <2>2, <1>1, <1>3, <1>7, <1>8, <1>10 DEF CommandOK, At, Before, After
  <1>12. ASSUME AloneOK(c) PROVE AloneOK(c)'
    <2>1. DirOK(c)' /\ FilesOK(c)' /\ RunningOK(c)'
      BY <1>7, <1>8 DEF DirOK, FilesOK, RunningOK, At
    <2>2. ImageOK(c)'
      <3>1. UNCHANGED <<host, registry, head>> /\ ImageOK(c) /\ up[c].at = "head"
        BY <1>12 DEF AloneOK, TagHead, Outside, tree, At
      <3>2. u.at \in {"plan", "changes"}
        BY <1>8
      <3>. QED BY <3>1, <3>2, <1>7, <1>8 DEF ImageOK, Before, After
    <2>. QED BY <2>1, <2>2 DEF AloneOK
  <1>. QED BY <1>1, <1>7, <1>9, <1>11, <1>12, WorkKeepsInv

LEMMA TagChangesKeepsDeploy ==
  ASSUME DeployInv, NEW c \in Cli, TagChanges(c)
  PROVE  DeployInv'
  <1>. DEFINE t == [up[c].tag EXCEPT !.changed = LocalChanges]
              u == [up[c] EXCEPT !.tag = t, !.at = "plan"]
  <1>1. c \in Active /\ up[c] \in Command /\ up[c].env \in Env /\ CommandOK(c)
        /\ (Active = {c} /\ c \notin overlapped => AloneOK(c))
    BY CommandFacts DEF TagChanges, At, Active
  <1>2. up[c].tag \in Tag /\ up[c].tag.of <= MaxEdits + ups
    BY <1>1 DEF TagChanges, At, CommandOK, Command
  <1>3. t \in Tag /\ t.of = up[c].tag.of
    BY <1>2 DEF Tag, LocalChanges, Source
  <1>4. up' = [up EXCEPT ![c] = [up[c] EXCEPT !.tag = t, !.at = "plan"]]
    BY <1>1, <1>2 DEF TagChanges, DeployInv
  <1>. HIDE DEF t
  <1>5. u \in Command
    BY <1>1, <1>3 DEF Command, Stage
  <1>6. Works(c, u) /\ up'[c] = u
    BY <1>1, <1>4, <1>5 DEF Works, TagChanges, DeployInv
  <1>7. /\ u.env = up[c].env /\ u.number = up[c].number /\ u.tag = t /\ u.build = up[c].build
        /\ u.at = "plan"
        /\ u.left = up[c].left /\ u.queue = up[c].queue /\ u.known = up[c].known
    BY <1>1 DEF Command
  <1>8. StateOK' /\ TagsOK'
    BY WorldStays DEF TagChanges, Outside
  <1>9. t # None /\ up[c].tag # None
    BY <1>2, <1>3, DeployAssumption
  <1>. HIDE DEF u
  <1>10. CommandOK(c)'
    BY <1>1, <1>2, <1>3, <1>6, <1>7, <1>9 DEF CommandOK, TagChanges, Outside, tree, At, Before, After
  <1>11. ASSUME AloneOK(c) PROVE AloneOK(c)'
    <2>1. DirOK(c)' /\ FilesOK(c)' /\ RunningOK(c)'
      BY <1>6, <1>7 DEF DirOK, FilesOK, RunningOK, At
    <2>2. ImageOK(c)'
      BY <1>6, <1>7, <1>11 DEF AloneOK, ImageOK, TagChanges, Outside, tree, At, Before, After
    <2>. QED BY <2>1, <2>2 DEF AloneOK
  <1>. QED BY <1>1, <1>6, <1>8, <1>10, <1>11, WorkKeepsInv

\* What is built under some names is the only image of each of them.
LEMMA TaggedFacts ==
  ASSUME NEW images \in SUBSET Image, NEW names \in SUBSET ImageRef, NEW v \in Version
  PROVE  /\ Tagged(images, names, v) \in SUBSET Image
         /\ \A t \in names : Only(Tagged(images, names, v), t, v)
         /\ \A i \in Tagged(images, names, v) : i.tag \in names \/ i \in images
  <1>1. \A t \in names : [tag |-> t, content |-> v] \in Image
    BY DEF Image
  <1>. DEFINE new == {[tag |-> n, content |-> v] : n \in names}
              kept == {i \in images : i.tag \notin names}
  <1>2. Tagged(images, names, v) = kept \cup new
    BY DEF Tagged
  <1>3. new \subseteq Image /\ \A i \in new : i.tag \in names /\ i.content = v
    BY <1>1
  <1>4. kept \subseteq images /\ \A i \in kept : i.tag \notin names
    OBVIOUS
  <1>5. ASSUME NEW t \in names PROVE Has(new, t)
    <2>1. [tag |-> t, content |-> v] \in new /\ [tag |-> t, content |-> v].tag = t
      OBVIOUS
    <2>. QED BY <2>1 DEF Has
  <1>. HIDE DEF new, kept
  <1>. QED BY <1>2, <1>3, <1>4, <1>5 DEF Only, Has

LEMMA ImageFacts ==
  ASSUME NEW images \in SUBSET Image, NEW t, Has(images, t)
  PROVE  /\ ImageOf(images, t) \in Version
         /\ \A v : Only(images, t, v) => ImageOf(images, t) = v
  <1>. DEFINE i == CHOOSE j \in images : j.tag = t
  <1>1. i \in images /\ i.tag = t
    BY DEF Has
  <1>2. ImageOf(images, t) = i.content
    BY DEF ImageOf
  <1>. HIDE DEF i
  <1>. QED BY <1>1, <1>2 DEF Image, Only

LEMMA WriteBuildKeepsDeploy ==
  ASSUME DeployInv, NEW c \in Cli, WriteBuild(c)
  PROVE  DeployInv'
  <1>1. c \in Active /\ up[c] \in Command /\ up[c].env \in Env /\ CommandOK(c)
        /\ (Active = {c} /\ c \notin overlapped => AloneOK(c))
    BY CommandFacts DEF WriteBuild, At, Active
  <1>2. CASE dir = None
    <2>1. StateOK' /\ TagsOK'
      BY <1>2, WorldStays DEF WriteBuild, Outside
    <2>2. Outside /\ Fail(c, "error")
      BY <1>2 DEF WriteBuild
    <2>. QED BY <2>1, <2>2, <1>1, EndOfCommand
  <1>3. CASE dir # None
    <2>. DEFINE u == [up[c] EXCEPT !.at = "bake"]
    <2>1. up[c].tag \in Tag /\ up[c].tag.of <= MaxEdits + ups
      BY <1>1 DEF WriteBuild, At, CommandOK, Command
    <2>2. u \in Command
      BY <1>1 DEF Command, Stage
    <2>3. Works(c, u) /\ up'[c] = u
      BY <1>1, <1>3, <2>2 DEF Works, WriteBuild, Go, DeployInv
    <2>4. /\ u.env = up[c].env /\ u.number = up[c].number /\ u.tag = up[c].tag
          /\ u.build = up[c].build /\ u.at = "bake"
          /\ u.left = up[c].left /\ u.queue = up[c].queue /\ u.known = up[c].known
      BY <1>1 DEF Command
    <2>. HIDE DEF u
    <2>5. dir' \in Dir /\ dir'.build = up[c].tag /\ dir'.compose = dir.compose
      BY <1>3, <2>1 DEF DeployInv, StateOK, WriteBuild, Dir
    <2>6. StateOK' /\ TagsOK'
      BY <1>3, <2>1, <2>5 DEF DeployInv, StateOK, TagsOK, WriteBuild, Outside
    <2>7. CommandOK(c)'
      BY <1>1, <2>3, <2>4 DEF CommandOK, WriteBuild, Outside, tree, At, Before, After
    <2>8. ASSUME AloneOK(c) PROVE AloneOK(c)'
      <3>1. UNCHANGED <<host, registry, head>> /\ ImageOK(c) /\ up[c].at = "plan"
        BY <1>3, <2>8 DEF AloneOK, WriteBuild, Outside, tree, At
      <3>2. DirOK(c)' /\ FilesOK(c)' /\ RunningOK(c)'
        BY <2>3, <2>4, <2>5 DEF DirOK, FilesOK, RunningOK, At
      <3>3. ImageOK(c)'
        BY <3>1, <2>3, <2>4 DEF ImageOK, Before, After
      <3>. QED BY <3>2, <3>3 DEF AloneOK
    <2>. QED BY <1>1, <2>3, <2>6, <2>7, <2>8, WorkKeepsInv
  <1>. QED BY <1>2, <1>3

LEMMA BakeKeepsDeploy ==
  ASSUME DeployInv, NEW c \in Cli, Bake(c)
  PROVE  DeployInv'
  <1>. DEFINE t == IF dir = None THEN None ELSE dir.build
              e == up[c].env
              v == source.web
  <1>1. c \in Active /\ up[c] \in Command /\ e \in Env /\ CommandOK(c)
        /\ (Active = {c} /\ c \notin overlapped => AloneOK(c))
    BY CommandFacts DEF Bake, At, Active
  <1>2. CASE t = None
    <2>1. Outside /\ Fail(c, "error") /\ UNCHANGED <<dir, registry, host, ups>>
      BY <1>2 DEF Bake, Outside
    <2>2. StateOK' /\ TagsOK'
      BY <2>1, WorldStays
    <2>. QED BY <2>1, <2>2, <1>1, EndOfCommand
  <1>3. CASE t # None
    <2>. DEFINE u == [up[c] EXCEPT !.built = v, !.at = "file"]
    <2>1. t \in Tag /\ t = dir.build /\ dir # None /\ t.of <= MaxEdits + ups
      BY <1>3 DEF DeployInv, StateOK, TagsOK, Dir
    <2>2. v \in Version
      BY DEF DeployInv, TreeOK, Working
    <2>3. u \in Command
      BY <1>1, <2>2 DEF Command, Stage
    <2>4. up' = [up EXCEPT ![c] = u] /\ Outside /\ UNCHANGED dir
      BY <1>1, <1>3 DEF Bake, DeployInv
    <2>5. Works(c, u) /\ up'[c] = u
      BY <1>1, <2>3, <2>4 DEF Works, DeployInv
    <2>6. /\ u.env = e /\ u.number = up[c].number /\ u.tag = up[c].tag
          /\ u.build = up[c].build /\ u.at = "file" /\ u.built = v
          /\ u.left = up[c].left /\ u.queue = up[c].queue /\ u.known = up[c].known
      BY <1>1 DEF Command
    <2>7. up[c].build \in {"load", "push"} /\ up[c].tag # None
      BY <1>1 DEF Bake, At, CommandOK, Command
    <2>7a. PICK names \in {{t}, {t, image} \ {None}} :
             IF up[c].build = "push"
             THEN registry' = BakeImage(registry, names) /\ UNCHANGED host
             ELSE /\ host' = [host EXCEPT ![e].images = BakeImage(@, names)]
                  /\ UNCHANGED registry
      BY <1>3 DEF Bake
    <2>7b. names \in SUBSET ImageRef /\ t \in names
           /\ \A n \in names \cap Tag : n = t
      <3>1. image \in {None, Own} /\ None \notin Tag /\ Own \notin Tag
        BY DeployAssumption DEF DeployInv, TreeOK
      <3>. QED BY <3>1, <2>1, <2>7a DEF ImageRef
    <2>. HIDE DEF u
    <2>8. CommandOK(c)'
      <3>1. up[c].at = "bake"
        BY DEF Bake, At
      <3>. QED BY <3>1, <1>1, <2>4, <2>5, <2>6, <2>7
            DEF CommandOK, Outside, tree, At, Before, After
    <2>9. up[c].at = "bake" /\ host \in [Env -> Host] /\ registry \in SUBSET Image
      BY DEF Bake, At, DeployInv, StateOK
    <2>10. ASSUME AloneOK(c)
           PROVE  DirOK(c)' /\ FilesOK(c)' /\ RunningOK(c)' /\ t = up[c].tag
      <3>1. t = up[c].tag
        BY <2>1, <2>9, <2>10 DEF AloneOK, DirOK, At
      <3>. QED BY <3>1, <2>5, <2>6 DEF DirOK, FilesOK, RunningOK, At
    <2>11. CASE up[c].build = "push"
      <3>1. registry' = Tagged(registry, names, v) /\ UNCHANGED host
        BY <2>7a, <2>11 DEF BakeImage
      <3>. HIDE DEF t, v
      <3>2. registry' \in SUBSET Image /\ Only(registry', t, v)
            /\ \A i \in registry' : i.tag \in Tag => i.tag = t \/ i \in registry
        <4>1. \A i \in registry' : i.tag \in names \/ i \in registry
          BY <3>1, <2>2, <2>7b, <2>9, TaggedFacts
        <4>2. registry' \in SUBSET Image /\ Only(registry', t, v)
          BY <3>1, <2>2, <2>7b, <2>9, TaggedFacts
        <4>. QED BY <4>1, <4>2, <2>7b
      <3>3. StateOK'
        BY <2>4, <3>1, <3>2 DEF DeployInv, StateOK
      <3>4. TagsOK'
        <4>1. \A i \in registry' : i.tag \in Tag => i.tag.of <= MaxEdits + ups
          BY <2>1, <3>2 DEF DeployInv, TagsOK
        <4>. QED BY <4>1, <2>4, <3>1 DEF DeployInv, TagsOK, Outside
      <3>5. ASSUME AloneOK(c) PROVE AloneOK(c)'
        <4>1. t = up[c].tag /\ ImageOK(c) /\ head' = head
          BY <3>5, <2>4, <2>10 DEF AloneOK, Outside, tree
        <4>2. ImageOK(c)'
          BY <4>1, <3>1, <3>2, <2>5, <2>6, <2>9, <2>11 DEF ImageOK, Before, After, Only, Has
        <4>. QED BY <4>2, <2>10, <3>5 DEF AloneOK
      <3>. QED BY <1>1, <2>5, <2>8, <3>3, <3>4, <3>5, WorkKeepsInv
    <2>12. CASE up[c].build = "load"
      <3>. DEFINE images == Tagged(host[e].images, names, v)
      <3>1. host' = [host EXCEPT ![e].images = images] /\ UNCHANGED registry
        BY <2>7a, <2>12 DEF BakeImage
      <3>2. host[e] \in Host /\ host[e].images \in SUBSET Image
        BY <1>1, <2>9 DEF Host
      <3>3. images \in SUBSET Image /\ Only(images, t, v)
            /\ \A i \in images : i.tag \in Tag => i.tag = t \/ i \in host[e].images
        <4>1. \A i \in images : i.tag \in names \/ i \in host[e].images
          BY <3>2, <2>2, <2>7b, TaggedFacts
        <4>2. images \in SUBSET Image /\ Only(images, t, v)
          BY <3>2, <2>2, <2>7b, TaggedFacts
        <4>. QED BY <4>1, <4>2, <2>7b
      <3>. HIDE DEF images, t, v
      <3>4. /\ host' \in [Env -> Host] /\ host'[e].images = images
            /\ \A x \in Env \ {e} : host'[x] = host[x]
        BY <1>1, <2>9, <3>1, <3>3 DEF Host
      <3>5. StateOK'
        BY <2>4, <3>1, <3>4 DEF DeployInv, StateOK
      <3>6. TagsOK'
        <4>1. \A i \in images : i.tag \in Tag => i.tag.of <= MaxEdits + ups
          BY <1>1, <2>1, <3>3 DEF DeployInv, TagsOK
        <4>. QED BY <4>1, <2>4, <3>1, <3>4 DEF DeployInv, TagsOK, Outside
      <3>7. ASSUME AloneOK(c) PROVE AloneOK(c)'
        <4>1. t = up[c].tag
          BY <3>7, <2>10
        <4>2. ImageOK(c)'
          BY <4>1, <3>3, <3>4, <2>5, <2>6, <2>9, <2>12 DEF ImageOK, Before, After, Only, Has
        <4>. QED BY <4>2, <2>10, <3>7 DEF AloneOK
      <3>. QED BY <1>1, <2>5, <2>8, <3>5, <3>6, <3>7, WorkKeepsInv
    <2>. QED BY <2>7, <2>11, <2>12
  <1>. QED BY <1>2, <1>3

-----------------------------------------------------------------------------
(* The upload *)

LEMMA WriteComposeKeepsDeploy ==
  ASSUME DeployInv, NEW c \in Cli, NEW skip \in BOOLEAN, WriteCompose(c, skip)
  PROVE  DeployInv'
  <1>. DEFINE e == up[c].env
              m == DeployModel(c)
              known == IF skip THEN host[e].files ELSE up[c].known
              u == [up[c] EXCEPT !.left = @ \cup {"compose"}, !.at = "upload", !.skip = skip,
                                 !.known = known]
  <1>1. c \in Active /\ up[c] \in Command /\ e \in Env /\ CommandOK(c) /\ up[c].at = "file"
        /\ (Active = {c} /\ c \notin overlapped => AloneOK(c))
    BY CommandFacts DEF WriteCompose, At, Active
  <1>2. m \in ModelOf /\ m \in Content /\ m = Model(e, ImageName(c))
    <2>1. image \in {None, Own} /\ up[c].tag \in Tag \cup {None}
      BY <1>1 DEF DeployInv, TreeOK, Command
    <2>2. ImageName(c) \in ImageRef \cup {None}
      BY <2>1 DEF ImageName, ImageRef
    <2>. QED BY <1>1, <2>2 DEF DeployModel, Model, ModelOf, Content
  <1>3. known \in [File -> FileInfo]
    <2>1. host[e].files \in [File -> FileInfo]
      BY <1>1 DEF DeployInv, StateOK, Host
    <2>2. up[c].known \in [File -> FileInfo]
      BY <1>1 DEF Command
    <2>. QED BY <2>1, <2>2
  <1>4. dir' = Copied("compose", m) /\ UNCHANGED <<registry, host, ups>> /\ Outside
    BY DEF WriteCompose, Outside
  <1>. HIDE DEF m
  <1>5. StateOK' /\ TagsOK'
    BY <1>2, <1>4, CopyKeepsState
  <1>6. dir'.compose.content = m
    BY <1>2, <1>4, CopiedFacts
  <1>7. up' = [up EXCEPT ![c] = u]
    BY <1>1 DEF WriteCompose, DeployInv
  <1>8. u \in Command
    BY <1>1, <1>3 DEF Command, Stage, File
  <1>9. Works(c, u) /\ up'[c] = u
    BY <1>1, <1>4, <1>7, <1>8 DEF Works, DeployInv
  <1>10. /\ u.env = e /\ u.number = up[c].number /\ u.tag = up[c].tag /\ u.build = up[c].build
         /\ u.at = "upload" /\ u.built = up[c].built /\ u.skip = skip /\ u.known = known
         /\ u.left = up[c].left \cup {"compose"} /\ u.queue = up[c].queue
    BY <1>1 DEF Command
  <1>. HIDE DEF u
  <1>11. CommandOK(c)'
    BY <1>1, <1>4, <1>9, <1>10 DEF CommandOK, Outside, tree, At, Before, After
  <1>12. ASSUME AloneOK(c) PROVE AloneOK(c)'
    <2>1. DirOK(c)' /\ RunningOK(c)'
      BY <1>2, <1>4, <1>6, <1>9, <1>10, NameStays DEF DirOK, RunningOK, At
    <2>2. ImageOK(c)'
      BY <1>1, <1>4, <1>9, <1>10, <1>12 DEF AloneOK, ImageOK, Before, After, Outside, tree
    <2>3. FilesOK(c)'
      <3>1. /\ up[c].left = {"conf", "keys"} /\ up[c].queue = <<>>
            /\ \A f \in File : up[c].known[f] = NoFile
        BY <1>1 DEF CommandOK
      <3>2. u.left = File /\ u.queue = <<>> /\ host' = host
        BY <1>4, <1>10, <3>1 DEF File
      <3>3. \A f \in File : known[f].size > 0 => skip /\ known[f] = host[e].files[f]
        BY <3>1 DEF NoFile
      <3>. HIDE DEF known
      <3>4. \A f \in File : ~Queued(c, f)'
        BY <1>9, <3>2 DEF Queued, Names
      <3>. QED BY <1>9, <1>10, <3>2, <3>3, <3>4 DEF FilesOK, At, File
    <2>. QED BY <2>1, <2>2, <2>3 DEF AloneOK
  <1>. QED BY <1>1, <1>5, <1>9, <1>11, <1>12, WorkKeepsInv

LEMMA LocalFacts ==
  ASSUME DeployInv, NEW f \in File
  PROVE  /\ Local(f) \in FileInfo
         /\ f = "conf" => Local(f) = source.conf /\ source.conf.content \in Version
  <1>1. source.conf \in Found /\ source.conf.content \in Version
    BY DEF DeployInv, TreeOK, Working, Found, Content
  <1>2. dir # None => dir.keys \in FileInfo /\ dir.compose \in FileInfo
    BY DEF DeployInv, StateOK, Dir
  <1>. QED BY <1>1, <1>2, NoFileIsInfo DEF Local, File, FileInfo

LEMMA AppendNames ==
  ASSUME NEW q \in Seq(Entry), NEW h \in Entry
  PROVE  /\ Append(q, h) \in Seq(Entry) /\ Names(Append(q, h)) = Names(q) \cup {h.name}
  <1>. DEFINE r == Append(q, h)
  <1>1. /\ r \in Seq(Entry) /\ DOMAIN q = 1 .. Len(q) /\ DOMAIN r = 1 .. Len(q) + 1
        /\ Len(q) \in Nat /\ r[Len(q) + 1] = h /\ \A i \in 1 .. Len(q) : r[i] = q[i]
    OBVIOUS
  <1>. HIDE DEF r
  <1>2. ASSUME NEW n \in Names(r) PROVE n \in Names(q) \cup {h.name}
    <2>1. PICK i \in DOMAIN r : n = r[i].name
      BY <1>2 DEF Names
    <2>2. i = Len(q) + 1 \/ i \in 1 .. Len(q)
      BY <2>1, <1>1
    <2>. QED BY <2>1, <2>2, <1>1 DEF Names
  <1>3. ASSUME NEW n \in Names(q) \cup {h.name} PROVE n \in Names(r)
    <2>1. CASE n = h.name
      <3>1. Len(q) + 1 \in DOMAIN r
        BY <1>1
      <3>. QED BY <2>1, <3>1, <1>1 DEF Names
    <2>2. CASE n \in Names(q)
      <3>1. PICK i \in DOMAIN q : n = q[i].name
        BY <2>2 DEF Names
      <3>2. i \in DOMAIN r /\ r[i] = q[i]
        BY <3>1, <1>1
      <3>. QED BY <3>1, <3>2 DEF Names
    <2>. QED BY <1>3, <2>1, <2>2
  <1>. QED BY <1>1, <1>2, <1>3 DEF r

LEMMA TailNames ==
  ASSUME NEW q \in Seq(Entry), q # <<>>
  PROVE  /\ Head(q) \in Entry /\ Tail(q) \in Seq(Entry)
         /\ Names(q) = {Head(q).name} \cup Names(Tail(q))
  <1>. DEFINE r == Tail(q)
  <1>1. /\ r \in Seq(Entry) /\ Head(q) \in Entry /\ Head(q) = q[1]
        /\ DOMAIN q = 1 .. Len(q) /\ DOMAIN r = 1 .. Len(q) - 1
        /\ Len(q) \in Nat \ {0} /\ \A i \in 1 .. Len(q) - 1 : r[i] = q[i + 1]
    OBVIOUS
  <1>. HIDE DEF r
  <1>2. ASSUME NEW n \in Names(r) PROVE n \in Names(q)
    <2>1. PICK i \in DOMAIN r : n = r[i].name
      BY <1>2 DEF Names
    <2>2. i + 1 \in DOMAIN q /\ r[i] = q[i + 1]
      BY <2>1, <1>1
    <2>. QED BY <2>1, <2>2 DEF Names
  <1>3. Head(q).name \in Names(q)
    <2>1. 1 \in DOMAIN q
      BY <1>1
    <2>. QED BY <2>1, <1>1 DEF Names
  <1>4. ASSUME NEW n \in Names(q) PROVE n = Head(q).name \/ n \in Names(r)
    <2>1. PICK i \in DOMAIN q : n = q[i].name
      BY <1>4 DEF Names
    <2>2. CASE i = 1
      BY <2>1, <2>2, <1>1
    <2>3. CASE i # 1
      <3>1. i - 1 \in DOMAIN r /\ r[i - 1] = q[i]
        BY <2>1, <2>3, <1>1
      <3>. QED BY <3>1, <2>1 DEF Names
    <2>. QED BY <2>2, <2>3
  <1>. QED BY <1>1, <1>2, <1>3, <1>4 DEF r

\* A file that is left out is one that the machine has.
LEMMA WalkKeepsDeploy ==
  ASSUME DeployInv, NEW c \in Cli, NEW f \in File, Walk(c, f)
  PROVE  DeployInv'
  <1>. DEFINE s == Local(f)
              k == up[c].known[f]
              h == [name |-> f, mtime |-> s.mtime, size |-> s.size]
              q == IF Unchanged(s, k) THEN up[c].queue ELSE Append(up[c].queue, h)
              w == IF f = "conf" THEN s ELSE up[c].walked
              u == [up[c] EXCEPT !.left = @ \ {f}, !.walked = w, !.queue = q]
  <1>1. /\ c \in Active /\ up[c] \in Command /\ up[c].env \in Env /\ CommandOK(c)
        /\ up[c].at = "upload" /\ f \in up[c].left
        /\ (Active = {c} /\ c \notin overlapped => AloneOK(c))
    BY CommandFacts DEF Walk, At, Active
  <1>2. Outside /\ UNCHANGED <<dir, registry, host, ups>> /\ StateOK' /\ TagsOK'
    BY WorldStays DEF Walk, Outside
  <1>3. CASE s = NoFile
    <2>1. Fail(c, "error")
      BY <1>3 DEF Walk
    <2>. QED BY <2>1, <1>1, <1>2, EndOfCommand
  <1>4. CASE s # NoFile
    <2>1. s \in FileInfo /\ s \in Found /\ (f = "conf" => s = source.conf /\ s.content \in Version)
      BY <1>4, LocalFacts, FileFacts
    <2>2. /\ up[c].queue \in Seq(Entry) /\ h \in Entry /\ h.name = f /\ k \in FileInfo
          /\ up[c].walked \in FileInfo
      BY <1>1, <2>1 DEF Command, Entry, Found
    <2>3. up' = [up EXCEPT ![c] = u]
      BY <1>1, <1>4 DEF Walk, DeployInv
    <2>4. k.size \in Nat /\ s.size \in Nat /\ s.size > 0 /\ (Unchanged(s, k) => k.size = s.size
                                                             /\ k.mtime = s.mtime)
      BY <2>1, <2>2, FileFacts DEF Found, Unchanged
    <2>5. /\ q \in Seq(Entry)
          /\ Names(q) = IF Unchanged(s, k) THEN Names(up[c].queue)
                        ELSE Names(up[c].queue) \cup {f}
      BY <2>2, AppendNames
    <2>6. w \in FileInfo
      BY <2>1, <2>2
    <2>. HIDE DEF s, k, h, q, w
    <2>7. u \in Command
      BY <1>1, <2>5, <2>6 DEF Command
    <2>8. Works(c, u) /\ up'[c] = u
      BY <1>1, <1>2, <2>3, <2>7 DEF Works, DeployInv
    <2>9. /\ u.env = up[c].env /\ u.number = up[c].number /\ u.tag = up[c].tag
          /\ u.build = up[c].build /\ u.at = "upload" /\ u.built = up[c].built
          /\ u.skip = up[c].skip /\ u.known = up[c].known /\ u.left = up[c].left \ {f}
          /\ u.queue = q /\ u.walked = w
      BY <1>1 DEF Command
    <2>. HIDE DEF u
    <2>10. CommandOK(c)'
      BY <1>1, <1>2, <2>8, <2>9 DEF CommandOK, Outside, tree, At, Before, After
    <2>11. ASSUME AloneOK(c) PROVE AloneOK(c)'
      <3>1. DirOK(c)' /\ RunningOK(c)'
        BY <1>1, <1>2, <2>8, <2>9, <2>11, NameStays DEF AloneOK, DirOK, RunningOK, At
      <3>2. ImageOK(c)'
        BY <1>1, <1>2, <2>8, <2>9, <2>11 DEF AloneOK, ImageOK, Before, After, Outside, tree
      <3>3. FilesOK(c)
        BY <2>11 DEF AloneOK
      <3>4. ASSUME NEW g \in File
            PROVE  g \in u.left \/ Queued(c, g)' \/ There(c, g)'
        <4>1. CASE g # f /\ g \in up[c].left
          BY <4>1, <2>9
        <4>2. CASE Queued(c, g)
          BY <4>2, <2>5, <2>8, <2>9 DEF Queued
        <4>3. CASE g # f /\ There(c, g)
          BY <4>3, <1>2, <2>8, <2>9 DEF There, w
        <4>4. CASE g = f /\ ~Unchanged(s, k)
          BY <4>4, <2>5, <2>8, <2>9 DEF Queued
        <4>5. CASE g = f /\ Unchanged(s, k)
          <5>1. k.size > 0
            BY <2>4, <4>5
          <5>2. up[c].skip /\ k = host[up[c].env].files[f]
            BY <5>1, <3>3, <1>1 DEF FilesOK, k
          <5>3. host'[u.env].files[g] = k /\ u.skip
            BY <5>2, <4>5, <1>2, <2>9
          <5>. QED BY <5>1, <5>3, <4>5, <2>4, <2>8, <2>9 DEF There, w
        <4>5a. g \in up[c].left \/ Queued(c, g) \/ There(c, g)
          BY <3>3, <1>1 DEF FilesOK
        <4>. QED BY <4>1, <4>2, <4>3, <4>4, <4>5, <4>5a
      <3>5. \A g \in u.left :
              /\ u.known[g].size > 0 => u.skip /\ u.known[g] = host'[u.env].files[g]
              /\ ~Queued(c, g)'
        BY <1>1, <1>2, <2>5, <2>8, <2>9, <3>3 DEF FilesOK, Queued
      <3>6. "conf" \notin u.left => w.content \in Version /\ w.content <= source'.conf.content
        <4>1. source' = source /\ source.conf.content \in Nat
          BY <1>2 DEF Outside, tree, DeployInv, TreeOK, Working, Version
        <4>2. CASE f = "conf"
          BY <4>1, <4>2, <2>1 DEF w, Version
        <4>3. CASE f # "conf"
          BY <4>1, <4>3, <1>1, <2>9, <3>3 DEF FilesOK, w
        <4>. QED BY <4>2, <4>3
      <3>7. FilesOK(c)'
        BY <2>8, <2>9, <3>4, <3>5, <3>6 DEF FilesOK, At
      <3>. QED BY <3>1, <3>2, <3>7 DEF AloneOK
    <2>. QED BY <1>1, <1>2, <2>8, <2>10, <2>11, WorkKeepsInv
  <1>. QED BY <1>3, <1>4

\* What is copied is no older than what was found.
LEMMA AddEntryKeepsDeploy ==
  ASSUME DeployInv, NEW c \in Cli, AddEntry(c)
  PROVE  DeployInv'
  <1>. DEFINE e == up[c].env
              q == up[c].queue
              h == Head(q)
              s == Local(h.name)
              g == [s EXCEPT !.mtime = h.mtime]
              u == [up[c] EXCEPT !.queue = Tail(q)]
  <1>1. /\ c \in Active /\ up[c] \in Command /\ e \in Env /\ CommandOK(c)
        /\ up[c].at = "upload" /\ q # <<>>
        /\ (Active = {c} /\ c \notin overlapped => AloneOK(c))
    BY CommandFacts DEF AddEntry, At, Active
  <1>2. Outside /\ UNCHANGED <<dir, registry, ups>>
    BY DEF AddEntry, Outside
  <1>3. CASE s.size # h.size
    <2>1. Fail(c, "error") /\ UNCHANGED host
      BY <1>3 DEF AddEntry
    <2>. QED BY <2>1, <1>1, <1>2, EndOfCommand, WorldStays
  <1>4. CASE s.size = h.size
    <2>1. /\ q \in Seq(Entry) /\ h \in Entry /\ Tail(q) \in Seq(Entry)
          /\ Names(q) = {h.name} \cup Names(Tail(q))
      BY <1>1, TailNames DEF Command
    <2>. HIDE DEF h
    <2>2. h.name \in File /\ h.size \in Nat \ {0} /\ h.mtime \in Nat
      BY <2>1 DEF Entry
    <2>3. s \in Found /\ (h.name = "conf" => s = source.conf /\ s.content \in Version)
      BY <1>4, <2>2, LocalFacts, FileFacts
    <2>4. /\ up' = [up EXCEPT ![c] = u]
          /\ host' = [host EXCEPT ![e].files[h.name] = g]
      BY <1>1, <1>4 DEF AddEntry, DeployInv, h
    <2>5. g \in Found /\ g.content = s.content /\ g.size > 0
      BY <2>2, <2>3 DEF Found
    <2>6. u \in Command
      BY <1>1, <2>1 DEF Command
    <2>7. Works(c, u) /\ up'[c] = u
      BY <1>1, <1>2, <2>4, <2>6 DEF Works, DeployInv
    <2>8. /\ u.env = e /\ u.number = up[c].number /\ u.tag = up[c].tag
          /\ u.build = up[c].build /\ u.at = "upload" /\ u.built = up[c].built
          /\ u.skip = up[c].skip /\ u.known = up[c].known /\ u.left = up[c].left
          /\ u.queue = Tail(q) /\ u.walked = up[c].walked
      BY <1>1 DEF Command
    <2>. HIDE DEF g, u, s
    <2>9. host \in [Env -> Host] /\ host[e] \in Host
      BY <1>1 DEF DeployInv, StateOK
    <2>10. /\ host' \in [Env -> Host] /\ host'[e].images = host[e].images
           /\ host'[e].files[h.name] = g
           /\ \A f \in File \ {h.name} : host'[e].files[f] = host[e].files[f]
           /\ host'[e].running = host[e].running
           /\ \A x \in Env \ {e} : host'[x] = host[x]
      BY <1>1, <2>2, <2>4, <2>5, <2>9 DEF Host, FileInfo
    <2>11. StateOK'
      BY <1>2, <2>10 DEF DeployInv, StateOK
    <2>12. TagsOK'
      BY <1>2, <2>10 DEF DeployInv, TagsOK
    <2>13. CommandOK(c)'
      BY <1>1, <1>2, <2>7, <2>8 DEF CommandOK, Outside, tree, At, Before, After
    <2>14. ASSUME AloneOK(c) PROVE AloneOK(c)'
      <3>1. DirOK(c)' /\ RunningOK(c)'
        BY <1>1, <1>2, <2>7, <2>8, <2>14, NameStays DEF AloneOK, DirOK, RunningOK, At
      <3>2. ImageOK(c)'
        BY <1>1, <1>2, <2>7, <2>8, <2>10, <2>14
           DEF AloneOK, ImageOK, Before, After, Outside, tree
      <3>3. FilesOK(c)
        BY <2>14 DEF AloneOK
      <3>4. Queued(c, h.name) /\ h.name \notin up[c].left
        <4>1. Queued(c, h.name)
          BY <2>1 DEF Queued
        <4>. QED BY <4>1, <3>3, <1>1 DEF FilesOK
      <3>5. ASSUME NEW f \in File
            PROVE  f \in u.left \/ Queued(c, f)' \/ There(c, f)'
        <4>1. CASE f = h.name
          <5>1. f = "conf" => /\ g.content \in Version
                              /\ up[c].walked.content \in Version
                              /\ g.content >= up[c].walked.content
            BY <4>1, <3>3, <3>4, <1>1, <2>3, <2>5 DEF FilesOK, Version
          <5>. QED BY <5>1, <4>1, <2>5, <2>7, <2>8, <2>10 DEF There
        <4>2. CASE f # h.name
          <5>1. f \in up[c].left \/ Queued(c, f) \/ There(c, f)
            BY <3>3, <1>1 DEF FilesOK
          <5>2. Queued(c, f) => Queued(c, f)'
            BY <4>2, <2>1, <2>7, <2>8 DEF Queued
          <5>3. There(c, f) => There(c, f)'
            BY <4>2, <2>7, <2>8, <2>10 DEF There
          <5>. QED BY <5>1, <5>2, <5>3, <2>8
        <4>. QED BY <4>1, <4>2
      <3>6. \A f \in u.left :
              /\ u.known[f].size > 0 => u.skip /\ u.known[f] = host'[u.env].files[f]
              /\ ~Queued(c, f)'
        <4>1. up[c].left \subseteq File
          BY <1>1 DEF Command
        <4>. QED BY <4>1, <1>1, <2>1, <2>7, <2>8, <2>10, <3>3, <3>4 DEF FilesOK, Queued
      <3>7. "conf" \notin u.left => /\ u.walked.content \in Version
                                    /\ u.walked.content <= source'.conf.content
        BY <1>1, <1>2, <2>8, <3>3 DEF FilesOK, Outside, tree
      <3>8. FilesOK(c)'
        BY <2>7, <2>8, <3>5, <3>6, <3>7 DEF FilesOK, At
      <3>. QED BY <3>1, <3>2, <3>8 DEF AloneOK
    <2>. QED BY <1>1, <2>7, <2>11, <2>12, <2>13, <2>14, WorkKeepsInv
  <1>. QED BY <1>3, <1>4

\* The archive is finished when nothing is left to walk or to copy.
LEMMA FinalizeKeepsDeploy ==
  ASSUME DeployInv, NEW c \in Cli, Finalize(c)
  PROVE  DeployInv'
  <1>. DEFINE u == [up[c] EXCEPT !.at = "compose"]
  <1>1. /\ c \in Active /\ up[c] \in Command /\ up[c].env \in Env /\ CommandOK(c)
        /\ up[c].at = "upload" /\ up[c].left = {} /\ up[c].queue = <<>>
        /\ (Active = {c} /\ c \notin overlapped => AloneOK(c))
    BY CommandFacts DEF Finalize, Uploaded, At, Active
  <1>2. Outside /\ UNCHANGED <<dir, registry, host, ups>> /\ StateOK' /\ TagsOK'
    BY WorldStays DEF Finalize, Outside
  <1>3. up' = [up EXCEPT ![c] = u] /\ u \in Command
    BY <1>1 DEF Finalize, Go, DeployInv, Command, Stage
  <1>4. Works(c, u) /\ up'[c] = u
    BY <1>1, <1>2, <1>3 DEF Works, DeployInv
  <1>5. /\ u.env = up[c].env /\ u.number = up[c].number /\ u.tag = up[c].tag
        /\ u.build = up[c].build /\ u.at = "compose" /\ u.built = up[c].built
        /\ u.skip = up[c].skip /\ u.known = up[c].known /\ u.left = {}
        /\ u.queue = <<>> /\ u.walked = up[c].walked
    BY <1>1 DEF Command
  <1>. HIDE DEF u
  <1>6. CommandOK(c)'
    BY <1>1, <1>2, <1>4, <1>5 DEF CommandOK, Outside, tree, At, Before, After
  <1>7. ASSUME AloneOK(c) PROVE AloneOK(c)'
    <2>1. DirOK(c)' /\ RunningOK(c)'
      BY <1>1, <1>2, <1>4, <1>5, <1>7, NameStays DEF AloneOK, DirOK, RunningOK, At
    <2>2. ImageOK(c)'
      BY <1>1, <1>2, <1>4, <1>5, <1>7 DEF AloneOK, ImageOK, Before, After, Outside, tree
    <2>3. \A f \in File : There(c, f)'
      <3>1. \A f \in File : There(c, f)
        BY <1>1, <1>7 DEF AloneOK, FilesOK, Queued, Names
      <3>. QED BY <3>1, <1>2, <1>4, <1>5 DEF There
    <2>4. u.walked.content \in Version /\ u.walked.content <= source'.conf.content
      BY <1>1, <1>2, <1>5, <1>7 DEF AloneOK, FilesOK, Outside, tree
    <2>5. FilesOK(c)'
      BY <1>4, <1>5, <2>3, <2>4 DEF FilesOK, At
    <2>. QED BY <2>1, <2>2, <2>5 DEF AloneOK
  <1>. QED BY <1>1, <1>2, <1>4, <1>6, <1>7, WorkKeepsInv

-----------------------------------------------------------------------------
(* The containers, and the answers of the agent *)

\* docker compose ends with these images, this model and this image running.
Starts(c, images, m, v) ==
  /\ host' = [host EXCEPT ![up[c].env].images = images,
                          ![up[c].env].running = Run(host[up[c].env], m, v),
                          ![up[c].env].agent = "starting"]
  /\ Go(c, "urls")

LEMMA StartsKeepsDeploy ==
  ASSUME DeployInv, NEW c \in Cli, At(c, "compose"), Outside, UNCHANGED <<dir, registry>>,
         NEW images \in SUBSET Image, NEW m \in ModelOf, NEW v \in Version,
         \A i \in images : i.tag \in Tag => i.tag.of <= MaxEdits + ups,
         Starts(c, images, m, v),
         AloneOK(c) => m = Model(up[c].env, ImageName(c)),
         (AloneOK(c) /\ image = None) =>
           (up[c].build = "load" \/ (up[c].build = "push" /\ head = None) => v = up[c].built)
  PROVE  DeployInv'
  <1>. DEFINE e == up[c].env
              u == [up[c] EXCEPT !.at = "urls"]
              run == [model |-> m, image |-> v]
  <1>1. /\ c \in Active /\ up[c] \in Command /\ e \in Env /\ CommandOK(c)
        /\ up[c].at = "compose"
        /\ (Active = {c} /\ c \notin overlapped => AloneOK(c))
    BY CommandFacts DEF At, Active
  <1>2. UNCHANGED <<dir, registry, ups>>
    BY DEF Outside
  <1>3. up' = [up EXCEPT ![c] = u] /\ u \in Command
    BY <1>1 DEF Starts, Go, DeployInv, Command, Stage
  <1>4. Works(c, u) /\ up'[c] = u
    BY <1>1, <1>3 DEF Works, DeployInv
  <1>5. /\ u.env = e /\ u.number = up[c].number /\ u.tag = up[c].tag
        /\ u.build = up[c].build /\ u.at = "urls" /\ u.built = up[c].built
    BY <1>1 DEF Command
  <1>. HIDE DEF u
  <1>6. run \in Running /\ run.model = m /\ run.image = v
    BY DEF Running
  <1>7. host' = [host EXCEPT ![e].images = images, ![e].running = run, ![e].agent = "starting"]
    BY DEF Starts, Run
  <1>. HIDE DEF run
  <1>8. host \in [Env -> Host] /\ host[e] \in Host
    BY <1>1 DEF DeployInv, StateOK
  <1>9. /\ host' \in [Env -> Host] /\ host'[e].images = images /\ host'[e].running = run
        /\ \A x \in Env \ {e} : host'[x] = host[x]
    BY <1>1, <1>6, <1>7, <1>8 DEF Host
  <1>10. StateOK'
    BY <1>2, <1>9 DEF DeployInv, StateOK
  <1>11. TagsOK'
    BY <1>2, <1>9 DEF DeployInv, TagsOK
  <1>12. CommandOK(c)'
    BY <1>1, <1>4, <1>5 DEF CommandOK, Outside, tree, At, Before, After
  <1>13. ASSUME AloneOK(c) PROVE AloneOK(c)'
    <2>1. DirOK(c)' /\ FilesOK(c)' /\ ImageOK(c)'
      BY <1>4, <1>5 DEF DirOK, FilesOK, ImageOK, At, Before, After
    <2>2. RunningOK(c)'
      BY <1>4, <1>5, <1>6, <1>9, <1>13, NameStays DEF RunningOK, Model
    <2>. QED BY <2>1, <2>2 DEF AloneOK
  <1>. QED BY <1>1, <1>4, <1>10, <1>11, <1>12, <1>13, WorkKeepsInv

\* A machine has the image of a random tag only if this command has put it there.
LEMMA ComposeUpKeepsDeploy ==
  ASSUME DeployInv, NEW c \in Cli, ComposeUp(c)
  PROVE  DeployInv'
  <1>. DEFINE e == up[c].env
              images == host[e].images
              m == IF dir = None THEN None ELSE dir.compose.content
              t == m.tag
  <1>1. /\ c \in Active /\ up[c] \in Command /\ e \in Env /\ CommandOK(c)
        /\ up[c].at = "compose" /\ At(c, "compose")
    BY CommandFacts DEF ComposeUp, At, Active
  <1>2. Outside /\ UNCHANGED <<dir, registry>>
    BY DEF ComposeUp
  <1>3. /\ images \in SUBSET Image /\ registry \in SUBSET Image
        /\ \A i \in images : i.tag \in Tag => i.tag.of <= MaxEdits + ups
        /\ \A i \in registry : i.tag \in Tag => i.tag.of <= MaxEdits + ups
    BY <1>1 DEF DeployInv, StateOK, TagsOK, Host
  <1>4. m \in ModelOf \cup {None}
    BY DEF DeployInv, StateOK
  <1>5. AloneOK(c) => m = None \/ m = Model(e, ImageName(c))
    BY <1>1 DEF AloneOK, DirOK
  <1>6. AloneOK(c) => ImageOK(c)
    BY DEF AloneOK
  <1>7. ASSUME Fail(c, "error") /\ UNCHANGED host PROVE DeployInv'
    <2>1. StateOK' /\ TagsOK'
      BY <1>2, <1>7, WorldStays DEF Outside
    <2>. QED BY <2>1, <1>1, <1>2, <1>7, EndOfCommand
  <1>8. \/ m = None /\ Fail(c, "error") /\ UNCHANGED host
        \/ m # None /\ t # None /\ Has(images, t) /\ Starts(c, images, m, ImageOf(images, t))
        \/ /\ m # None /\ t # None /\ ~Has(images, t) /\ Has(registry, t)
           /\ Starts(c, Tagged(images, {t}, ImageOf(registry, t)), m, ImageOf(registry, t))
        \/ Fail(c, "error") /\ UNCHANGED host
    BY DEF ComposeUp, Starts
  <1>. HIDE DEF m, images
  <1>9. m # None => m \in ModelOf /\ t \in ImageRef \cup {None}
    BY <1>4 DEF ModelOf
  <1>10. AloneOK(c) /\ m # None /\ image = None => t = up[c].tag
    BY <1>5 DEF Model, ImageName
  <1>. HIDE DEF t
  <1>11. (up[c].build = "none") <=> (up[c].tag = None)
    BY <1>1 DEF CommandOK, After
  <1>13. CASE m # None /\ t # None /\ Has(images, t) /\ Starts(c, images, m, ImageOf(images, t))
    <2>1. ImageOf(images, t) \in Version /\ \A v : Only(images, t, v) => ImageOf(images, t) = v
      BY <1>3, <1>13, ImageFacts
    <2>2. ASSUME AloneOK(c), image = None, up[c].build = "load"
          PROVE  ImageOf(images, t) = up[c].built
      BY <2>1, <2>2, <1>1, <1>6, <1>10, <1>13 DEF ImageOK, After, images
    <2>3. ASSUME AloneOK(c), image = None, up[c].build = "push", head = None PROVE FALSE
      <3>1. \A i \in images : i.tag \in Tag => i.tag.of # MaxEdits + up[c].number
        BY <2>3, <1>1, <1>6 DEF ImageOK, After, images
      <3>2. t \in Tag /\ t.of = MaxEdits + up[c].number
        BY <2>3, <1>1, <1>10, <1>13 DEF CommandOK, Command
      <3>. QED BY <3>1, <3>2, <1>13 DEF Has
    <2>. QED BY <2>1, <2>2, <2>3, <1>1, <1>2, <1>3, <1>5, <1>9, <1>13, StartsKeepsDeploy
  <1>14. CASE /\ m # None /\ t # None /\ ~Has(images, t) /\ Has(registry, t)
              /\ Starts(c, Tagged(images, {t}, ImageOf(registry, t)), m, ImageOf(registry, t))
    <2>. DEFINE v == ImageOf(registry, t)
                pulled == Tagged(images, {t}, v)
    <2>1. v \in Version /\ \A x : Only(registry, t, x) => v = x
      BY <1>3, <1>14, ImageFacts
    <2>2. t \in ImageRef /\ (t \in Tag => t.of <= MaxEdits + ups)
      BY <1>3, <1>9, <1>14 DEF Has
    <2>. HIDE DEF v
    <2>3. pulled \in SUBSET Image /\ \A i \in pulled : i.tag = t \/ i \in images
      BY <1>3, <2>1, <2>2, TaggedFacts
    <2>4. Starts(c, pulled, m, v)
      BY <1>14 DEF v
    <2>. HIDE DEF pulled
    <2>5. \A i \in pulled : i.tag \in Tag => i.tag.of <= MaxEdits + ups
      BY <1>3, <2>2, <2>3
    <2>6. ASSUME AloneOK(c), image = None, up[c].build = "load" PROVE FALSE
      BY <2>6, <1>1, <1>6, <1>10, <1>14 DEF ImageOK, After, images, Only
    <2>7. ASSUME AloneOK(c), image = None, up[c].build = "push" PROVE v = up[c].built
      BY <2>1, <2>7, <1>1, <1>6, <1>10, <1>14 DEF ImageOK, After
    <2>. QED BY <2>1, <2>3, <2>4, <2>5, <2>6, <2>7, <1>1, <1>2, <1>5, <1>9, <1>14,
                StartsKeepsDeploy
  <1>. QED BY <1>7, <1>8, <1>13, <1>14

LEMMA AgentKeepsDeploy ==
  ASSUME DeployInv, NEW e \in Env, AgentStep(e)
  PROVE  DeployInv'
  <1>1. host \in [Env -> Host] /\ UNCHANGED <<now, tree, dir, registry, up, ups, overlapped>>
    BY DEF DeployInv, StateOK, AgentStep, Outside
  <1>2. PICK a \in {"unready", "stable"} : host' = [host EXCEPT ![e].agent = a]
    BY DEF AgentStep
  <1>3. /\ host' \in [Env -> Host]
        /\ \A x \in Env : /\ host'[x].images = host[x].images /\ host'[x].files = host[x].files
                          /\ host'[x].running = host[x].running
    BY <1>1, <1>2 DEF Host
  <1>4. TreeOK' /\ StateOK' /\ TagsOK' /\ up' \in [Cli -> Command]
    BY <1>1, <1>3 DEF DeployInv, tree, TreeOK, StateOK, TagsOK
  <1>5. ASSUME NEW c \in Cli PROVE CommandOK(c)'
    BY <1>1 DEF DeployInv, tree, CommandOK, Active, At
  <1>6. Active' = Active /\ overlapped' = overlapped
    BY <1>1 DEF Active
  <1>7. ASSUME NEW c \in Active \ overlapped PROVE AloneOK(c)'
    <2>1. c \in Cli /\ up[c].env \in Env /\ AloneOK(c)
      BY DEF DeployInv, CommandOK, Active
    <2>2. DirOK(c)' /\ RunningOK(c)' /\ ImageOK(c)'
      BY <1>1, <1>3, <2>1 DEF AloneOK, DirOK, RunningOK, ImageOK, ImageName, At, Only, Has,
                                      tree
    <2>3. \A f \in File : (Queued(c, f)' <=> Queued(c, f)) /\ (There(c, f)' <=> There(c, f))
      BY <1>1, <1>3, <2>1 DEF Queued, Names, There
    <2>4. FilesOK(c)'
      <3>1. up[c].left \subseteq File
        BY <2>1 DEF DeployInv, Command
      <3>. QED BY <1>1, <1>3, <2>1, <2>3, <3>1 DEF AloneOK, FilesOK, At, tree
    <2>. QED BY <2>2, <2>4 DEF AloneOK
  <1>. QED BY <1>4, <1>5, <1>6, <1>7 DEF DeployInv

LEMMA QueryKeepsDeploy ==
  ASSUME DeployInv, NEW c \in Cli, NEW wait \in BOOLEAN, QueryTunnels(c, wait)
  PROVE  DeployInv'
  <1>1. /\ c \in Active /\ up[c] \in Command /\ up[c].env \in Env /\ CommandOK(c)
        /\ up[c].at = "urls"
        /\ (Active = {c} /\ c \notin overlapped => AloneOK(c))
    BY CommandFacts DEF QueryTunnels, At, Active
  <1>2. Outside /\ UNCHANGED <<dir, registry, host, ups>> /\ StateOK' /\ TagsOK'
    BY WorldStays DEF QueryTunnels, Outside
  <1>3. \/ Done(c)
        \/ \E why \in {"error", "unready", "silent"} : Fail(c, why)
        \/ up[c].tries < MaxAttempts /\ up' = [up EXCEPT ![c].tries = @ + 1]
    BY DEF QueryTunnels, Answered
  <1>4. CASE up[c].tries < MaxAttempts /\ up' = [up EXCEPT ![c].tries = @ + 1]
    <2>. DEFINE u == [up[c] EXCEPT !.tries = up[c].tries + 1]
    <2>1. up[c].tries + 1 \in 0 .. MaxAttempts
      BY <1>1, <1>4, DeployAssumption DEF Command
    <2>2. u \in Command /\ up' = [up EXCEPT ![c] = u]
      BY <1>1, <1>4, <2>1 DEF Command, DeployInv
    <2>3. Works(c, u) /\ up'[c] = u
      BY <1>1, <1>2, <2>2 DEF Works, DeployInv
    <2>4. /\ u.env = up[c].env /\ u.number = up[c].number /\ u.tag = up[c].tag
          /\ u.build = up[c].build /\ u.at = "urls" /\ u.built = up[c].built
      BY <1>1 DEF Command
    <2>. HIDE DEF u
    <2>5. CommandOK(c)'
      BY <1>1, <1>2, <2>3, <2>4 DEF CommandOK, Outside, tree, At, Before, After
    <2>6. ASSUME AloneOK(c) PROVE AloneOK(c)'
      <3>1. DirOK(c)' /\ FilesOK(c)' /\ ImageOK(c)'
        BY <2>3, <2>4 DEF DirOK, FilesOK, ImageOK, At, Before, After
      <3>2. RunningOK(c)'
        BY <1>1, <1>2, <2>3, <2>4, <2>6, NameStays DEF AloneOK, RunningOK, At
      <3>. QED BY <3>1, <3>2 DEF AloneOK
    <2>. QED BY <1>1, <1>2, <2>3, <2>5, <2>6, WorkKeepsInv
  <1>. QED BY <1>1, <1>2, <1>3, <1>4, EndOfCommand

-----------------------------------------------------------------------------
(* The theorems *)

LEMMA NextKeepsDeploy == DeployInv /\ [Next]_vars => DeployInv'
  <1>. SUFFICES ASSUME DeployInv, [Next]_vars PROVE DeployInv'
    OBVIOUS
  <1>1. CASE UNCHANGED vars
    <2>1. TreeOK' /\ StateOK' /\ TagsOK' /\ up' \in [Cli -> Command]
      BY <1>1 DEF DeployInv, vars, tree, TreeOK, StateOK, TagsOK
    <2>2. \A c \in Cli : CommandOK(c)'
      BY <1>1 DEF DeployInv, vars, tree, CommandOK, Active, At
    <2>3. Active' = Active /\ overlapped' = overlapped
      BY <1>1 DEF vars, tree, Active
    <2>4. \A c \in Active \ overlapped : AloneOK(c)'
      BY <1>1 DEF DeployInv, vars, tree, AloneOK, DirOK, FilesOK, ImageOK, RunningOK, ImageName, At, There,
                  Queued, Names, Only, Has
    <2>. QED BY <2>1, <2>2, <2>3, <2>4 DEF DeployInv
  <1>2. CASE Next
    BY <1>2, TickKeepsDeploy, EditKeepsDeploy, CommitKeepsDeploy, BeginKeepsDeploy,
       RemoteModelKeepsDeploy, TagHeadKeepsDeploy, TagChangesKeepsDeploy,
       WriteBuildKeepsDeploy, BakeKeepsDeploy, WriteComposeKeepsDeploy, WalkKeepsDeploy,
       AddEntryKeepsDeploy, FinalizeKeepsDeploy, ComposeUpKeepsDeploy, AgentKeepsDeploy,
       QueryKeepsDeploy DEF Next
  <1>. QED BY <1>1, <1>2

LEMMA DeployInvariant == Spec => []DeployInv
  BY InitKeepsDeploy, NextKeepsDeploy, PTL DEF Spec

LEMMA InvType == DeployInv => TypeOK
  <1>. SUFFICES ASSUME DeployInv PROVE TypeOK
    OBVIOUS
  <1>1. /\ now \in 0 .. MaxTime /\ edits \in Version /\ ups \in 0 .. MaxUps
        /\ image \in {None, Own}
        /\ source.web \in Version /\ source.conf.content \in Version
        /\ head # None => head.web \in Version /\ head.conf \in Version
        /\ overlapped \subseteq Cli
    BY DEF DeployInv, TreeOK, Working
  <1>2. /\ dir # None => dir.build = None \/ dir.build \in Tag
        /\ \A i \in registry : i.tag \in ImageRef /\ i.content \in Version
        /\ \A e \in Env : host[e].agent \in {"none", "starting", "unready", "stable"}
    BY DEF DeployInv, StateOK, Dir, Image, Host
  <1>3. ASSUME NEW c \in Cli
        PROVE  /\ up[c].at \in Stage /\ up[c].env \in Env \cup {None}
               /\ up[c].tag = None \/ up[c].tag \in Tag
               /\ up[c].left \subseteq File /\ up[c].tries \in 0 .. MaxAttempts
               /\ \A i \in 1 .. Len(up[c].queue) : up[c].queue[i].name \in File
    <2>1. up[c] \in Command /\ up[c].queue \in Seq(Entry)
      BY DEF DeployInv, Command
    <2>2. \A i \in 1 .. Len(up[c].queue) : up[c].queue[i] \in Entry
      BY <2>1
    <2>. QED BY <2>1, <2>2 DEF Command, Entry
  <1>. QED BY <1>1, <1>2, <1>3 DEF TypeOK

\* The state of a host, of its commands and of their machines is of its type,
\* whatever number of commands share the local directory.
THEOREM DeployTypeCorrect == Spec => []TypeOK
  BY DeployInvariant, InvType, PTL

LEMMA InvUploaded == DeployInv => UploadedBeforeUp
  <1>. SUFFICES ASSUME DeployInv, NEW c \in Cli, At(c, "compose"), Alone(c)
                PROVE  LET there == host[up[c].env].files w == up[c].walked IN
                       /\ \A f \in File : there[f] # NoFile
                       /\ \/ there["conf"].content >= w.content
                          \/ /\ up[c].skip /\ there["conf"].size = w.size
                             /\ there["conf"].mtime = w.mtime
    BY DEF UploadedBeforeUp
  <1>1. c \in Active \ overlapped /\ FilesOK(c) /\ up[c].at = "compose"
    BY DEF DeployInv, AloneOK, Active, At, Alone
  <1>2. \A f \in File : There(c, f)
    BY <1>1 DEF FilesOK, At, Queued, Names
  <1>3. \A f \in File : host[up[c].env].files[f] # NoFile
    BY <1>2 DEF There, NoFile
  <1>. QED BY <1>2, <1>3 DEF There, File

\* When a command that ran alone starts the containers, every file they mount
\* is on the machine, and none is older than what the command found.
THEOREM UploadedCorrect == Spec => []UploadedBeforeUp
  BY DeployInvariant, InvUploaded, PTL

LEMMA InvOwn == DeployInv => OwnModel /\ FreshImage
  <1>. SUFFICES ASSUME DeployInv PROVE OwnModel /\ FreshImage
    OBVIOUS
  <1>1. ASSUME NEW c \in Cli, At(c, "urls"), Alone(c)
        PROVE  RunningOK(c)
    BY <1>1 DEF DeployInv, AloneOK, CommandOK, Active, At, Alone
  <1>2. OwnModel
    <2>. SUFFICES ASSUME NEW c \in Cli, At(c, "urls"), Alone(c)
                  PROVE  LET r == host[up[c].env].running IN
                         /\ r.model.env = up[c].env
                         /\ r.model.tag = ImageName(c)
      BY DEF OwnModel
    <2>1. host[up[c].env].running.model = Model(up[c].env, ImageName(c))
      BY <1>1 DEF RunningOK
    <2>2. Model(up[c].env, ImageName(c)).env = up[c].env
          /\ Model(up[c].env, ImageName(c)).tag = ImageName(c)
      BY DEF Model
    <2>. QED BY <1>1, <2>1, <2>2
  <1>3. FreshImage
    BY <1>1 DEF FreshImage, RunningOK
  <1>. QED BY <1>2, <1>3

\* A command that ran alone leaves its environment with the model it made for
\* it, with the image that the service names or else the one it has built,
\* whatever earlier commands wrote to the directory they share.
THEOREM OwnModelCorrect == Spec => []OwnModel
  BY DeployInvariant, InvOwn, PTL

\* Of a service that names no image, the image that is built on the machine, or
\* under a random tag, is the one that runs, whatever images earlier commands have left
\* there and in the registry.
THEOREM FreshImageCorrect == Spec => []FreshImage
  BY DeployInvariant, InvOwn, PTL

-----------------------------------------------------------------------------
(* The flags of drivers *)

\* The first of three that says something, however they are put together.
LEMMA OverAssociative ==
  ASSUME NEW a, NEW b, NEW c
  PROVE  Over(Over(a, b), c) = Over(a, Over(b, c))
BY DEF Over

\* What is left out of a profile comes back with the defaults.
LEMMA ExcludeKeeps ==
  ASSUME NEW d, NEW flags
  PROVE  Over(excludeDefaultFlags(d, Over(flags, defaultFlags(d))), defaultFlags(d))
           = Over(flags, defaultFlags(d))
BY DEF Over, excludeDefaultFlags, defaultFlags

\* No variable of the shell is for a flag that has a default: the answers of a
\* user who takes the default come before it.
LEMMA AnswersKeep ==
  ASSUME NEW d \in Driver, NEW answers, NEW v
  PROVE  Over(Over(formatFlagsToArgs(d, answers), shellFlags(d, v)), defaultFlags(d))
           = Over(Over(answers, shellFlags(d, v)), defaultFlags(d))
<1>1. \A f \in Flag : f \notin machineDrivers(d).default \/ f \notin machineDrivers(d).env
  BY FlagAssumption
  DEF machineDrivers, lightsailFlags, gceFlags, azureFlags, kubePodFlags, Flag
<1>2. \A f \in Flag : defaultFlags(d)[f] = NoFlag \/ shellFlags(d, v)[f] = NoFlag
  BY <1>1 DEF defaultFlags, shellFlags
<1> DEFINE def == defaultFlags(d)
           sh == shellFlags(d, v)
<1>3. \A f \in Flag : def[f] = NoFlag \/ sh[f] = NoFlag
  BY <1>2
<1> HIDE DEF def, sh
<1>4. formatFlagsToArgs(d, answers) = [f \in Flag |-> IF answers[f] = def[f] THEN NoFlag ELSE answers[f]]
  BY DEF formatFlagsToArgs, excludeDefaultFlags, def
<1>5. Over(Over(formatFlagsToArgs(d, answers), sh), def) = Over(Over(answers, sh), def)
  BY <1>3, <1>4 DEF Over
<1> QED
  BY <1>5 DEF def, sh

CommandFields == {"at", "driver", "given", "shell", "defaults", "finds", "creates", "creating",
                  "changed"}

\* With the defaults, a profile says what was last chosen for it.
ProfileSays ==
  \A d \in Driver : Over(stored[d], defaultFlags(d)) = Over(chosen[d], defaultFlags(d))

\* The defaults in the shared flag definitions are those of the driver, but for
\* what its first use has found, which its second would find as well.
CommandSays ==
  ~command.changed =>
    /\ command.at \in {"driver", "creation driver"} =>
         Over(flagDefaults(command.driver), command.defaults)
           = Over(flagDefaults(command.driver), defaultFlags(command.driver))
    /\ command.at = "creation driver" => command.finds = LastAsked["place"]

FlagsInv ==
  /\ profileDriver \in Driver \cup {NoFlag} /\ config.driver \in Driver \cup {NoFlag}
  /\ DOMAIN stored = Driver /\ DOMAIN chosen = Driver
  /\ DOMAIN command = CommandFields /\ DOMAIN command.defaults = Flag
  /\ command.at # "idle" => profileDriver # NoFlag /\ command.driver \in Driver
  /\ ProfileSays
  /\ CommandSays
  /\ AsAsked

LEMMA FlagsInitHasInv == FlagsInit => FlagsInv
<1> SUFFICES ASSUME FlagsInit PROVE FlagsInv
  OBVIOUS
<1>1. config.driver \in Driver \cup {NoFlag}
  BY DEF FlagsInit, NoConfig
<1>2. /\ command.at = "idle" /\ DOMAIN command = CommandFields /\ DOMAIN command.defaults = Flag
  BY DEF FlagsInit, NoCommand, CommandFields, NoFlags
<1> QED
  BY <1>1, <1>2 DEF FlagsInit, FlagsInv, ProfileSays, CommandSays, AsAsked

LEMMA FlagDefaultsOver ==
  ASSUME NEW d, NEW c
  PROVE  Over(flagDefaults(d), c) = Over(config.drivers[d], Over(stored[d], c))
BY OverAssociative DEF flagDefaults

\* What a command that nobody has disturbed parses is what was last asked for.
LEMMA ParsedIsAsked ==
  ASSUME FlagsInv, ~command.changed, command.at \in {"driver", "creation driver"}
  PROVE  parsedFlags = LastAsked
<1> DEFINE d == command.driver
           def == defaultFlags(d)
<1>1. d \in Driver
  BY DEF FlagsInv
<1>2. Over(flagDefaults(d), command.defaults) = Over(flagDefaults(d), def)
  BY DEF FlagsInv, CommandSays
<1>3. Over(flagDefaults(d), def) = Over(config.drivers[d], Over(stored[d], def))
  BY FlagDefaultsOver
<1>4. Over(stored[d], def) = Over(chosen[d], def)
  BY <1>1 DEF FlagsInv, ProfileSays
<1> QED
  BY <1>2, <1>3, <1>4 DEF parsedFlags, LastAsked

\* The profile is made or updated, and says what was chosen.
LEMMA StoredKeepsSaying ==
  ASSUME FlagsInv, NEW d \in Driver, NEW flags, NEW choice,
         stored' = [stored EXCEPT ![d] = flags], chosen' = [chosen EXCEPT ![d] = choice],
         Over(flags, defaultFlags(d)) = Over(choice, defaultFlags(d))
  PROVE  ProfileSays' /\ DOMAIN stored' = Driver /\ DOMAIN chosen' = Driver
<1>1. /\ DOMAIN stored' = Driver /\ DOMAIN chosen' = Driver
      /\ stored'[d] = flags /\ chosen'[d] = choice
      /\ \A e \in Driver \ {d} : stored'[e] = stored[e] /\ chosen'[e] = chosen[e]
  BY DEF FlagsInv
<1>2. ASSUME NEW e \in Driver
      PROVE  Over(stored'[e], defaultFlags(e)) = Over(chosen'[e], defaultFlags(e))
  BY <1>1 DEF FlagsInv, ProfileSays
<1> QED
  BY <1>1, <1>2 DEF ProfileSays

LEMMA CreateKeepsInv ==
  ASSUME FlagsInv, NEW d \in Driver, NEW args, NEW shell, NEW choice,
         profileCreate(d, args, shell), chosen' = [chosen EXCEPT ![d] = choice],
         Over(Over(args, shellFlags(d, shell)), defaultFlags(d)) = Over(choice, defaultFlags(d))
  PROVE  FlagsInv'
<1>1. Over(extractDriverFlags(d, Over(Over(args, shellFlags(d, shell)), defaultFlags(d))),
           defaultFlags(d)) = Over(choice, defaultFlags(d))
  BY ExcludeKeeps DEF extractDriverFlags
<1>2. ProfileSays' /\ DOMAIN stored' = Driver /\ DOMAIN chosen' = Driver
  BY <1>1, StoredKeepsSaying DEF profileCreate
<1>3. command.at = "idle" /\ command' = command /\ profileDriver' = d /\ config' = config
  BY DEF profileCreate, FlagsInv
<1> QED
  BY <1>2, <1>3 DEF FlagsInv, CommandSays, AsAsked

LEMMA FlagsStepKeepsInv == FlagsInv /\ [FlagsNext]_flagVars => FlagsInv'
<1> SUFFICES ASSUME FlagsInv, [FlagsNext]_flagVars PROVE FlagsInv'
  OBVIOUS
<1>1. ASSUME NEW d \in Driver, NEW args, NEW shell, CreateProfile(d, args, shell)
      PROVE  FlagsInv'
  BY <1>1, CreateKeepsInv DEF CreateProfile
<1>2. ASSUME NEW d \in Driver, NEW answers, NEW shell, InitProfile(d, answers, shell)
      PROVE  FlagsInv'
  BY <1>2, CreateKeepsInv, AnswersKeep DEF InitProfile
<1>3. ASSUME NEW d \in Driver, NEW given, NEW unset, NEW shell,
             UpdateProfileConfig(d, given, unset, shell)
      PROVE  FlagsInv'
  <2> DEFINE set == Over(given, shellFlags(d, shell))
             def == defaultFlags(d)
  <2>1. /\ stored' = [stored EXCEPT ![d] = Over(set, Unset(stored[d], unset))]
        /\ chosen' = [chosen EXCEPT ![d] = Over(set, Unset(chosen[d], unset))]
    BY <1>3 DEF UpdateProfileConfig, validateUnset, FlagsInv
  <2>2. Over(stored[d], def) = Over(chosen[d], def)
    BY DEF FlagsInv, ProfileSays
  <2>3. \A f \in Flag : Over(stored[d], def)[f] = Over(chosen[d], def)[f]
    BY <2>2
  <2> HIDE DEF set, def
  <2>4. Over(Over(set, Unset(stored[d], unset)), def) = Over(Over(set, Unset(chosen[d], unset)), def)
    BY <2>3 DEF Over, Unset
  <2>5. ProfileSays' /\ DOMAIN stored' = Driver /\ DOMAIN chosen' = Driver
    BY <2>1, <2>4, StoredKeepsSaying DEF def
  <2>6. /\ DOMAIN command' = CommandFields /\ command'.at = command.at
        /\ command'.driver = command.driver /\ command'.defaults = command.defaults
        /\ command'.changed
    BY <1>3 DEF UpdateProfileConfig, FlagsInv, CommandFields
  <2>7. profileDriver' = d /\ config' = config /\ profileDriver # NoFlag
    BY <1>3 DEF UpdateProfileConfig
  <2> QED
    BY <2>5, <2>6, <2>7, FlagAssumption DEF FlagsInv, CommandSays, AsAsked
<1>4. ASSUME NEW flag \in Driver \cup {NoFlag}, NEW given, NEW shell, NEW creating,
             RunCommand(flag, given, shell, creating)
      PROVE  FlagsInv'
  <2> DEFINE d == driverName(flag)
  <2>1. d \in Driver
    BY <1>4 DEF RunCommand, driverName, FirstOf, FlagsInv
  <2>2. command' = [NoCommand EXCEPT !.at = "driver", !.driver = d, !.creating = creating,
                      !.given = given, !.shell = shellFlags(d, shell), !.defaults = defaultFlags(d)]
        /\ UNCHANGED <<profileDriver, stored, chosen, config>> /\ profileDriver # NoFlag
    BY <1>4 DEF RunCommand
  <2> HIDE DEF d
  <2>3. /\ DOMAIN command' = CommandFields /\ command'.at = "driver" /\ command'.driver = d
        /\ command'.defaults = defaultFlags(d)
    BY <2>2 DEF NoCommand, CommandFields
  <2>4. DOMAIN command'.defaults = Flag
    BY <2>3 DEF defaultFlags
  <2>5. ProfileSays' /\ CommandSays' /\ AsAsked'
    BY <2>2, <2>3 DEF FlagsInv, ProfileSays, CommandSays, AsAsked
  <2> QED
    BY <2>1, <2>2, <2>3, <2>4, <2>5 DEF FlagsInv
<1>5. CASE UseDriver
  <2>1. command.at = "driver" /\ UNCHANGED <<profileDriver, stored, chosen, config>>
    BY <1>5 DEF UseDriver
  <2>2. ProfileSays'
    BY <2>1 DEF FlagsInv, ProfileSays
  <2>3. CASE Refused(parsedFlags)
    <3>1. command' = [command EXCEPT !.at = "refused"]
      BY <1>5, <2>3 DEF UseDriver
    <3>2. /\ DOMAIN command' = CommandFields /\ command'.at = "refused"
          /\ command'.driver = command.driver /\ command'.defaults = command.defaults
          /\ command'.given = command.given /\ command'.shell = command.shell
          /\ command'.changed = command.changed
      BY <3>1 DEF FlagsInv, CommandFields
    <3>3. LastAsked' = LastAsked
      BY <2>1, <3>2 DEF LastAsked
    <3>4. ~command.changed => Refused(LastAsked)
      BY <2>1, <2>3, ParsedIsAsked
    <3>5. Refused(LastAsked)' <=> Refused(LastAsked)
      BY <3>2, <3>3 DEF Refused
    <3> QED
      BY <2>1, <2>2, <3>2, <3>4, <3>5 DEF FlagsInv, CommandSays, AsAsked
  <2>4. CASE ~Refused(parsedFlags)
    <3> DEFINE place == Over(flagDefaults(command.driver), command.defaults)["place"]
    <3>1. command' = [command EXCEPT !.finds = parsedFlags["place"],
                        !.defaults["place"] = place,
                        !.at = IF command.creating THEN "creation driver" ELSE "done"]
      BY <1>5, <2>4 DEF UseDriver, contextFromFlags
    <3>2. /\ DOMAIN command' = CommandFields
          /\ command'.at = (IF command.creating THEN "creation driver" ELSE "done")
          /\ command'.finds = parsedFlags["place"]
          /\ command'.defaults = [command.defaults EXCEPT !["place"] = place]
          /\ command'.driver = command.driver /\ command'.creating = command.creating
          /\ command'.given = command.given /\ command'.shell = command.shell
          /\ command'.changed = command.changed
      BY <3>1 DEF FlagsInv, CommandFields
    <3>3. LastAsked' = LastAsked /\ \A d \in Driver : flagDefaults(d)' = flagDefaults(d)
      BY <2>1, <3>2 DEF LastAsked, flagDefaults
    <3>4. DOMAIN command'.defaults = Flag
      BY <3>2 DEF FlagsInv
    <3>5. ASSUME ~command.changed PROVE command'.finds = LastAsked["place"]
      BY <2>1, <3>2, <3>5, ParsedIsAsked
    <3>6. Over(flagDefaults(command.driver), command'.defaults)
            = Over(flagDefaults(command.driver), command.defaults)
      <4> DEFINE found == flagDefaults(command.driver)
                 old == command.defaults
                 new == command'.defaults
      <4>1. DOMAIN old = Flag /\ new = [old EXCEPT !["place"] = Over(found, old)["place"]]
        BY <3>2 DEF FlagsInv
      <4> HIDE DEF found, old, new
      <4>2. Over(found, old)["place"] = IF found["place"] = NoFlag THEN old["place"] ELSE found["place"]
        BY DEF Over, Flag
      <4>3. \A f \in Flag : found[f] = NoFlag => new[f] = old[f]
        BY <4>1, <4>2
      <4>4. Over(found, new) = Over(found, old)
        BY <4>3 DEF Over
      <4> QED
        BY <4>4 DEF found, old, new
    <3>7. CommandSays'
      BY <2>1, <3>2, <3>3, <3>5, <3>6 DEF FlagsInv, CommandSays
    <3>8. AsAsked'
      BY <3>2, <3>3, <3>5 DEF AsAsked
    <3> HIDE DEF place
    <3> QED
      BY <2>1, <2>2, <3>2, <3>4, <3>7, <3>8 DEF FlagsInv
  <2> QED
    BY <2>3, <2>4
<1>6. CASE UseMachineCreationDriver
  <2>1. command.at = "creation driver" /\ UNCHANGED <<profileDriver, stored, chosen, config>>
    BY <1>6 DEF UseMachineCreationDriver
  <2>2. ProfileSays'
    BY <2>1 DEF FlagsInv, ProfileSays
  <2>3. CASE Refused(parsedFlags)
    <3>1. command' = [command EXCEPT !.at = "refused"]
      BY <1>6, <2>3 DEF UseMachineCreationDriver
    <3>2. /\ DOMAIN command' = CommandFields /\ command'.at = "refused"
          /\ command'.driver = command.driver /\ command'.defaults = command.defaults
          /\ command'.given = command.given /\ command'.shell = command.shell
          /\ command'.changed = command.changed
      BY <3>1 DEF FlagsInv, CommandFields
    <3>3. LastAsked' = LastAsked
      BY <2>1, <3>2 DEF LastAsked
    <3>4. ~command.changed => Refused(LastAsked)
      BY <2>1, <2>3, ParsedIsAsked
    <3>5. Refused(LastAsked)' <=> Refused(LastAsked)
      BY <3>2, <3>3 DEF Refused
    <3> QED
      BY <2>1, <2>2, <3>2, <3>4, <3>5 DEF FlagsInv, CommandSays, AsAsked
  <2>4. CASE ~Refused(parsedFlags)
    <3>1. command' = [command EXCEPT !.creates = parsedFlags, !.at = "done"]
      BY <1>6, <2>4 DEF UseMachineCreationDriver, machineCreationContextFromFlags
    <3>2. /\ DOMAIN command' = CommandFields /\ command'.at = "done"
          /\ command'.finds = command.finds /\ command'.creates = parsedFlags
          /\ command'.driver = command.driver /\ command'.defaults = command.defaults
          /\ command'.given = command.given /\ command'.shell = command.shell
          /\ command'.changed = command.changed
      BY <3>1 DEF FlagsInv, CommandFields
    <3>3. LastAsked' = LastAsked
      BY <2>1, <3>2 DEF LastAsked
    <3>4. ~command.changed => command.finds = LastAsked["place"] /\ parsedFlags = LastAsked
      BY <2>1, ParsedIsAsked DEF FlagsInv, CommandSays
    <3> QED
      BY <2>1, <2>2, <3>2, <3>3, <3>4 DEF FlagsInv, CommandSays, AsAsked
  <2> QED
    BY <2>3, <2>4
<1>7. CASE EndCommand
  <2>1. /\ command'.at = "idle" /\ DOMAIN command' = CommandFields
        /\ DOMAIN command'.defaults = Flag
    BY <1>7 DEF EndCommand, NoCommand, CommandFields, NoFlags
  <2> QED
    BY <1>7, <2>1 DEF EndCommand, FlagsInv, ProfileSays, CommandSays, AsAsked
<1>8. CASE UNCHANGED flagVars
  BY <1>8 DEF flagVars, FlagsInv, ProfileSays, CommandSays, AsAsked, LastAsked, flagDefaults, Refused
<1> QED
  BY <1>1, <1>2, <1>3, <1>4, <1>5, <1>6, <1>7, <1>8 DEF FlagsNext

\* Commands, and updates in between of any number: the flags that a command uses
\* are those that were last asked for, whatever the profile leaves out, and both
\* of its drivers have the same (driver-command.ts, config/update.ts).
THEOREM AskedCorrect == FlagsSpec => []AsAsked
<1>1. FlagsInv => AsAsked
  BY DEF FlagsInv
<1> QED
  BY <1>1, FlagsInitHasInv, FlagsStepKeepsInv, PTL DEF FlagsSpec

-----------------------------------------------------------------------------
(* Telemetry *)

Event == {"plugin-init-error", "run", "$identify", "$groupidentify", "command", "postrun", "error",
          "exit", "uncaughtException"}

\* Who asks for a flush.
Asker == {"push", "timer", "initHook", "catch", "fault", "beforeExit"} \cup Signal

\* The event that somebody who awaits a flush waits for.
AwaitedBy == [initHook |-> "plugin-init-error", catch |-> "error",
              SIGINT |-> "exit", SIGTERM |-> "exit"]

Awaiter == {"initHook", "catch"} \cup Signal

\* Events that are captured once: an event of them that is in a batch is not captured again.
Once == {"plugin-init-error", "error", "exit"}

LEMMA ContainsConcat ==
  ASSUME NEW s \in Seq(Event), NEW t \in Seq(Event), NEW e
  PROVE  /\ s \o t \in Seq(Event)
         /\ Contains(s \o t, e) <=> Contains(s, e) \/ Contains(t, e)
<1>1. s \o t \in Seq(Event) /\ Len(s \o t) = Len(s) + Len(t)
  OBVIOUS
<1>2. ASSUME NEW i \in 1 .. Len(s) PROVE (s \o t)[i] = s[i] /\ i \in 1 .. Len(s \o t)
  BY <1>1
<1>3. ASSUME NEW i \in 1 .. Len(t)
      PROVE  (s \o t)[Len(s) + i] = t[i] /\ Len(s) + i \in 1 .. Len(s \o t)
  BY <1>1
<1>4. ASSUME NEW i \in 1 .. Len(s \o t), i \notin 1 .. Len(s)
      PROVE  (s \o t)[i] = t[i - Len(s)] /\ i - Len(s) \in 1 .. Len(t)
  BY <1>1, <1>4
<1>5. ASSUME Contains(s \o t, e) PROVE Contains(s, e) \/ Contains(t, e)
  BY <1>2, <1>4, <1>5 DEF Contains
<1>6. ASSUME Contains(s, e) \/ Contains(t, e) PROVE Contains(s \o t, e)
  BY <1>2, <1>3, <1>6 DEF Contains
<1> QED
  BY <1>1, <1>5, <1>6

LEMMA ContainsAppend ==
  ASSUME NEW s \in Seq(Event), NEW x \in Event, NEW e
  PROVE  /\ Append(s, x) \in Seq(Event)
         /\ Contains(Append(s, x), e) <=> Contains(s, e) \/ e = x
<1>1. /\ Append(s, x) \in Seq(Event) /\ Len(s) \in Nat /\ Len(Append(s, x)) = Len(s) + 1
      /\ \A i \in 1 .. Len(s) : Append(s, x)[i] = s[i]
      /\ Append(s, x)[Len(s) + 1] = x
  OBVIOUS
<1>2. \A i \in 1 .. Len(s) + 1 : i \in 1 .. Len(s) \/ i = Len(s) + 1
  BY <1>1
<1>3. \A i \in 1 .. Len(s) : i \in 1 .. Len(s) + 1
  BY <1>1
<1>4. Len(s) + 1 \in 1 .. Len(s) + 1
  BY <1>1
<1> QED
  BY <1>1, <1>2, <1>3, <1>4, Zenon DEF Contains

LEMMA ConcatAssociates ==
  ASSUME NEW s \in Seq(Event), NEW t \in Seq(Event), NEW u \in Seq(Event)
  PROVE  (s \o t) \o u = s \o (t \o u)
OBVIOUS

LEMMA ContainsNothing == \A e : ~Contains(<<>>, e)
BY DEF Contains

LEMMA ContainsOne ==
  ASSUME NEW x \in Event
  PROVE  <<x>> \in Seq(Event) /\ \A e : Contains(<<x>>, e) <=> e = x
BY DEF Contains

\* Those who have asked for a flush.
Asks == {flushLimit[i] : i \in 1 .. Len(flushLimit)}

\* The events, and the batches they are in.
Stream ==
  /\ pendingEvents \in Seq(Event) /\ batched \in Seq(Event)
  /\ batched \o pendingEvents = captured
  /\ DOMAIN sending = {"by", "batch"} /\ sending.batch \in Seq(Event)
  /\ \A e \in Once : Contains(batched, e) => ~Contains(pendingEvents, e)

\* Who awaits a flush has captured the event, and is at the step that awaits it.
AskerOK(a) ==
  /\ a \in Awaiter => Contains(captured, AwaitedBy[a])
  /\ a = "catch" => process \in {"catching", "caught"} \cup Ended
  /\ a = "initHook" => process \in {"initFailing", "initFailed"} \cup Ended

\* Once the process has come to its end it only captures what it flushes.
TelemetryInv ==
  /\ Stream
  /\ flushLimit \in Seq(Asker)
  /\ \A a \in Asks : AskerOK(a)
  /\ AskerOK(sending.by)
  /\ sending.by \in Awaiter => Contains(batched, AwaitedBy[sending.by])
  /\ exitCaptured <=> Contains(captured, "exit")
  /\ process = "init" => ~Contains(captured, "plugin-init-error")
  /\ process \in {"init", "run"} => ~Contains(captured, "error")
  /\ "beforeExit" \notin listeners => exitCaptured /\ process \in {"ran"} \cup Ended
  /\ "beforeExit" \notin listeners /\ process \notin Ended =>
       pendingEvents = <<>> \/ flushLimit # <<>>
  /\ EventsTried

LEMMA TelemetryInitHasInv == TelemetryInit => TelemetryInv
<1> SUFFICES ASSUME TelemetryInit PROVE TelemetryInv
  OBVIOUS
<1>1. Stream
  BY ContainsNothing DEF TelemetryInit, Stream, NoBatch
<1>2. flushLimit \in Seq(Asker) /\ Asks = {}
  BY DEF TelemetryInit, Asks
<1>3. sending.by = "nobody" /\ "nobody" \notin Awaiter /\ AskerOK(sending.by)
  BY DEF TelemetryInit, NoBatch, Awaiter, Signal, AskerOK
<1>4. EventsTried
  BY <1>1 DEF TelemetryInit, EventsTried, Stream
<1> QED
  BY <1>1, <1>2, <1>3, <1>4, ContainsNothing DEF TelemetryInit, TelemetryInv

\* Events that are captured are in no batch yet, and what was tried stays so.
LEMMA CaptureKeepsStream ==
  ASSUME Stream, NEW events \in Seq(Event), Captures(events), UNCHANGED <<sending, batched>>,
         \A e \in Once : Contains(events, e) => ~Contains(captured, e)
  PROVE  /\ Stream'
         /\ \A e : Contains(captured, e)' <=> Contains(captured, e) \/ Contains(events, e)
         /\ \A e : Tried(e)' <=> Tried(e)
<1>1. /\ pendingEvents' \in Seq(Event)
      /\ \A e : Contains(pendingEvents', e) <=> Contains(pendingEvents, e) \/ Contains(events, e)
  BY ContainsConcat DEF Stream, Captures
<1>2. captured \in Seq(Event)
      /\ \A e : Contains(captured, e) <=> Contains(batched, e) \/ Contains(pendingEvents, e)
  BY ContainsConcat DEF Stream
<1>3. \A e : Contains(captured', e) <=> Contains(captured, e) \/ Contains(events, e)
  BY <1>2, ContainsConcat DEF Captures
<1>4. batched' \o pendingEvents' = captured'
  BY ConcatAssociates DEF Stream, Captures
<1>5. \A e \in Once : Contains(batched', e) => ~Contains(pendingEvents', e)
  BY <1>1, <1>2 DEF Stream
<1>6. Stream'
  BY <1>1, <1>4, <1>5 DEF Stream
<1>7. \A e : Tried(e)' <=> Tried(e)
  BY DEF Tried
<1> QED
  BY <1>3, <1>6, <1>7

\* Where the process may go in a step that captures or asks.
Moved ==
  \/ process' = process
  \/ process = "init" /\ process' \in {"initFailing", "run"}
  \/ process = "run" /\ process' \in {"ran", "catching"}
  \/ process' = "exited"

\* A step that captures events and asks for flushes.
LEMMA CaptureStep ==
  ASSUME TelemetryInv, process \notin Ended, Moved,
         NEW events \in Seq(Event), Captures(events), UNCHANGED <<sending, batched, raised>>,
         \A e \in Once : Contains(events, e) => ~Contains(captured, e),
         NEW by, flushLimit' \in Seq(Asker), Asks' \subseteq Asks \cup {"push", by}, AskerOK(by)',
         exitCaptured' <=> exitCaptured \/ Contains(events, "exit"),
         Contains(events, "plugin-init-error") => process' # "init",
         Contains(events, "error") => process' \notin {"init", "run"},
         "beforeExit" \notin listeners' => exitCaptured' /\ process' \in {"ran"} \cup Ended,
         "beforeExit" \notin listeners' /\ process' \notin Ended => flushLimit' # <<>>
  PROVE  TelemetryInv'
<1>1. /\ Stream'
      /\ \A e : Contains(captured, e)' <=> Contains(captured, e) \/ Contains(events, e)
      /\ \A e : Tried(e)' <=> Tried(e)
  BY CaptureKeepsStream DEF TelemetryInv
<1>2. ASSUME NEW a, AskerOK(a) PROVE AskerOK(a)'
  BY <1>1, <1>2 DEF AskerOK, Moved, Ended
<1>3. AskerOK("push")'
  BY DEF AskerOK, Awaiter, Signal
<1>4. \A a \in Asks' : AskerOK(a)'
  BY <1>2, <1>3 DEF TelemetryInv
<1>5. AskerOK(sending.by)' /\ (sending'.by \in Awaiter => Contains(batched', AwaitedBy[sending'.by]))
  BY <1>2 DEF TelemetryInv
<1>6. EventsTried'
  <2>1. process' \in {"left", "caught", "initFailed"} => process' = process
    BY DEF Moved
  <2>2. process # "left"
    BY DEF Ended
  <2>3. batched' \o pendingEvents' = captured'
    BY <1>1 DEF Stream
  <2> QED
    BY <1>1, <2>1, <2>2, <2>3 DEF TelemetryInv, EventsTried
<1>7. /\ process' = "init" => ~Contains(captured', "plugin-init-error")
      /\ process' \in {"init", "run"} => ~Contains(captured', "error")
  BY <1>1 DEF TelemetryInv, Moved
<1> QED
  BY <1>1, <1>4, <1>5, <1>6, <1>7 DEF TelemetryInv

LEMMA PushQueue ==
  ASSUME flushLimit \in Seq(Asker), NEW events \in Seq(Event)
  PROVE  /\ PushFlushes(events) \in Seq(Asker)
         /\ \A i \in 1 .. Len(PushFlushes(events)) : PushFlushes(events)[i] \in Asks \cup {"push"}
<1> DEFINE pushes == [i \in 1 .. Len(events) |-> "push"]
<1>1. Len(events) \in Nat
  OBVIOUS
<1>2. "push" \in Asker
  BY DEF Asker
<1>3. pushes \in Seq(Asker) /\ Len(pushes) = Len(events)
      /\ \A i \in 1 .. Len(pushes) : pushes[i] = "push"
  BY <1>1, <1>2
<1>4. CASE debounceDisabled
  <2>1. PushFlushes(events) = flushLimit \o pushes
    BY <1>4 DEF PushFlushes
  <2> HIDE DEF pushes
  <2>2. flushLimit \o pushes \in Seq(Asker)
    BY <1>3
  <2>3. ASSUME NEW i \in 1 .. Len(flushLimit \o pushes)
        PROVE  (flushLimit \o pushes)[i] \in Asks \cup {"push"}
    <3>1. CASE i \in 1 .. Len(flushLimit)
      BY <1>3, <3>1 DEF Asks
    <3>2. CASE i \notin 1 .. Len(flushLimit)
      <4>1. (flushLimit \o pushes)[i] = pushes[i - Len(flushLimit)]
            /\ i - Len(flushLimit) \in 1 .. Len(pushes)
        BY <1>3, <3>2
      <4> QED
        BY <1>3, <4>1
    <3> QED
      BY <3>1, <3>2
  <2> QED
    BY <2>1, <2>2, <2>3
<1>5. CASE ~debounceDisabled
  BY <1>5 DEF PushFlushes, Asks
<1> QED
  BY <1>4, <1>5

LEMMA PushAsks ==
  ASSUME flushLimit \in Seq(Asker), NEW events \in Seq(Event), Push(events)
  PROVE  flushLimit' \in Seq(Asker) /\ Asks' \subseteq Asks \cup {"push"}
<1>1. flushLimit' = PushFlushes(events)
  BY DEF Push
<1>2. Asks' = {PushFlushes(events)[i] : i \in 1 .. Len(PushFlushes(events))}
  BY <1>1 DEF Asks
<1> QED
  BY <1>1, <1>2, PushQueue

LEMMA FlushAsks ==
  ASSUME flushLimit \in Seq(Asker), NEW events \in Seq(Event), NEW by \in Asker,
         PushAndFlush(events, by)
  PROVE  /\ flushLimit' \in Seq(Asker) /\ flushLimit' # <<>>
         /\ Asks' \subseteq Asks \cup {"push", by}
<1> DEFINE q == PushFlushes(events)
<1>1. q \in Seq(Asker) /\ \A i \in 1 .. Len(q) : q[i] \in Asks \cup {"push"}
  BY PushQueue
<1>2. flushLimit' = Append(q, by)
  BY DEF PushAndFlush
<1> HIDE DEF q
<1>3. /\ Append(q, by) \in Seq(Asker) /\ Len(Append(q, by)) = Len(q) + 1
      /\ \A i \in 1 .. Len(q) : Append(q, by)[i] = q[i]
      /\ Append(q, by)[Len(q) + 1] = by
  BY <1>1
<1>4. \A i \in 1 .. Len(Append(q, by)) : Append(q, by)[i] \in Asks \cup {"push", by}
  BY <1>1, <1>3
<1>5. Append(q, by) # <<>>
  BY <1>1, <1>3
<1>6. Asks' = {flushLimit'[i] : i \in 1 .. Len(flushLimit')}
  BY DEF Asks
<1> QED
  BY <1>2, <1>3, <1>4, <1>5, <1>6

\* An event that is not one of those that are captured once.
LEMMA PlainEvent ==
  ASSUME NEW x \in Event \ Once
  PROVE  /\ <<x>> \in Seq(Event) /\ \A e \in Once : ~Contains(<<x>>, e)
BY ContainsOne

\* A step that pushes events of the command.
LEMMA PushStep ==
  ASSUME TelemetryInv, process \in {"init", "run"}, process' = "run",
         NEW events \in Seq(Event), \A e \in Once : ~Contains(events, e), Push(events),
         UNCHANGED <<exitCaptured, listeners, raised>>
  PROVE  TelemetryInv'
<1>1. flushLimit' \in Seq(Asker) /\ Asks' \subseteq Asks \cup {"push", "push"}
  BY PushAsks DEF TelemetryInv
<1>2. AskerOK("push")'
  BY DEF AskerOK, Awaiter, Signal
<1>3. "beforeExit" \in listeners
  BY DEF TelemetryInv, Ended
<1>4. Captures(events) /\ UNCHANGED <<sending, batched>>
  BY DEF Push
<1>5. "exit" \in Once /\ "error" \in Once /\ "plugin-init-error" \in Once
  BY DEF Once
<1>6. Moved /\ process \notin Ended
  BY DEF Moved, Ended
<1> QED
  BY <1>1, <1>2, <1>3, <1>4, <1>5, <1>6, CaptureStep

\* The exit is captured once, and whoever waits for it asks for a flush.
LEMMA ExitEventsAre ==
  ASSUME TelemetryInv
  PROVE  /\ ExitEvents \in Seq(Event)
         /\ exitCaptured \/ Contains(ExitEvents, "exit")
         /\ \A e : Contains(ExitEvents, e) => e = "exit" /\ ~Contains(captured, "exit")
<1>1. "exit" \in Event
  BY DEF Event
<1> QED
  BY <1>1, ContainsOne, ContainsNothing DEF ExitEvents, TelemetryInv

LEMMA CaptureExitStep ==
  ASSUME TelemetryInv, process \notin Ended, NEW by \in Signal \cup {"beforeExit"},
         CaptureExit(by), UNCHANGED <<process, raised>>,
         "beforeExit" \notin listeners' => process = "ran"
  PROVE  TelemetryInv'
<1>a. ExitEvents \in Seq(Event)
  BY ExitEventsAre
<1>0. PICK events \in Seq(Event) : events = ExitEvents
  BY <1>a, Zenon
<1>1. by \in Asker /\ by \notin {"catch", "initHook"}
  BY DEF Asker, Signal
<1>2. PushAndFlush(events, by) /\ exitCaptured'
  BY <1>0 DEF CaptureExit, PushAndFlush, Captures, PushFlushes
<1>3. /\ flushLimit' \in Seq(Asker) /\ flushLimit' # <<>>
      /\ Asks' \subseteq Asks \cup {"push", by}
  BY <1>1, <1>2, FlushAsks DEF TelemetryInv
<1>4. Captures(events) /\ UNCHANGED <<sending, batched>>
  BY <1>2 DEF PushAndFlush
<1>5. /\ \A e : Contains(events, e) => e = "exit" /\ ~Contains(captured, "exit")
      /\ exitCaptured \/ Contains(events, "exit")
  BY <1>0, ExitEventsAre
<1>6. Contains(captured', "exit")
  BY <1>4, <1>5, CaptureKeepsStream DEF TelemetryInv
<1>7. AskerOK(by)'
  BY <1>1, <1>6 DEF AskerOK, Awaiter, Signal, AwaitedBy
<1>8. Moved
  BY DEF Moved
<1> QED
  BY <1>2, <1>3, <1>4, <1>5, <1>7, <1>8, CaptureStep

\* A step that captures nothing.
LEMMA QuietStep ==
  ASSUME TelemetryInv, process \notin Ended,
         UNCHANGED <<pendingEvents, sending, exitCaptured, raised, record>>,
         NEW by \in {"push", "timer"}, flushLimit' \in Seq(Asker), Asks' \subseteq Asks \cup {by},
         flushLimit # <<>> => flushLimit' # <<>>,
         "beforeExit" \in listeners \/ process' = process, UNCHANGED listeners,
         Moved
  PROVE  TelemetryInv'
<1>1. Stream' /\ captured' = captured /\ batched' = batched
  BY DEF TelemetryInv, Stream, record
<1>2. \A a : AskerOK(a) => AskerOK(a)'
  BY <1>1 DEF AskerOK, Moved, Ended
<1>3. AskerOK(by)'
  BY DEF AskerOK, Awaiter, Signal
<1>4. EventsTried'
  BY <1>1 DEF TelemetryInv, EventsTried, Tried, Moved, Ended
<1> QED
  BY <1>1, <1>2, <1>3, <1>4 DEF TelemetryInv, Moved

\* The flush that is over has tried what was awaited.
LEMMA FlushEndsStep == TelemetryInv /\ FlushEnds => TelemetryInv'
<1> SUFFICES ASSUME TelemetryInv, FlushEnds PROVE TelemetryInv'
  OBVIOUS
<1>1. /\ Stream' /\ captured' = captured /\ batched' = batched
      /\ \A e : Contains(batched, e) => Tried(e)'
  BY ContainsNothing DEF TelemetryInv, Stream, FlushEnds, NoBatch, record, Tried
<1>2. /\ process' = process \/ (process' = "caught" /\ sending.by = "catch")
         \/ (process' = "initFailed" /\ sending.by = "initHook")
      /\ process \notin Ended
  BY DEF FlushEnds, Resumes
<1>3. ASSUME NEW a, AskerOK(a) PROVE AskerOK(a)'
  BY <1>1, <1>2, <1>3 DEF AskerOK, TelemetryInv, Ended
<1>4. UNCHANGED <<flushLimit, exitCaptured, listeners, pendingEvents>> /\ Asks' = Asks
  BY DEF FlushEnds, Asks
<1>5. sending'.by = "nobody" /\ sending'.by \notin Awaiter /\ AskerOK(sending.by)'
  BY DEF FlushEnds, NoBatch, AskerOK, Awaiter, Signal
<1>6. EventsTried'
  <2>1. raised' # {} => Contains(batched, "exit")
    BY DEF FlushEnds, Resumes, TelemetryInv, EventsTried, Tried, Awaiter, AwaitedBy, Signal
  <2>2. process' = "caught" => Contains(batched, "error")
    BY <1>2 DEF TelemetryInv, EventsTried, Tried, Awaiter, AwaitedBy, Signal
  <2>3. process' = "initFailed" => Contains(batched, "plugin-init-error")
    BY <1>2 DEF TelemetryInv, EventsTried, Tried, Awaiter, AwaitedBy, Signal
  <2>4. process' # "left"
    BY <1>2 DEF Ended
  <2> QED
    BY <1>1, <2>1, <2>2, <2>3, <2>4 DEF EventsTried, Stream
<1>7. process' \in {"init", "run", "ran"} \cup Ended <=> process \in {"init", "run", "ran"} \cup Ended
  BY <1>2 DEF TelemetryInv, AskerOK, Ended
<1>8. process' \in {"init", "run", "ran"} \cup Ended => process' = process
  BY <1>2 DEF Ended
<1> QED
  BY <1>1, <1>2, <1>3, <1>4, <1>5, <1>6, <1>7, <1>8 DEF TelemetryInv, Awaiter, Signal

\* The first flush of the queue begins: it takes what is pending, which nobody can
\* have tried before, or there is nothing to take, and what was awaited is in a batch.
LEMMA FlushBeginsStep == TelemetryInv /\ FlushBegins => TelemetryInv'
<1> SUFFICES ASSUME TelemetryInv, FlushBegins PROVE TelemetryInv'
  OBVIOUS
<1> DEFINE by == Head(flushLimit)
<1>1. /\ by \in Asks /\ flushLimit' \in Seq(Asker) /\ Asks' \subseteq Asks
  <2>1. /\ flushLimit \in Seq(Asker) /\ flushLimit # <<>> /\ flushLimit' = Tail(flushLimit)
    BY DEF FlushBegins, TelemetryInv
  <2>2. by = flushLimit[1] /\ 1 \in 1 .. Len(flushLimit)
    BY <2>1
  <2>3. /\ Tail(flushLimit) \in Seq(Asker)
        /\ \A i \in 1 .. Len(Tail(flushLimit)) :
             Tail(flushLimit)[i] = flushLimit[i + 1] /\ i + 1 \in 1 .. Len(flushLimit)
    BY <2>1
  <2> QED
    BY <2>1, <2>2, <2>3 DEF Asks
<1>2. AskerOK(by) /\ process \notin Ended /\ sending.batch = <<>>
  BY <1>1 DEF TelemetryInv, FlushBegins, Sends, NoBatch
<1>3. /\ captured' = captured /\ exitCaptured' = exitCaptured /\ listeners' = listeners
      /\ \A e : Contains(captured, e) <=> Contains(batched, e) \/ Contains(pendingEvents, e)
  BY ContainsConcat DEF FlushBegins, TelemetryInv, Stream
<1>4. CASE pendingEvents = <<>>
  <2>1. UNCHANGED <<pendingEvents, sending, batched>> /\ Resumes(by)
    BY <1>4 DEF FlushBegins
  <2>2. \A e : Contains(captured, e) => Tried(e)'
    BY <1>2, <1>3, <1>4, <2>1, ContainsNothing DEF Tried
  <2>3. \/ process' = process \/ (process' = "caught" /\ by = "catch")
        \/ (process' = "initFailed" /\ by = "initHook")
    BY <2>1 DEF Resumes
  <2>4. ASSUME NEW a, AskerOK(a) PROVE AskerOK(a)'
    BY <1>2, <1>3, <2>3, <2>4 DEF AskerOK, Ended
  <2>5. process' \in {"init", "run", "ran"} \cup Ended => process' = process
    BY <2>3 DEF Ended
  <2>6. process \in {"ran"} \cup Ended => process' = process
    BY <1>2, <2>3 DEF AskerOK, Ended
  <2>7. EventsTried'
    <3>1. /\ raised' # {} => Contains(batched, "exit")
          /\ process' = "caught" => Contains(captured, "error")
          /\ process' = "initFailed" => Contains(captured, "plugin-init-error")
      BY <1>2, <1>3, <1>4, <2>1, <2>3, ContainsNothing
         DEF Resumes, TelemetryInv, EventsTried, Tried, AskerOK, Awaiter, AwaitedBy, Signal, Stream
    <3>2. process' # "left" /\ batched' \o pendingEvents' = captured'
      BY <1>2, <1>3, <2>1, <2>3 DEF Ended, TelemetryInv, Stream
    <3> QED
      BY <1>3, <2>2, <3>1, <3>2 DEF EventsTried
  <2>8. Stream'
    BY <1>3, <2>1 DEF TelemetryInv, Stream
  <2> QED
    BY <1>1, <1>3, <1>4, <2>1, <2>4, <2>5, <2>6, <2>7, <2>8 DEF TelemetryInv
<1>5. CASE pendingEvents # <<>>
  <2>1. /\ sending' = [by |-> by, batch |-> pendingEvents] /\ pendingEvents' = <<>>
        /\ batched' = batched \o pendingEvents /\ UNCHANGED <<process, raised>>
    BY <1>5 DEF FlushBegins
  <2>2. batched' = captured /\ captured \in Seq(Event)
    BY <2>1, ContainsConcat DEF TelemetryInv, Stream
  <2>3. Stream'
    BY <1>3, <2>1, <2>2, ContainsNothing DEF TelemetryInv, Stream
  <2>4. \A a : AskerOK(a)' <=> AskerOK(a)
    BY <1>3, <2>1 DEF AskerOK
  <2>5. \A e \in Once : Tried(e) => Tried(e)'
    BY <1>3, <2>1, <2>2 DEF Tried, TelemetryInv, Stream
  <2>6. EventsTried'
    BY <1>2, <2>1, <2>3, <2>5 DEF TelemetryInv, EventsTried, Once, Ended, Stream
  <2>7. AskerOK(sending.by)' /\ (sending'.by \in Awaiter => Contains(batched', AwaitedBy[sending'.by]))
    BY <1>2, <2>1, <2>2, <2>4 DEF AskerOK
  <2> QED
    BY <1>1, <1>3, <2>1, <2>3, <2>4, <2>6, <2>7 DEF TelemetryInv
<1> QED
  BY <1>4, <1>5

\* The process ends by itself, or by a signal, and captures nothing more.
LEMMA EndsStep ==
  ASSUME TelemetryInv, process \notin Ended,
         UNCHANGED <<emitter, exitCaptured, listeners, raised, record>>,
         process' = "killed" \/ (process' = "left" /\ Leaves)
  PROVE  TelemetryInv'
<1>1. Stream' /\ captured' = captured /\ batched' = batched /\ sending' = sending
      /\ flushLimit' = flushLimit /\ Asks' = Asks
  BY DEF TelemetryInv, Stream, emitter, record, Asks
<1>2. \A a : AskerOK(a) => AskerOK(a)'
  BY <1>1 DEF AskerOK, Ended
<1>3. process' = "left" => pendingEvents = <<>> /\ ~Sends /\ Tried("exit")
  <2> SUFFICES ASSUME Leaves PROVE pendingEvents = <<>> /\ ~Sends /\ Tried("exit")
    BY DEF Leaves
  <2>1. flushLimit = <<>> /\ ~Sends /\ "beforeExit" \notin listeners
    BY DEF Leaves, LoopEmpty, Turn
  <2>2. pendingEvents = <<>> /\ Contains(captured, "exit")
    BY <2>1 DEF TelemetryInv
  <2>3. Contains(batched, "exit") /\ ~Contains(sending.batch, "exit")
    BY <2>1, <2>2, ContainsConcat, ContainsNothing DEF TelemetryInv, Stream, Sends, NoBatch
  <2> QED
    BY <2>1, <2>2, <2>3 DEF Tried
<1>4. EventsTried'
  BY <1>1, <1>3 DEF TelemetryInv, EventsTried, Tried, Sends, emitter
<1> QED
  BY <1>1, <1>2, <1>4 DEF TelemetryInv, Ended, emitter

LEMMA TelemetryStepKeepsInv == TelemetryInv /\ [TelemetryNext]_telemetryVars => TelemetryInv'
<1> SUFFICES ASSUME TelemetryInv, [TelemetryNext]_telemetryVars PROVE TelemetryInv'
  OBVIOUS
<1>1. CASE TimerFires
  <2>1. /\ flushLimit' = Append(flushLimit, "timer") /\ flushLimit \in Seq(Asker) /\ "timer" \in Asker
    BY <1>1 DEF TimerFires, TelemetryInv, Asker
  <2>2. /\ flushLimit' \in Seq(Asker) /\ flushLimit' # <<>>
        /\ \A i \in 1 .. Len(flushLimit') :
             flushLimit'[i] = "timer" \/ (i \in 1 .. Len(flushLimit) /\ flushLimit'[i] = flushLimit[i])
    BY <2>1
  <2>3. Asks' = {flushLimit'[i] : i \in 1 .. Len(flushLimit')}
    BY DEF Asks
  <2>4. Asks' \subseteq Asks \cup {"timer"}
    BY <2>2, <2>3 DEF Asks
  <2> QED
    BY <1>1, <2>2, <2>4, QuietStep DEF TimerFires, Turn, Moved
<1>2. CASE FlushBegins
  BY <1>2, FlushBeginsStep
<1>3. CASE FlushEnds
  BY <1>3, FlushEndsStep
<1>4. CASE LoadPluginsFails
  <2> DEFINE events == <<"plugin-init-error">>
  <2>1. /\ events \in Seq(Event) /\ \A e : Contains(events, e) <=> e = "plugin-init-error"
    BY ContainsOne DEF Event
  <2>2. process = "init" /\ process' = "initFailing" /\ process \notin Ended /\ Turn
    BY <1>4 DEF LoadPluginsFails, Turn
  <2>3. PushAndFlush(events, "initHook") /\ UNCHANGED <<exitCaptured, listeners, raised>>
    BY <1>4 DEF LoadPluginsFails
  <2> HIDE DEF events
  <2>4. /\ flushLimit' \in Seq(Asker) /\ flushLimit' # <<>>
        /\ Asks' \subseteq Asks \cup {"push", "initHook"}
    BY <2>1, <2>3, FlushAsks DEF TelemetryInv, Asker
  <2>5. Captures(events) /\ UNCHANGED <<sending, batched>>
    BY <2>3 DEF PushAndFlush
  <2>6. \A e \in Once : Contains(events, e) => ~Contains(captured, e)
    BY <2>1, <2>2 DEF TelemetryInv
  <2>7. Contains(captured', "plugin-init-error")
    BY <2>1, <2>5, <2>6, CaptureKeepsStream DEF TelemetryInv
  <2>8. AskerOK("initHook")' /\ Moved /\ "beforeExit" \in listeners
    BY <2>2, <2>7 DEF AskerOK, AwaitedBy, Moved, TelemetryInv, Ended
  <2> QED
    BY <2>1, <2>2, <2>3, <2>4, <2>5, <2>6, <2>8, CaptureStep
<1>5. CASE Prerun
  <2>1. <<"run">> \in Seq(Event) /\ \A e \in Once : ~Contains(<<"run">>, e)
    BY PlainEvent DEF Event, Once
  <2> QED
    BY <1>5, <2>1, PushStep DEF Prerun
<1>6. CASE OnProfileChange
  <2>1. PICK identify \in {<<>>, <<"$identify">>} : Push(Append(identify, "$groupidentify"))
    BY <1>6 DEF OnProfileChange
  <2> DEFINE events == Append(identify, "$groupidentify")
  <2>2. "$groupidentify" \in Event \ Once /\ "$identify" \in Event \ Once
    BY DEF Event, Once
  <2>3. identify \in Seq(Event) /\ \A e \in Once : ~Contains(identify, e)
    <3>1. CASE identify = <<>>
      BY <3>1, ContainsNothing
    <3>2. CASE identify = <<"$identify">>
      <4>1. <<"$identify">> \in Seq(Event) /\ \A e \in Once : ~Contains(<<"$identify">>, e)
        BY <2>2, PlainEvent
      <4> QED
        BY <3>2, <4>1
    <3> QED
      BY <3>1, <3>2
  <2>4. events \in Seq(Event) /\ \A e \in Once : ~Contains(events, e)
    BY <2>2, <2>3, ContainsAppend
  <2> HIDE DEF events
  <2> QED
    BY <1>6, <2>1, <2>4, PushStep DEF OnProfileChange, events
<1>7. CASE CommandCaptures
  <2>1. <<"command">> \in Seq(Event) /\ \A e \in Once : ~Contains(<<"command">>, e)
    BY PlainEvent DEF Event, Once
  <2> QED
    BY <1>7, <2>1, PushStep DEF CommandCaptures
<1>8. CASE Postrun
  <2> DEFINE events == <<"postrun">>
  <2>1. events \in Seq(Event) /\ \A e \in Once : ~Contains(events, e)
    BY PlainEvent DEF Event, Once
  <2>2. /\ Captures(events) /\ process = "run" /\ process' = "ran"
        /\ UNCHANGED <<flushLimit, sending, exitCaptured, listeners, raised, batched>>
    BY <1>8 DEF Postrun
  <2> HIDE DEF events
  <2>3. "exit" \in Once /\ "error" \in Once /\ "plugin-init-error" \in Once
    BY DEF Once
  <2>4. Moved /\ process \notin Ended /\ "beforeExit" \in listeners /\ AskerOK("push")'
    BY <2>2 DEF Moved, Ended, TelemetryInv, AskerOK, Awaiter, Signal
  <2>5. flushLimit' \in Seq(Asker) /\ Asks' \subseteq Asks \cup {"push", "push"}
    BY <2>2 DEF TelemetryInv, Asks
  <2> QED
    BY <2>1, <2>2, <2>3, <2>4, <2>5, CaptureStep
<1>9. CASE CommandFails
  <2> DEFINE events == <<"error">>
  <2>1. events \in Seq(Event) /\ \A e : Contains(events, e) <=> e = "error"
    BY ContainsOne DEF Event
  <2>2. process = "run" /\ process' = "catching" /\ process \notin Ended
    BY <1>9 DEF CommandFails, Turn
  <2>3. PushAndFlush(events, "catch") /\ UNCHANGED <<exitCaptured, listeners, raised>>
    BY <1>9 DEF CommandFails
  <2> HIDE DEF events
  <2>4. /\ flushLimit' \in Seq(Asker) /\ flushLimit' # <<>>
        /\ Asks' \subseteq Asks \cup {"push", "catch"}
    BY <2>1, <2>3, FlushAsks DEF TelemetryInv, Asker
  <2>5. Captures(events) /\ UNCHANGED <<sending, batched>>
    BY <2>3 DEF PushAndFlush
  <2>6. \A e \in Once : Contains(events, e) => ~Contains(captured, e)
    BY <2>1, <2>2 DEF TelemetryInv
  <2>7. Contains(captured', "error")
    BY <2>1, <2>5, <2>6, CaptureKeepsStream DEF TelemetryInv
  <2>8. AskerOK("catch")' /\ Moved /\ "beforeExit" \in listeners
    BY <2>2, <2>7 DEF AskerOK, AwaitedBy, Moved, TelemetryInv, Ended
  <2> QED
    BY <2>1, <2>2, <2>3, <2>4, <2>5, <2>6, <2>8, CaptureStep
<1>10. ASSUME NEW s \in Signal, Interrupted(s) PROVE TelemetryInv'
  <2>1. process \notin Ended /\ s # "beforeExit"
    BY <1>10 DEF Interrupted, Turn, Signal
  <2>2. CASE s \in listeners
    <3>1. /\ CaptureExit(s) /\ UNCHANGED <<process, raised>> /\ listeners' = listeners \ {s}
      BY <1>10, <2>2 DEF Interrupted
    <3>2. "beforeExit" \notin listeners' => process = "ran"
      BY <2>1, <3>1 DEF TelemetryInv
    <3> QED
      BY <2>1, <3>1, <3>2, CaptureExitStep
  <2>3. CASE s \notin listeners
    BY <1>10, <2>1, <2>3, EndsStep DEF Interrupted
  <2> QED
    BY <2>2, <2>3
<1>11. CASE RaisedAgain
  BY <1>11, EndsStep DEF RaisedAgain, Turn
<1>12. CASE Exits /\ Turn
  <2>0. PICK events \in Seq(Event) : events = ExitEvents
    <3>1. ExitEvents \in Seq(Event)
      BY ExitEventsAre
    <3> QED
      BY <3>1, Zenon
  <2>1. /\ Captures(events) /\ exitCaptured' /\ process' = "exited" /\ process \notin Ended
        /\ UNCHANGED <<flushLimit, sending, listeners, raised, batched>>
    BY <1>12, <2>0 DEF Exits, Captures, Turn
  <2>2. /\ \A e : Contains(events, e) => e = "exit" /\ ~Contains(captured, "exit")
        /\ exitCaptured \/ Contains(events, "exit")
    BY <2>0, ExitEventsAre
  <2>3. flushLimit' \in Seq(Asker) /\ Asks' \subseteq Asks \cup {"push", "push"}
    BY <2>1 DEF TelemetryInv, Asks
  <2>4. AskerOK("push")' /\ Moved /\ process' \in Ended /\ process' \notin {"init", "run"}
    BY <2>1 DEF AskerOK, Awaiter, Signal, Moved, Ended
  <2> QED
    BY <2>1, <2>2, <2>3, <2>4, CaptureStep
<1>13. ASSUME NEW fault \in Fault, Stray(fault) PROVE TelemetryInv'
  <2> DEFINE events == <<"uncaughtException">>
  <2>1. CASE {fault, "uncaughtException"} \cap listeners = {}
    BY <1>12, <1>13, <2>1 DEF Stray
  <2>2. CASE {fault, "uncaughtException"} \cap listeners # {}
    <3>1. events \in Seq(Event) /\ \A e \in Once : ~Contains(events, e)
      BY PlainEvent DEF Event, Once
    <3>2. /\ PushAndFlush(events, "fault") /\ process \notin Ended
          /\ UNCHANGED <<process, exitCaptured, raised>>
          /\ "beforeExit" \in listeners => "beforeExit" \in listeners'
      BY <1>13, <2>2 DEF Stray, Turn, Fault
    <3> HIDE DEF events
    <3>3. /\ flushLimit' \in Seq(Asker) /\ flushLimit' # <<>>
          /\ Asks' \subseteq Asks \cup {"push", "fault"}
      BY <3>1, <3>2, FlushAsks DEF TelemetryInv, Asker
    <3>4. Captures(events) /\ UNCHANGED <<sending, batched>>
      BY <3>2 DEF PushAndFlush
    <3>5. AskerOK("fault")' /\ Moved
      BY <3>2 DEF AskerOK, Awaiter, Signal, Moved
    <3>6. "exit" \in Once /\ "error" \in Once /\ "plugin-init-error" \in Once
      BY DEF Once
    <3>7. "beforeExit" \notin listeners' => exitCaptured' /\ process' \in {"ran"} \cup Ended
      BY <3>2 DEF TelemetryInv
    <3> QED
      BY <3>1, <3>2, <3>3, <3>4, <3>5, <3>6, <3>7, CaptureStep
  <2> QED
    BY <2>1, <2>2
<1>14. CASE HandleExits
  BY <1>12, <1>14 DEF HandleExits
<1>15. CASE BeforeExit
  BY <1>15, CaptureExitStep DEF BeforeExit, LoopEmpty, Turn
<1>16. CASE Leaves
  BY <1>16, EndsStep DEF Leaves, LoopEmpty, Turn
<1>17. CASE UNCHANGED telemetryVars
  BY <1>17 DEF telemetryVars, emitter, record, TelemetryInv, Stream, AskerOK, Asks, EventsTried,
               Tried, Sends
<1> QED
  BY <1>1, <1>2, <1>3, <1>4, <1>5, <1>6, <1>7, <1>8, <1>9, <1>10, <1>11, <1>13, <1>14, <1>15, <1>16,
     <1>17 DEF TelemetryNext

\* However many events are captured, whatever is captured while a batch is sent,
\* and however the process ends, every event is in one batch, and an end that
\* waits for an event has tried to send it.
THEOREM EventsCorrect == TelemetrySpec => []EventsTried
<1>1. TelemetryInv => EventsTried
  BY DEF TelemetryInv
<1> QED
  BY <1>1, TelemetryInitHasInv, TelemetryStepKeepsInv, PTL DEF TelemetrySpec

-----------------------------------------------------------------------------
(* Comments on pull requests *)

JobCommand == {"up", "down", "comment", "uncomment"}

JobRecord == [at : JobCommand \cup {"idle", "urls", "hook", "post"},
              command : JobCommand \cup {Nothing}, branch : Branch \cup {Nothing},
              env : Name \cup {Nothing}, alone : BOOLEAN, comment : Nat]

PrComment == [env : Name, body : {"urls", "deleted"}]

PrTypeOK ==
  /\ comments \in [Branch -> Seq(PrComment)]
  /\ jobs \in [Job -> JobRecord]
  /\ told \in [Name -> Branch \cup {Nothing}]

\* A job that runs is for an environment and a branch; it does what its command says.
RunsOK(j) ==
  /\ JobAt(j, "idle") <=> jobs[j].env = Nothing
  /\ ~JobAt(j, "idle") => jobs[j].branch \in Branch /\ jobs[j].command \in JobCommand
  /\ JobAt(j, "urls") => jobs[j].command = "up"
  /\ jobs[j].at \in JobCommand => jobs[j].command = jobs[j].at

\* A job that has been alone so far, as has every one of an environment that never had two.
JobAloneOK(j) ==
  ~JobAt(j, "idle") =>
    /\ jobs[j].alone => \A i \in Job : jobs[i].env = jobs[j].env => i = j
    /\ jobs[j].env \notin crossed => jobs[j].alone

\* It goes on to comment when its environment is there, or is gone.
WorldOK(j) ==
  jobs[j].alone /\ jobs[j].at \in {"hook", "post"} =>
    /\ jobs[j].command \in {"up", "comment"} => jobs[j].env \in environments
    /\ jobs[j].command = "down" => jobs[j].env \notin environments

\* What it has found on the pull request is still what it would find.
FoundOK(j) ==
  LET marked == Marked(jobs[j].branch, jobs[j].env)
  IN JobAt(j, "post") =>
       /\ jobs[j].comment # 0 => jobs[j].comment \in marked
       /\ jobs[j].alone => jobs[j].comment = IF marked = {} THEN 0 ELSE First(marked)

\* Nobody works with an environment when its last command has told of it.
ToldOK(e) ==
  told[e] # Nothing =>
    /\ \A j \in Job : jobs[j].env # e
    /\ Marked(told[e], e) # {}
    /\ comments[told[e]][First(Marked(told[e], e))].body =
         IF e \in environments THEN "urls" ELSE "deleted"

OneComment(b, e) == \A i, k \in Marked(b, e) : i = k

PrInv ==
  /\ PrTypeOK
  /\ \A j \in Job : RunsOK(j) /\ JobAloneOK(j) /\ WorldOK(j) /\ FoundOK(j)
  /\ \A e \in Name : ToldOK(e)
  /\ \A b \in Branch, e \in Name \ crossed : OneComment(b, e)

\* A nonempty set of numbers has a least one.
LEMMA LeastIndex ==
  ASSUME NEW S, S \subseteq Nat, S # {}
  PROVE  First(S) \in S
<1>1. PICK R : R = OpToRel(<, Nat)
  OBVIOUS
<1>2. IsWellFoundedOn(R, Nat)
  BY <1>1, NatLessThanWellFounded
<1>3. R = {ss \in Nat \X Nat : ss[1] < ss[2]}
  BY <1>1 DEF OpToRel
<1>4. PICK i \in S : \A k \in S : <<k, i>> \notin R
  BY <1>2, WFMin
<1>5. i \in Nat /\ \A k \in S : k \in Nat /\ ~(k < i)
  BY <1>3, <1>4
<1>6. \A k \in S : i <= k
  BY <1>5
<1>. QED BY <1>4, <1>6 DEF First

Indexes(list, env) == {i \in DOMAIN list : list[i].env = env}

Put(list, comment, n) == IF n = 0 THEN Append(list, comment) ELSE [list EXCEPT ![n] = comment]

\* A list of comments after one has been appended, or has replaced one of its environment.
Replaces(s, x, n, t) ==
  /\ s \in Seq(PrComment) /\ x \in PrComment /\ n \in Nat /\ t = Put(s, x, n)
  /\ n # 0 => n \in Indexes(s, x.env)

Replaced(s, x, n, t) ==
  /\ t \in Seq(PrComment)
  /\ \A e : e # x.env => /\ Indexes(t, e) = Indexes(s, e)
                         /\ \A i \in Indexes(s, e) : t[i] = s[i]
  /\ Indexes(s, x.env) \subseteq Indexes(t, x.env)
  /\ n = 0 => /\ Indexes(t, x.env) = Indexes(s, x.env) \cup {Len(s) + 1}
              /\ t[Len(s) + 1] = x
  /\ n # 0 => Indexes(t, x.env) = Indexes(s, x.env) /\ t[n] = x

LEMMA PutComment ==
  ASSUME NEW s, NEW x, NEW n, NEW t, Replaces(s, x, n, t)
  PROVE  Replaced(s, x, n, t)
<1>. /\ s \in Seq(PrComment) /\ x \in PrComment /\ n \in Nat /\ t = Put(s, x, n)
     /\ n # 0 => n \in Indexes(s, x.env)
  BY DEF Replaces
<1>1. CASE n = 0
  <2>1. /\ t = Append(s, x) /\ t \in Seq(PrComment) /\ Len(t) = Len(s) + 1
        /\ \A i \in 1 .. Len(s) : t[i] = s[i]
        /\ t[Len(s) + 1] = x
    BY <1>1 DEF Put
  <2>2. /\ DOMAIN s = 1 .. Len(s) /\ DOMAIN t = (1 .. Len(s)) \cup {Len(s) + 1}
        /\ Len(s) + 1 \notin 1 .. Len(s)
    BY <2>1
  <2>. QED BY <1>1, <2>1, <2>2 DEF Indexes, Replaced
<1>2. CASE n # 0
  <2>1. n \in DOMAIN s /\ s[n].env = x.env
    BY <1>2 DEF Indexes
  <2>2. /\ t = [s EXCEPT ![n] = x] /\ t \in Seq(PrComment) /\ DOMAIN t = DOMAIN s
        /\ t[n] = x /\ \A i \in DOMAIN s \ {n} : t[i] = s[i]
    BY <1>2, <2>1 DEF Put
  <2>. QED BY <1>2, <2>1, <2>2 DEF Indexes, Replaced
<1>. QED BY <1>1, <1>2

LEMMA MarkedFacts ==
  ASSUME PrTypeOK, NEW b \in Branch, NEW e
  PROVE  /\ Marked(b, e) = Indexes(comments[b], e) /\ Marked(b, e) \subseteq Nat
         /\ Marked(b, e) # {} => First(Marked(b, e)) \in Marked(b, e)
<1>1. comments[b] \in Seq(PrComment)
  BY DEF PrTypeOK
<1>2. Marked(b, e) = Indexes(comments[b], e) /\ DOMAIN comments[b] \subseteq Nat
  BY <1>1 DEF Marked, Indexes
<1>3. Marked(b, e) \subseteq Nat
  BY <1>2 DEF Indexes
<1>. QED BY <1>2, <1>3, LeastIndex

LEMMA PrInitHasInv == PrInit => PrInv
<1>. SUFFICES ASSUME PrInit PROVE PrInv
  OBVIOUS
<1>1. PrTypeOK
  BY DEF PrInit, PrTypeOK, JobRecord, Waiting
<1>2. \A j \in Job : jobs[j].at = "idle" /\ jobs[j].env = Nothing
  BY DEF PrInit, Waiting
<1>3. \A b \in Branch, e \in Name : Marked(b, e) = {}
  BY DEF PrInit, Marked
<1>. QED BY <1>1, <1>2, <1>3 DEF PrInit, PrInv, RunsOK, JobAloneOK, WorldOK, FoundOK, ToldOK,
                                  OneComment, JobAt, JobCommand

\* A job goes on or ends, and perhaps changes its own environment.
LEMMA MoveKeepsPrInv ==
  ASSUME PrInv, NEW j \in Job, ~JobAt(j, "idle"), UNCHANGED <<comments, crossed, told>>,
         jobs' \in [Job -> JobRecord], \A i \in Job \ {j} : jobs'[i] = jobs[i],
         \/ JobAt(j, "idle")' /\ jobs'[j].env = Nothing
         \/ /\ jobs'[j].env = jobs[j].env /\ jobs'[j].alone = jobs[j].alone
            /\ jobs'[j].branch = jobs[j].branch /\ jobs'[j].command = jobs[j].command
            /\ ~JobAt(j, "idle")',
         \A e \in Name : e # jobs[j].env => (e \in environments' <=> e \in environments),
         RunsOK(j)', WorldOK(j)', FoundOK(j)'
  PROVE  PrInv'
<1>1. PrTypeOK'
  BY DEF PrInv, PrTypeOK
<1>2. \A i \in Job : RunsOK(i) /\ JobAloneOK(i) /\ WorldOK(i) /\ FoundOK(i) /\ jobs[i] \in JobRecord
  BY DEF PrInv, PrTypeOK
<1>3. \A i \in Job : jobs'[i].env \in {jobs[i].env, Nothing}
  OBVIOUS
<1>4. \A b, e : Marked(b, e)' = Marked(b, e)
  BY DEF Marked
<1>5. jobs[j].env \in Name /\ Nothing \notin Name
  BY <1>2, PullRequestsAssumption DEF RunsOK, JobRecord
<1>6. ASSUME NEW i \in Job PROVE (RunsOK(i) /\ JobAloneOK(i) /\ WorldOK(i) /\ FoundOK(i))'
  <2>1. JobAloneOK(i)'
    BY <1>2, <1>3, <1>5 DEF JobAloneOK, RunsOK, JobAt, JobRecord
  <2>2. CASE i = j
    BY <2>1, <2>2
  <2>3. CASE i # j
    <3>1. jobs'[i] = jobs[i]
      BY <2>3
    <3>2. RunsOK(i)' /\ FoundOK(i)'
      <4>1. Marked(jobs[i].branch, jobs[i].env)' = Marked(jobs[i].branch, jobs[i].env)
        BY <3>1 DEF Marked
      <4>2. FoundOK(i)'
        BY <1>2, <3>1, <4>1 DEF FoundOK, JobAt
      <4>. QED BY <1>2, <3>1, <4>2 DEF RunsOK, JobAt
    <3>3. WorldOK(i)'
      <4>1. SUFFICES ASSUME jobs[i].alone, jobs[i].at \in {"hook", "post"} PROVE WorldOK(i)'
        BY <3>1 DEF WorldOK
      <4>2. jobs[i].env \in Name /\ jobs[i].env # jobs[j].env
        BY <1>2, <2>3, <4>1 DEF JobAloneOK, RunsOK, JobAt, JobRecord
      <4>. QED BY <1>2, <3>1, <4>2 DEF WorldOK
    <3>. QED BY <2>1, <3>2, <3>3
  <2>. QED BY <2>2, <2>3
<1>7. \A e \in Name : ToldOK(e)'
  <2>1. SUFFICES ASSUME NEW e \in Name, told[e] # Nothing PROVE ToldOK(e)'
    BY DEF ToldOK
  <2>2. ToldOK(e) /\ e # jobs[j].env
    BY <2>1 DEF PrInv, ToldOK
  <2>. QED BY <1>3, <1>5, <2>1, <2>2 DEF ToldOK, Marked
<1>8. \A b \in Branch, e \in Name \ crossed' : OneComment(b, e)'
  BY DEF PrInv, OneComment, Marked
<1>. QED BY <1>1, <1>6, <1>7, <1>8 DEF PrInv

LEMMA StartKeepsPrInv == ASSUME PrInv, NEW j \in Job, JobStarts(j) PROVE PrInv'
<1>1. /\ JobAt(j, "idle") /\ UNCHANGED <<environments, comments>>
      /\ \A i \in Job : /\ RunsOK(i) /\ JobAloneOK(i) /\ WorldOK(i) /\ FoundOK(i)
                       /\ jobs[i] \in JobRecord
  BY DEF PrInv, PrTypeOK, JobStarts
<1>2. PICK c \in JobCommand, b \in Branch, flag \in Name \cup {Nothing} :
        LET env == findEnvId(flag, b)
            others == {i \in Job : jobs[i].env = env}
        IN /\ jobs' = [i \in Job |->
                IF i = j
                THEN [at |-> c, command |-> c, branch |-> b, env |-> env,
                      alone |-> others = {}, comment |-> 0]
                ELSE [jobs[i] EXCEPT !.alone = @ /\ i \notin others]]
           /\ crossed' = IF others = {} THEN crossed ELSE crossed \cup {env}
           /\ told' = [told EXCEPT ![env] = Nothing]
  BY Zenon DEF JobStarts, JobCommand
<1>3. PICK env \in Name : env = findEnvId(flag, b)
  BY DEF findEnvId, normalize, Branch
<1>. DEFINE others == {i \in Job : jobs[i].env = env}
<1>4. /\ jobs' = [i \in Job |->
           IF i = j
           THEN [at |-> c, command |-> c, branch |-> b, env |-> env,
                 alone |-> others = {}, comment |-> 0]
           ELSE [jobs[i] EXCEPT !.alone = @ /\ i \notin others]]
      /\ crossed' = IF others = {} THEN crossed ELSE crossed \cup {env}
      /\ told' = [told EXCEPT ![env] = Nothing]
  BY <1>2, <1>3 DEF findEnvId, normalize
<1>5. env # Nothing /\ jobs[j].env = Nothing
  BY <1>1, PullRequestsAssumption DEF RunsOK
<1>6. /\ jobs'[j].at = c /\ jobs'[j].command = c /\ jobs'[j].branch = b /\ jobs'[j].env = env
      /\ jobs'[j].comment = 0
  BY <1>4
<1>7. jobs'[j].alone <=> others = {}
  BY <1>4
<1>8. ASSUME NEW i \in Job \ {j}
      PROVE  /\ jobs'[i].at = jobs[i].at /\ jobs'[i].command = jobs[i].command
             /\ jobs'[i].branch = jobs[i].branch /\ jobs'[i].env = jobs[i].env
             /\ jobs'[i].comment = jobs[i].comment
  BY <1>1, <1>4 DEF JobRecord
<1>9. ASSUME NEW i \in Job \ {j}
      PROVE  jobs'[i].alone <=> jobs[i].alone /\ jobs[i].env # env
  <2>1. DOMAIN jobs[i] = {"at", "command", "branch", "env", "alone", "comment"}
    BY <1>1 DEF JobRecord
  <2>2. jobs'[i].alone = (jobs[i].alone /\ i \notin others)
    BY <1>4, <2>1, Zenon
  <2>. QED BY <2>2
<1>10. PrTypeOK'
  <2>1. jobs' \in [Job -> JobRecord]
    <3>1. \A i \in Job : jobs'[i].alone \in BOOLEAN
      <4>1. (others = {}) \in BOOLEAN
        BY Zenon
      <4>2. \A i \in Job \ {j} : (jobs[i].alone /\ i \notin others) \in BOOLEAN
        BY Zenon
      <4>3. \A i \in Job : DOMAIN jobs[i] = {"at", "command", "branch", "env", "alone", "comment"}
        BY <1>1 DEF JobRecord
      <4>. QED BY <1>4, <4>1, <4>2, <4>3, Zenon
    <3>2. \A i \in Job : jobs'[i] \in JobRecord
      BY <1>1, <1>4, <3>1 DEF JobRecord, JobCommand
    <3>. QED BY <1>4, <3>2
  <2>2. told' \in [Name -> Branch \cup {Nothing}]
    BY <1>4 DEF PrInv, PrTypeOK
  <2>. QED BY <1>1, <2>1, <2>2 DEF PrInv, PrTypeOK
<1>. HIDE DEF others
<1>11. crossed \subseteq crossed' /\ (env \notin crossed' => others = {})
  BY <1>4
<1>12. \A i \in Job : i \in others <=> jobs[i].env = env
  BY DEF others
<1>13. \A x, e : Marked(x, e)' = Marked(x, e)
  BY <1>1 DEF Marked
<1>14. (RunsOK(j) /\ JobAloneOK(j) /\ WorldOK(j) /\ FoundOK(j))'
  <2>1. RunsOK(j)'
    BY <1>5, <1>6 DEF RunsOK, JobAt, JobCommand
  <2>2. JobAloneOK(j)'
    BY <1>6, <1>7, <1>8, <1>11, <1>12 DEF JobAloneOK, JobAt
  <2>3. WorldOK(j)' /\ FoundOK(j)'
    BY <1>6 DEF WorldOK, FoundOK, JobAt, JobCommand
  <2>. QED BY <2>1, <2>2, <2>3
<1>15. ASSUME NEW i \in Job \ {j} PROVE (RunsOK(i) /\ JobAloneOK(i) /\ WorldOK(i) /\ FoundOK(i))'
  <2>1. RunsOK(i)'
    BY <1>1, <1>8 DEF RunsOK, JobAt
  <2>2. JobAloneOK(i)'
    <3>1. SUFFICES ASSUME ~JobAt(i, "idle") PROVE JobAloneOK(i)'
      BY <1>8 DEF JobAloneOK, JobAt
    <3>2. jobs[i].env \in Name
      BY <1>1, <3>1 DEF RunsOK, JobRecord
    <3>3. jobs'[i].alone => \A k \in Job : jobs'[k].env = jobs'[i].env => k = i
      BY <1>1, <1>6, <1>8, <1>9, <3>1 DEF JobAloneOK
    <3>4. jobs'[i].env \notin crossed' => jobs'[i].alone
      BY <1>1, <1>8, <1>9, <1>11, <1>12, <3>1 DEF JobAloneOK
    <3>. QED BY <3>3, <3>4 DEF JobAloneOK
  <2>3. WorldOK(i)'
    BY <1>1, <1>8, <1>9 DEF WorldOK
  <2>4. FoundOK(i)'
    <3>1. Marked(jobs[i].branch, jobs[i].env)' = Marked(jobs[i].branch, jobs[i].env)
      BY <1>1, <1>8 DEF Marked
    <3>. QED BY <1>1, <1>8, <1>9, <3>1 DEF FoundOK, JobAt
  <2>. QED BY <2>1, <2>2, <2>3, <2>4
<1>16. \A e \in Name : ToldOK(e)'
  <2>1. SUFFICES ASSUME NEW e \in Name, told'[e] # Nothing PROVE ToldOK(e)'
    BY DEF ToldOK
  <2>2. e # env /\ told'[e] = told[e]
    BY <1>4, <2>1 DEF PrInv, PrTypeOK
  <2>3. ToldOK(e)
    BY DEF PrInv
  <2>4. Marked(told[e], e)' = Marked(told[e], e)
    BY <1>1, <2>2 DEF Marked
  <2>. QED BY <1>1, <1>6, <1>8, <2>1, <2>2, <2>3, <2>4 DEF ToldOK
<1>17. \A x \in Branch, e \in Name \ crossed' : OneComment(x, e)'
  BY <1>11, <1>13 DEF PrInv, OneComment
<1>. QED BY <1>10, <1>14, <1>15, <1>16, <1>17 DEF PrInv

LEMMA PostKeepsPrInv == ASSUME PrInv, NEW j \in Job, PostComment(j) PROVE PrInv'
<1>. DEFINE job == jobs[j]
<1>1. /\ job.at = "post" /\ job \in JobRecord
      /\ \A i \in Job : /\ RunsOK(i) /\ JobAloneOK(i) /\ WorldOK(i) /\ FoundOK(i)
                       /\ jobs[i] \in JobRecord
      /\ PrTypeOK
  BY DEF PrInv, PrTypeOK, PostComment, JobAt
<1>2. job.env \in Name /\ job.branch \in Branch /\ job.command \in JobCommand
  BY <1>1, PullRequestsAssumption DEF RunsOK, JobAt, JobRecord
<1>3. PICK env \in Name, b \in Branch, n \in Nat, x \in PrComment :
        env = job.env /\ b = job.branch /\ n = job.comment /\ x = [env |-> env, body |-> Body(j)]
  <2>1. Body(j) \in {"urls", "deleted"} /\ job.comment \in Nat
    BY <1>1 DEF Body, JobRecord
  <2>2. [env |-> job.env, body |-> Body(j)] \in PrComment
    BY <1>2, <2>1 DEF PrComment
  <2>. QED BY <1>2, <2>1, <2>2
<1>4. /\ jobs' = [jobs EXCEPT ![j] = Waiting] /\ UNCHANGED <<environments, crossed>>
      /\ comments' = [comments EXCEPT ![b] =
           IF n = 0 THEN Append(@, x) ELSE [@ EXCEPT ![n] = x]]
      /\ told' = [told EXCEPT ![env] =
           IF job.alone /\ job.command # "uncomment" THEN b ELSE Nothing]
  BY <1>3 DEF PostComment, JobEnds
<1>5. PICK s, t : s \in Seq(PrComment) /\ s = comments[b] /\ t = comments'[b]
  BY <1>1 DEF PrTypeOK
<1>6. /\ t = Put(s, x, n)
      /\ \A a \in Branch \ {b} : comments'[a] = comments[a]
  BY <1>1, <1>4, <1>5 DEF PrTypeOK, Put
<1>7. n # 0 => n \in Indexes(s, x.env)
  <2>1. n # 0 => n \in Marked(b, env)
    BY <1>1, <1>3 DEF FoundOK, JobAt
  <2>. QED BY <1>1, <1>3, <1>5, <2>1, MarkedFacts
<1>8. /\ t \in Seq(PrComment)
      /\ \A e : e # x.env => /\ Indexes(t, e) = Indexes(s, e)
                             /\ \A i \in Indexes(s, e) : t[i] = s[i]
      /\ Indexes(s, x.env) \subseteq Indexes(t, x.env)
      /\ n = 0 => /\ Indexes(t, x.env) = Indexes(s, x.env) \cup {Len(s) + 1}
                  /\ t[Len(s) + 1] = x
      /\ n # 0 => Indexes(t, x.env) = Indexes(s, x.env) /\ t[n] = x
  <2>1. s \in Seq(PrComment) /\ n \in Nat /\ x \in PrComment /\ t = Put(s, x, n)
    BY <1>3, <1>5, <1>6
  <2>2. Replaces(s, x, n, t)
    BY <1>7, <2>1 DEF Replaces
  <2>3. Replaced(s, x, n, t)
    BY <2>2, PutComment
  <2>. QED BY <2>3 DEF Replaced
<1>9. PrTypeOK'
  <2>1. jobs' \in [Job -> JobRecord]
    BY <1>1, <1>4 DEF PrTypeOK, JobRecord, Waiting
  <2>2. comments' \in [Branch -> Seq(PrComment)]
    BY <1>1, <1>4, <1>5, <1>8 DEF PrTypeOK
  <2>3. told' \in [Name -> Branch \cup {Nothing}]
    BY <1>1, <1>4 DEF PrTypeOK
  <2>. QED BY <2>1, <2>2, <2>3 DEF PrTypeOK
\* What the comments of the environment, and those of others, are afterwards.
<1>10. \A e : Marked(b, e)' = Indexes(t, e) /\ Marked(b, e) = Indexes(s, e)
  BY <1>5 DEF Marked, Indexes
<1>11. \A a \in Branch \ {b} : \A e : Marked(a, e)' = Marked(a, e)
  BY <1>6 DEF Marked
<1>12. \A e : e # env => Marked(b, e)' = Marked(b, e)
  BY <1>3, <1>8, <1>10
<1>13. ASSUME NEW a \in Branch, NEW e \in Name, a # b \/ e # env
       PROVE  /\ Marked(a, e)' = Marked(a, e)
              /\ \A i \in Marked(a, e) : comments'[a][i] = comments[a][i]
  <2>1. CASE a # b
    BY <1>6, <1>11, <2>1
  <2>2. CASE a = b /\ e # env
    <3>1. e # x.env
      BY <1>3, <2>2
    <3>2. \A i \in Indexes(s, e) : t[i] = s[i]
      BY <1>8, <3>1
    <3>. QED BY <1>5, <1>10, <1>12, <2>2, <3>2
  <2>. QED BY <1>13, <2>1, <2>2
<1>14. job.alone => n = IF Indexes(s, env) = {} THEN 0 ELSE First(Indexes(s, env))
  <2>1. job.alone => n = IF Marked(b, env) = {} THEN 0 ELSE First(Marked(b, env))
    BY <1>1, <1>3 DEF FoundOK, JobAt
  <2>. QED BY <1>10, <2>1
<1>15. /\ jobs'[j] = Waiting /\ \A i \in Job \ {j} : jobs'[i] = jobs[i]
       /\ Waiting.at = "idle" /\ Waiting.env = Nothing /\ ~Waiting.alone
  BY <1>1, <1>4 DEF PrTypeOK, Waiting
<1>16. ASSUME NEW i \in Job PROVE (RunsOK(i) /\ JobAloneOK(i) /\ WorldOK(i) /\ FoundOK(i))'
  <2>1. CASE i = j
    BY <1>15, <2>1 DEF RunsOK, JobAloneOK, WorldOK, FoundOK, JobAt, JobCommand
  <2>2. CASE i # j
    <3>1. jobs'[i] = jobs[i]
      BY <1>15, <2>2
    <3>2. RunsOK(i)'
      BY <1>1, <3>1 DEF RunsOK, JobAt
    <3>3. JobAloneOK(i)'
      <4>1. SUFFICES ASSUME ~JobAt(i, "idle") PROVE JobAloneOK(i)'
        BY <3>1 DEF JobAloneOK, JobAt
      <4>2. jobs[i].env \in Name /\ jobs[i].env # Nothing
        BY <1>1, <4>1 DEF RunsOK, JobRecord
      <4>3. \A k \in Job : jobs'[k].env = jobs[i].env => jobs[k].env = jobs[i].env
        BY <1>15, <4>2
      <4>. QED BY <1>1, <1>4, <3>1, <4>1, <4>3 DEF JobAloneOK
    <3>4. WorldOK(i)'
      BY <1>1, <1>4, <3>1 DEF WorldOK
    <3>5. FoundOK(i)'
      <4>1. SUFFICES ASSUME jobs[i].at = "post" PROVE FoundOK(i)'
        BY <3>1 DEF FoundOK, JobAt
      <4>2. PICK a \in Branch, e \in Name : a = jobs[i].branch /\ e = jobs[i].env
        BY <1>1, <4>1, PullRequestsAssumption DEF RunsOK, JobAt, JobRecord
      <4>3. /\ jobs[i].comment # 0 => jobs[i].comment \in Marked(a, e)
            /\ jobs[i].alone =>
                 jobs[i].comment = IF Marked(a, e) = {} THEN 0 ELSE First(Marked(a, e))
        BY <1>1, <4>1, <4>2 DEF FoundOK, JobAt
      <4>4. /\ jobs[i].comment # 0 => jobs[i].comment \in Marked(a, e)'
            /\ jobs[i].alone =>
                 jobs[i].comment = IF Marked(a, e)' = {} THEN 0 ELSE First(Marked(a, e)')
        <5>1. CASE a # b \/ e # env
          BY <1>13, <4>3, <5>1
        <5>2. CASE a = b /\ e = env
          <6>1. ~jobs[i].alone
            BY <1>1, <1>3, <2>2, <4>1, <4>2, <5>2 DEF JobAloneOK, JobAt
          <6>2. Marked(a, e) \subseteq Marked(a, e)'
            BY <1>3, <1>8, <1>10, <5>2
          <6>. QED BY <4>3, <6>1, <6>2
        <5>. QED BY <5>1, <5>2
      <4>5. Marked(jobs[i].branch, jobs[i].env)' = Marked(a, e)'
        BY <3>1, <4>2 DEF Marked
      <4>. QED BY <3>1, <4>4, <4>5 DEF FoundOK
    <3>. QED BY <3>2, <3>3, <3>4, <3>5
  <2>. QED BY <2>1, <2>2
<1>17. ASSUME NEW e \in Name PROVE ToldOK(e)'
  <2>1. CASE e # env
    <3>1. SUFFICES ASSUME told[e] # Nothing PROVE ToldOK(e)'
      BY <1>1, <1>4, <2>1 DEF ToldOK, PrTypeOK
    <3>2. told'[e] = told[e] /\ told[e] \in Branch /\ ToldOK(e)
      BY <1>1, <1>4, <2>1, <3>1 DEF PrInv, PrTypeOK
    <3>3. PICK a \in Branch : a = told[e]
      BY <3>2
    <3>4. /\ \A i \in Job : jobs[i].env # e
          /\ Marked(a, e) # {}
          /\ comments[a][First(Marked(a, e))].body = IF e \in environments THEN "urls" ELSE "deleted"
      BY <3>1, <3>2, <3>3 DEF ToldOK
    <3>5. First(Marked(a, e)) \in Marked(a, e)
      BY <1>1, <3>4, MarkedFacts
    <3>6. /\ Marked(a, e)' # {}
          /\ comments'[a][First(Marked(a, e)')].body =
               IF e \in environments THEN "urls" ELSE "deleted"
      BY <1>13, <2>1, <3>4, <3>5
    <3>7. Marked(told[e], e)' = Marked(a, e)'
      BY <3>2, <3>3 DEF Marked
    <3>8. \A i \in Job : jobs'[i].env # e
      BY <1>15, <3>4, PullRequestsAssumption
    <3>. QED BY <1>4, <3>2, <3>3, <3>6, <3>7, <3>8 DEF ToldOK
  <2>2. CASE e = env
    <3>1. told'[e] = IF job.alone /\ job.command # "uncomment" THEN b ELSE Nothing
      BY <1>1, <1>4, <2>2 DEF PrTypeOK
    <3>2. SUFFICES ASSUME job.alone, job.command # "uncomment" PROVE ToldOK(e)'
      BY <3>1 DEF ToldOK
    <3>3. \A i \in Job : jobs'[i].env # e
      BY <1>1, <1>3, <1>15, <2>2, <3>2, PullRequestsAssumption DEF JobAloneOK, JobAt
    <3>4. Indexes(t, env) # {} /\ t[First(Indexes(t, env))] = x
      <4>1. CASE Indexes(s, env) = {}
        <5>1. n = 0 /\ Indexes(t, env) = {Len(s) + 1}
          BY <1>3, <1>8, <1>14, <3>2, <4>1
        <5>2. First({Len(s) + 1}) = Len(s) + 1
          <6>1. {Len(s) + 1} \subseteq Nat /\ {Len(s) + 1} # {}
            OBVIOUS
          <6>. QED BY <6>1, LeastIndex
        <5>. QED BY <1>8, <5>1, <5>2
      <4>2. CASE Indexes(s, env) # {}
        <5>1. First(Indexes(s, env)) \in Indexes(s, env) /\ Indexes(s, env) \subseteq Nat \ {0}
          <6>1. DOMAIN s = 1 .. Len(s) /\ Len(s) \in Nat
            OBVIOUS
          <6>2. Indexes(s, env) \subseteq Nat \ {0}
            BY <6>1 DEF Indexes
          <6>. QED BY <4>2, <6>2, LeastIndex
        <5>2. n = First(Indexes(s, env)) /\ n # 0
          BY <1>14, <3>2, <4>2, <5>1
        <5>. QED BY <1>3, <1>8, <4>2, <5>2
      <4>. QED BY <4>1, <4>2
    <3>5. x.body = IF e \in environments THEN "urls" ELSE "deleted"
      <4>1. /\ job.command \in {"up", "comment"} => e \in environments
            /\ job.command = "down" => e \notin environments
        BY <1>1, <1>3, <2>2, <3>2 DEF WorldOK
      <4>. QED BY <1>2, <1>3, <3>2, <4>1 DEF Body, JobCommand
    <3>6. told'[e] = b /\ comments'[b] = t
      BY <1>5, <3>1, <3>2
    <3>7. Marked(told[e], e)' = Indexes(t, env)
      BY <2>2, <3>6 DEF Marked, Indexes
    <3>. QED BY <1>4, <3>3, <3>4, <3>5, <3>6, <3>7 DEF ToldOK
  <2>. QED BY <2>1, <2>2
<1>18. ASSUME NEW a \in Branch, NEW e \in Name \ crossed' PROVE OneComment(a, e)'
  <2>1. e \in Name \ crossed /\ OneComment(a, e)
    BY <1>4 DEF PrInv
  <2>2. CASE a # b \/ e # env
    BY <1>13, <2>1, <2>2 DEF OneComment
  <2>3. CASE a = b /\ e = env
    <3>1. job.alone
      BY <1>1, <1>3, <2>1, <2>3 DEF JobAloneOK, JobAt
    <3>2. n = 0 => Indexes(s, env) = {}
      <4>1. Indexes(s, env) # {} => First(Indexes(s, env)) # 0
        <5>1. DOMAIN s = 1 .. Len(s) /\ Len(s) \in Nat
          OBVIOUS
        <5>2. Indexes(s, env) \subseteq Nat /\ 0 \notin Indexes(s, env)
          BY <5>1 DEF Indexes
        <5>. QED BY <5>2, LeastIndex
      <4>. QED BY <1>14, <3>1, <4>1
    <3>3. \A i, k \in Indexes(t, env) : i = k
      BY <1>3, <1>8, <1>10, <2>1, <2>3, <3>2 DEF OneComment
    <3>. QED BY <1>10, <2>3, <3>3 DEF OneComment
  <2>. QED BY <2>2, <2>3
<1>. QED BY <1>9, <1>16, <1>17, <1>18 DEF PrInv

\* A job goes on; what it says then is right if its environment is as its command needs it.
LEMMA GoesKeepsPrInv ==
  ASSUME PrInv, NEW j \in Job, ~JobAt(j, "idle"), NEW at \in {"urls", "hook"}, JobGo(j, at),
         UNCHANGED <<comments, crossed, told>>,
         \A e \in Name : e # jobs[j].env => (e \in environments' <=> e \in environments),
         at = "urls" => jobs[j].command = "up",
         at = "hook" /\ jobs[j].command \in {"up", "comment"} => jobs[j].env \in environments',
         at = "hook" /\ jobs[j].command = "down" => jobs[j].env \notin environments'
  PROVE  PrInv'
<1>1. jobs \in [Job -> JobRecord] /\ RunsOK(j)
  BY DEF PrInv, PrTypeOK
<1>2. jobs' \in [Job -> JobRecord] /\ \A i \in Job \ {j} : jobs'[i] = jobs[i]
  BY <1>1 DEF JobGo, JobRecord
<1>3. /\ jobs'[j].at = at /\ jobs'[j].env = jobs[j].env /\ jobs'[j].branch = jobs[j].branch
      /\ jobs'[j].command = jobs[j].command /\ jobs'[j].comment = jobs[j].comment
  BY <1>1 DEF JobGo, JobRecord
<1>4. jobs'[j].alone = jobs[j].alone
  BY <1>1 DEF JobGo, JobRecord
<1>5. ~JobAt(j, "idle")' /\ RunsOK(j)' /\ WorldOK(j)' /\ FoundOK(j)'
  BY <1>1, <1>3 DEF JobAt, RunsOK, WorldOK, FoundOK, JobCommand
<1>. QED BY <1>2, <1>3, <1>4, <1>5, MoveKeepsPrInv

LEMMA StopKeepsPrInv ==
  ASSUME PrInv, NEW j \in Job, ~JobAt(j, "idle"), JobEnds(j),
         UNCHANGED <<comments, crossed, told>>,
         \A e \in Name : e # jobs[j].env => (e \in environments' <=> e \in environments)
  PROVE  PrInv'
<1>1. jobs \in [Job -> JobRecord]
  BY DEF PrInv, PrTypeOK
<1>2. /\ jobs' \in [Job -> JobRecord] /\ \A i \in Job \ {j} : jobs'[i] = jobs[i]
      /\ jobs'[j].at = "idle" /\ jobs'[j].env = Nothing
  BY <1>1 DEF JobEnds, Waiting, JobRecord
<1>3. JobAt(j, "idle")' /\ RunsOK(j)' /\ WorldOK(j)' /\ FoundOK(j)'
  BY <1>2 DEF JobAt, RunsOK, WorldOK, FoundOK, JobCommand
<1>. QED BY <1>2, <1>3, MoveKeepsPrInv

LEMMA FindKeepsPrInv == ASSUME PrInv, NEW j \in Job, FindComment(j) PROVE PrInv'
<1>. DEFINE marked == Marked(jobs[j].branch, jobs[j].env)
            found == IF marked = {} THEN 0 ELSE First(marked)
<1>1. /\ PrTypeOK /\ jobs \in [Job -> JobRecord] /\ RunsOK(j) /\ WorldOK(j)
      /\ jobs[j].at = "hook" /\ ~JobAt(j, "idle")
  BY DEF PrInv, PrTypeOK, FindComment, JobAt
<1>2. /\ UNCHANGED <<environments, comments, crossed, told>>
      /\ jobs' = [jobs EXCEPT ![j].at = "post", ![j].comment = found]
  BY DEF FindComment
<1>3. found \in Nat /\ (found # 0 => found \in marked)
  <2>1. jobs[j].branch \in Branch
    BY <1>1 DEF RunsOK
  <2>2. marked \subseteq Nat /\ (marked # {} => First(marked) \in marked)
    BY <1>1, <2>1, MarkedFacts
  <2>. QED BY <2>2
<1>4. Marked(jobs[j].branch, jobs[j].env)' = Marked(jobs[j].branch, jobs[j].env)
  <2>1. jobs'[j].branch = jobs[j].branch /\ jobs'[j].env = jobs[j].env
    BY <1>1, <1>2 DEF JobRecord
  <2>. QED BY <1>2, <2>1 DEF Marked
<1>. HIDE DEF marked
<1>. HIDE DEF found
<1>5. jobs' \in [Job -> JobRecord] /\ \A i \in Job \ {j} : jobs'[i] = jobs[i]
  BY <1>1, <1>2, <1>3 DEF JobRecord
<1>6. /\ jobs'[j].at = "post" /\ jobs'[j].env = jobs[j].env /\ jobs'[j].branch = jobs[j].branch
      /\ jobs'[j].command = jobs[j].command /\ jobs'[j].comment = found
  BY <1>1, <1>2, <1>3 DEF JobRecord
<1>7. jobs'[j].alone = jobs[j].alone
  BY <1>1, <1>2, <1>3 DEF JobRecord
<1>8. ~JobAt(j, "idle")' /\ RunsOK(j)' /\ WorldOK(j)'
  BY <1>1, <1>2, <1>6, <1>7 DEF JobAt, RunsOK, WorldOK, JobCommand
<1>9. FoundOK(j)'
  BY <1>3, <1>4, <1>6 DEF FoundOK, marked, found
<1>. QED BY <1>1, <1>2, <1>5, <1>6, <1>7, <1>8, <1>9, MoveKeepsPrInv

LEMMA PrStepKeepsInv == PrInv /\ [PrNext]_prVars => PrInv'
<1>. SUFFICES ASSUME PrInv, [PrNext]_prVars PROVE PrInv'
  OBVIOUS
<1>1. ASSUME NEW j \in Job PROVE RunsOK(j) /\ jobs[j] \in JobRecord
  BY DEF PrInv, PrTypeOK
<1>2. ASSUME NEW j \in Job, JobStops(j) \/ HookSkips(j) PROVE PrInv'
  BY <1>2, StopKeepsPrInv DEF JobStops, HookSkips, JobAt
<1>3. ASSUME NEW j \in Job, UpDeploys(j) PROVE PrInv'
  <2>1. PICK at \in {"urls", "hook"} : at = "urls"
    OBVIOUS
  <2>2. jobs[j].command = "up" /\ jobs[j].at # "idle"
    BY <1>1, <1>3 DEF UpDeploys, RunsOK, JobAt, JobCommand
  <2>. QED BY <1>3, <2>1, <2>2, GoesKeepsPrInv DEF UpDeploys, JobAt
<1>4. ASSUME NEW j \in Job, QueryUrls(j) PROVE PrInv'
  <2>1. PICK at \in {"urls", "hook"} : at = "hook"
    OBVIOUS
  <2>2. jobs[j].command \in {"up", "comment"} /\ jobs[j].at # "idle"
    BY <1>1, <1>4 DEF QueryUrls, RunsOK, JobAt, JobCommand
  <2>. QED BY <1>4, <2>1, <2>2, GoesKeepsPrInv DEF QueryUrls, JobAt
<1>5. ASSUME NEW j \in Job, DownDeletes(j) PROVE PrInv'
  <2>1. PICK at \in {"urls", "hook"} : at = "hook"
    OBVIOUS
  <2>2. jobs[j].command = "down" /\ ~JobAt(j, "idle")
    BY <1>1, <1>5 DEF DownDeletes, RunsOK, JobAt, JobCommand
  <2>3. CASE jobs[j].env \in environments
    BY <1>5, <2>1, <2>2, <2>3, GoesKeepsPrInv DEF DownDeletes
  <2>4. CASE jobs[j].env \notin environments
    BY <1>5, <2>2, <2>4, StopKeepsPrInv DEF DownDeletes
  <2>. QED BY <2>3, <2>4
<1>6. ASSUME NEW j \in Job, Uncomments(j) PROVE PrInv'
  <2>1. PICK at \in {"urls", "hook"} : at = "hook"
    OBVIOUS
  <2>2. jobs[j].command = "uncomment" /\ ~JobAt(j, "idle")
    BY <1>1, <1>6 DEF Uncomments, RunsOK, JobAt, JobCommand
  <2>. QED BY <1>6, <2>1, <2>2, GoesKeepsPrInv DEF Uncomments
<1>7. CASE UNCHANGED prVars
  <2>1. UNCHANGED <<environments, comments, jobs, crossed, told>>
    BY <1>7 DEF prVars
  <2>2. \A b, e : Marked(b, e)' = Marked(b, e)
    BY <2>1 DEF Marked
  <2>3. \A j \in Job : FoundOK(j)'
    BY <2>1 DEF PrInv, FoundOK, JobAt, Marked
  <2>4. \A e \in Name : ToldOK(e)'
    BY <2>1 DEF PrInv, ToldOK, Marked
  <2>. QED BY <2>1, <2>2, <2>3, <2>4 DEF PrInv, PrTypeOK, RunsOK, JobAloneOK, WorldOK, OneComment, JobAt
<1>. QED BY <1>2, <1>3, <1>4, <1>5, <1>6, <1>7, StartKeepsPrInv, FindKeepsPrInv, PostKeepsPrInv
        DEF PrNext

LEMMA OneIndex ==
  ASSUME NEW S, \A i, k \in S : i = k
  PROVE  Cardinality(S) <= 1
<1>1. CASE S = {}
  BY <1>1, FS_EmptySet
<1>2. CASE S # {}
  <2>1. PICK i \in S : TRUE
    BY <1>2
  <2>2. S = {i}
    BY <2>1
  <2>3. Cardinality({i}) = 1
    BY FS_Singleton
  <2>. QED BY <2>2, <2>3
<1>. QED BY <1>1, <1>2

\* github-comment.ts: whatever commands run for the branches of pull requests, and
\* wherever they are killed or fail, the comment that a command has left that ran
\* alone says what is there; and an environment for which no two commands ran at
\* a time has one comment at most on a pull request.
THEOREM CommentCorrect == PrSpec => []CommentTells
<1>1. PrInv => CommentTells
  BY OneIndex DEF PrInv, ToldOK, OneComment, CommentTells
<1>. QED BY <1>1, PrInitHasInv, PrStepKeepsInv, PTL DEF PrSpec
=============================================================================
