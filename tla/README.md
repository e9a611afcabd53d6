# Preevy in TLA+

Preevy provisions preview environments: it creates a virtual machine (or a pod), runs a
docker compose project on it, and exposes the project's services through tunnels to a
tunnel server. These modules specify the parts of it that run concurrently or fail
halfway, the configurations check them with TLC on small instances, and the `*Proofs`
modules prove the main results with TLAPS for instances of any size.

## The system

    CLI (preevy up/down/purge/ls/urls)          compose tunnel agent (on the machine)
      |  profile store (tar archive)              |  docker events and listings
      |  machine driver (Lightsail, GCE,          |  SSH, streamlocal-forward
      |  Azure, kube-pod)                         v
      v                                         tunnel server: SSH side -> tunnel store
    machine at the provider                                             -> HTTP proxy, login

The CLI's commands are short-lived processes that share the provider and the profile
store without locks. On the machine the agent is one more compose service; it holds one
SSH connection to the tunnel server and asks it for one forward per exposed port. The
server keeps the tunnels of all connections in one in-memory store, which its HTTP proxy
consults for each request. `preevy urls` and `up --wait` ask the agent, through its own
tunnel, which tunnels there are.

### Inventory

| Component | State | Operations | Hard behaviour | What makes it correct | Module |
|---|---|---|---|---|---|
| tunnel store (`tunnel-server/src/tunnel-store/`) | map of key to tunnel, transaction ids, index by thumbprint, one-shot watchers | set, get, delete with a transaction, lookup by thumbprint | the index is updated in the continuation of `set` and in a `delete` event: both lag behind the map | a stale delete touches nothing; the index never names a tunnel that is not stored | `TunnelStore` |
| SSH server (`ssh/base-server.ts`, `ssh/index.ts`) | connections, socket servers per connection, memoized pings, the map that `hello` lists | forward, cancel, ping, hello, errors and ends of connections and sockets | a forward is suspended up to three times; requests of a reconnected client compete with those of its dead connection | one listening socket per stored tunnel and vice versa; a tunnel is not stolen from a live connection and is reclaimed from a dead one | `TunnelServer`, `TunnelRouting` |
| HTTP proxy, authentication, sessions, login | cookies in the browser: sessions and the token; the entry a request has found | request, upgrade, login | private and public tunnels, redirects, failures of the target | a private tunnel is served to members of its profile only; no redirect loops | `TunnelProxy` |
| script injection (`proxy/injection/`) | what is held back of a page; the etag in the browser's cache | chunks, end, revalidation | pages cut anywhere, caches with scripts of earlier tunnels | the scripts come once and in their place | `Injection` |
| tunnel server's process (`tunnel-server/index.ts`, `tls-server.ts`) | servers that listen, open connections | start, signals | ports taken, a second signal while the first is waited out | no client is cut without need | `ServerProcess` |
| compose tunnel agent: tunnels (`compose-tunnel-agent/`) | current forwards, state of the last hello, the chain of updates | docker event, listing, update, `/tunnels` | listings overtake each other, calls fail or are not answered, the process exits on unhandled rejections | forwards follow docker; an answer matches its listing | `TunnelAgent` |
| compose tunnel agent: container API (`api-server/`) | streams of logs and commands | inspect, stop, start, restart, exec, logs, machine status | callers leave while a stream is being made | no stream is kept for nobody | `AgentApi` |
| SSH client base (`common/src/ssh/base-client.ts`), tunnel keys and host keys (`core/src/tunneling/`) | connection, forwards, channels, known hosts | connect, forward, exec, hello | keys that change between attempts, connections that end under a command | only vouched servers are asked | `TunnelAgent`, `SshSession` |
| machine operations (`core/src/driver/machine-operations.ts`) | none: the provider's state and the machine's disk | ensure machine, customize, metadata, snapshot | failure and kills between any two steps, tasks in parallel | `up` reports only machines that work | `MachineLifecycle` |
| machine connections (`core/src/driver/`, `common/src/ssh/`) | connections, the local server that forwards to docker, key files | connect, exec, forward, shell | connections made anew in the middle of a retry | nothing keeps a finished command alive | `MachineSession` |
| Lightsail driver | instances, snapshots, key pairs | get, list, create, delete | asynchronous deletion, key pairs stored in two places | the stored key opens the machine | `MachineLifecycle` |
| GCE and Azure drivers | instances; resource groups with their parts | as above | partial machines, lookups that meet a dying machine | one machine per environment, nothing lost or left | `CloudMachines`, `MachineLife` |
| Kubernetes pod driver | objects of an instance, pods, watches | apply, wait, list by types, mark, delete | deletion half way, watches that begin too late | what nobody finds again is explained; no event is missed | `KubePods` |
| SSH keys of a profile (`core/src/state/ssh.ts`) | key per alias | write, upsert, delete | two stores without a transaction | see the drivers | `MachineLifecycle`, `Profiles` |
| profile store and configuration (`core/src/store/`, `core/src/profile/`) | tar archive, list of profiles, current profile | read, transaction; create, import, delete, copy, use, update | whole-archive read, modify, write; list and archive written apart | what is listed can be loaded, nothing is lost by commands that do not overlap | `Profiles` |
| driver flags (`cli/src/driver-command.ts`, `commands/init.ts`, `commands/profile/`) | flags in the profile, shared flag definitions | init, create, update, unset, use | five sources with a precedence, defaults left out and put in | a command works where it was last asked to | `DriverFlags` |
| deploy (`core/src/commands/up/`, `upload-files/`, `build/`, `git.ts`) | the project's local directory, images, files on the machine | model, tag, build, upload, compose up, query tunnels | the user edits meanwhile, commands share the directory | what runs is what was made for the environment | `Deploy` |
| telemetry (`core/src/telemetry/`) | batch, timer, flushes | capture, flush, ends of the process | a flush races captures and the exit | every event is in one batch; the last one is waited for | `Telemetry` |
| login (`core/src/login.ts`) | token file, organizations | device flow, link | killed while it writes, two at a time | tokens come with an organization | `Login` |
| GitHub plugin, environment ids | comments on pull requests | up, down, comment, uncomment | find, then create | the comment tells the truth | `PullRequests` |
| forward request parsing, host names, emitters | none | parsing, hashing, typed events | none | - | - |
| plugins, prompts, output, site, dashboards | none that commands share | - | - | - | - |

`PROJECT.json` lists every component with its status and the hazards at their lines.

## Modules

### TunnelStore
`tunnel-store/index.ts` and the in-memory store it is built on
(`memory-store.ts`, `array-map.ts`). `map` is the map of entries with transaction ids,
`index` the thumbprint index. `StoreSet` and `StoreDelete` are the synchronous parts of
`set` and `delete`; `AddToIndex` is the continuation that `set` runs after its `await`
(pending ones are in `adding`), and `EmitDelete` the `delete` event, which is emitted on
the next tick (`deleting`) and in which the watcher takes the entry out of the index. All
of them interleave freely. The store is checked as a part of `TunnelServer`, and proved about for any
caller. Entries carry their value abstractly (`Value`, with its public key's thumbprint).

### TunnelServer
Extends `TunnelStore`. A connection is `live`, `mute` (the peer has vanished and nobody
knows), `errored`, `ended` or `closed`; a forward request is a handler whose `pc` is
the await it is suspended at:

| `pc` | where `onClient`'s forward handler is |
|---|---|
| `ping` | awaits the ping of the connection that holds its key |
| `awaitDelete` | awaits the watcher's `delete`, two seconds at most |
| `retry` | the event has come: `set` runs again |
| `accept` | the tunnel is stored, `accept()` is under way |
| `serving`, `cancelling`, `destroyed`, `failed` | its socket server listens, was closed by a cancel, was destroyed with the connection, emitted `error` |
| `rejected`, `dropped`, `released`, `idle` | done; the slot is free |

Each callback is one action: `Forward` and `Retry` (both with `TrySet`), `DeleteEvent`,
`DeleteTimeout`, `Listening` and `ListenFails` (`accept`), `Cancel`, `SocketError`,
`SocketClose`, `Connect`, `PingAnswered`, `PingTimeout`, `PingExpires` (the ping is
memoized for its timeout), `ClientError`, `ClientEnd`, `ClientClose`. Node finishes the
microtasks a callback has queued before the next I/O event: I/O and timer actions
require `Drained`. `Connect` is one action for the same reason: jose computes the thumbprint that the
`ready` handler awaits synchronously, so nothing but microtasks comes in between. Several requests in one chunk of data are parsed together
(`SameChunk`). `GoMute` is external: the other end of the TCP connection.
Left out: logs, the exec channel's other commands, the sockets' data, key exchange.

### TunnelRouting
What the server promises, without connections and callbacks: a key is granted to a request
when it is free and is never moved while it is granted; a request that waits for a key is granted
it or refused. `TunnelServer` implements it (`ImplementsRouting`) with `route` (the handler in the
stored entry of a key) and `asking` (the key a suspended handler waits for).

### TunnelProxy
The HTTP side: `proxy/index.ts`, `session.ts`, `auth.ts`, `app.ts` and
`http-server-helpers.ts`. A tab's request passes through stages, each the code between two
awaits:

| `at` | where the request is |
|---|---|
| `find`, `auth` | `validateProxyRequest`: the store is read; the authenticators are awaited |
| `proxy` | the target is on its way to the socket of the tunnel that was found |
| `login`, `loginAuth` | `/login`: the tunnel is found; the cookie's token is verified |
| `saas` | the user is at the SaaS's login (external) |
| `done` | answered, with the status in `answer` |

The tabs of a browser share its cookies (`jar`): one session per owner and the SaaS's token.
A request carries the cookies of the moment it was sent, and its answer sets cookies of the
moment it arrives. `Open` and `Close` stand for all that `TunnelServer` does to the store
meanwhile; a key that is opened again is another tunnel at another socket. Errors of
upgrades, which end in a raw HTTP line, are noted as their status. `entitled` is history:
whose profiles the user has ever belonged to. Assumed: requests come over https (the session
cookie is `secure`). Left out: malformed tokens and host names, the listing
`/profiles/:id/tunnels`, upgrades of protocols other than websockets. Pages with scripts are in
`Injection`.

### TunnelAgent
`compose-tunnel-agent/index.ts`, `docker/events-client.ts`, `ssh/tunnel-client.ts`,
`tunnels-state.ts`. A container event makes the throttled handler list the containers
(`Change`, `ListServices`), a listing that arrives appends an update to the chain
(`OnChange`, `queue`), and updates run one at a time: `Begin` computes the differences and
sends the unforwards, `DeletesDone` sends the forwards, `CreatesDone` and `Hello` ask the
server when something changed. `Replied` is the callback of one call, with the error paths
that matter here: a refused forward is recorded as a forward all the same, and the rejected
update kills the process unless an API request awaits it (`Read`, `Reject`). `Exit` and
`Restart` are the process and docker's restart policy. The tunnel server is external
here and behaves as `TunnelServer` allows: it answers in order, refuses paths that are held,
may keep a request waiting and never answers one whose socket does not listen. A request to unforward
closes the socket server (`ServerUnforwards`) and is answered when the last of its streams has ended
(`SocketServerCloses`), which may be never: then the update waits, and the updates behind it. A service is
the set of its forward requests; public and private requests of a service share a path.

### MachineLifecycle
`up`, `down` and `purge` as processes (`cli[c].at` is the step), with
`machine-operations.ts` and the Lightsail driver. `CheckMachine` to `Ready` are the steps
of `ensureMachine` in the code's order; the three last tasks (metadata, look for a
snapshot, create it) run in parallel there and in any order here. `Fault` stops a command
at any step: an exception and a kill look the same from outside. `Throw` is the code's own
errors, at a step whose precondition no longer holds. Lightsail (`Provider`) completes
deletions and snapshots at any time. The customization scripts run one by one (`Customize`; a machine
counts them in `scripts`, and has docker after the second), and a command that stops between two of them leaves what
has run. Three variables are history: `halfway` are machines whose maker stopped before they were ready, `mislaid` key
pairs that two commands made at a time or whose maker stopped before it had stored the private key, and `crowded`
environments for which two commands decided to create a machine before either had, or for which one replaced a
machine on its way out and left one that runs. Two operations do less than their names say and are modelled by what
they do: `DeleteProviderKeyPair` finds no pair (see Known divergences) and `DeleteStoredKey` removes
nothing, since the profile store's local copy resolves the file name against the working
directory. Abstractions: one region and so one key alias; a purge lists its resources in
one step; the state `pending` of a new instance is part of `CreateInstance`; machine
versions, ports, availability zones and pagination do not occur; bundles are numbers
ordered by what fits on what.

### Profiles
`profile/config.ts`, `profile/store.ts`, `state/ssh.ts` and the commands on them. A command
is a process (`cmds[c]`) that reads, computes and writes in steps, and may be killed between
any two (`Fault`); `at` is the step:

| `at` | the code between two accesses to disk or store |
|---|---|
| `createRead`, `createSave`, `createList` | `create` and `copy`: the transaction reads the archive and writes it, then the list is written with what was read at the start |
| `importRead`, `importList`; `useList` | `importExisting`; `setCurrent` |
| `rmList`, `rmDir` | `delete`: the list, then `rimraf` of the alias's directory |
| `updateRead`, `updateSave` | `profile config update` |
| `upHosts`, `upRead`, `upSave` | `up` connects to the tunnel server and adds its key to the known hosts |
| `upKey`, `upKeySave`, `upMachine` | `upsertKey` of the GCE and Azure drivers, and the machine |

What a command has read travels with it (`Local`), and writes replace the whole list or the
whole archive. A store `local://d` is the directory of the alias `d`. `machines`, `confirmed`
and `overlapped` (TRUE once two commands have run at the same time) are history. Key pairs, ids
and tunneling keys are numbers drawn from `fresh`, so a new profile's tunneling key has the number of its id. Abstractions: a file is
written in one step; `copy` reads its source in the step in which it saves the copy; the
flags of one driver stand for those of all; commands that fail before their first write
are left out, since they change nothing; `init` is a `Create` with `--use`.

### CloudMachines, MachineLife
The Azure and the GCE driver in one module, as `driver` says; a command is a process
(`cli[c].at`), a machine a resource group with its virtual machine, or an instance:

| `status` | the machine |
|---|---|
| `parts` | a group without a virtual machine (Azure) |
| `starting`, `running`, `stopped` | its virtual machine or instance |
| `ending`, `emptied`, `gone` | its deletion has begun; its virtual machine is gone and the group is not; all is gone |

`FindInstance` is the lookup by tags of virtual machines or by labels, `FindVmResource` Azure's second
one by tags of groups, `CreateGroup` and `CreateParts` fill a group and end with
`beginCreateOrUpdate`. `deleteResources` deletes every machine in a chain of its own, and the command goes on when all of
them have ended: `left` are the machines whose deletion is still to be asked for (`DeleteMachine`), `waits` those that it waits
for with `--wait` (`WaitForDeletion`). Azure is asked a second time after that, and may say that the group is not
found (`AskedAgain`): the command then throws while other groups are still being deleted. `VmStarts`, `VmFails`, `VmStops`, `VmEnds` and `GroupEnds` are the cloud. Machine 0 belongs to another
profile. `disturbed` (another command was at work on the environment) and `crowded` (why an
environment may have two machines) are history. `MachineLife` is what `machine-operations.ts`
relies on: a machine is created, is whole once, and ends. Left out: the customisation of a machine, which is that
of `MachineLifecycle`; network interfaces one by one; zones.

### KubePods
The Kubernetes pod driver. `object[i][kind]` is an object of the instance `i` (`absent`, `live`,
`marked` as deleted by label, `ending`, `gone`); instance 0 is an environment of an older version,
whose workload is a Deployment. `deleteEnv` goes through the phases `types`, `list`, `mark`,
`delete` for each instance found, all of them in parallel. `StartPod`, `PodReady`, `PodFails`, `PodGone` and
`Replicated` are the controllers. A watch has an event only of what changes after it has begun. `ExecDropped` is a connection of
`kubectl exec` that ends early, which the driver retries. `hurt` and `overlapped` are history.

### Deploy
`up` on a machine that is there, in the stages of `core/src/commands/up/`: `model` (the user's
compose model), `head`, `changes` (image tags from git's state), `plan`, `bake`, `file` (the generated
compose file, written into the directory that the project's commands share), `upload`
(walk, archive, unpack), `compose`, `urls`. The compose file may name an `image` for the service, which is then what is deployed
(`ImageName`: `image ?? thisImage`), while the build is tagged as always; whether buildx gives it that name too is left open
(`BakeImage`), and a registry may have that name from before. The host has images by name, `files` with size and time to the
second, and the container that runs. `Edit`, `Commit` and `Tick` are the user and the clock, docker, git and
the agent (`AgentStep`) are external. A project has one service with a build and one mounted file, which is
enough for a stale image, a stale model and a stale file.

### Modules that are checked side by side
Parts of the CLI that share no state with one another are extended by one MC module, `MCCli`, and parts behind one
request by another, `MCTunnelProxy`. A behaviour chooses a `part` at the start and takes only its steps; each module has its own
`...Init`, `...Next` and variables.

**Telemetry** (`core/src/telemetry/`, and the hooks of the CLI). A step is a turn of the event
loop. `pendingEvents` is the batch, `flushLimit` the queue of flushes (`p-limit`), `sending` the one that is
at its request. `FlushBegins` takes the batch in the turn in which its predecessor ends, so other steps wait for
it. The ends of the process are `LoopEmpty`, `BeforeExit`, signals (`Interrupted`, `RaisedAgain`) and errors
(`CommandFails`, `Stray`).

**Login** (`core/src/login.ts`, `commands/login.ts`, `commands/profile/link.ts`). Processes
read the token file (`loginRead`, `linkRead`), poll for tokens, empty and write the file
(`TokensCreate`, `TokensWritten`), and ask for an organization. They may fail or be killed at each step.

**PullRequests** (`plugin-github/`, `core/src/env-id.ts`). Jobs of a CI deploy, delete, or only comment; a
job finds a comment and then writes one (`FindComment`, `PostComment`). `Spelling` is what normalizing a branch's name forgets.

**SshSession** (`core/src/tunneling/`, `common/src/ssh/base-client.ts`, `compose-tunnel-agent-client.ts`). A
command connects, checks or asks about the host key, authenticates, saves the key, asks `hello` and `tunnel-url` on two channels, and then the agent with
retries. `ServerReplaced` gives the server another key at any time.

**MachineSession** (`core/src/driver/machine-operations.ts`, `common/src/ssh/forward-out.ts`, `commands/logs.ts`,
`shell.ts`). What a command holds open: connections by number, the local server that forwards to
docker with its clients, and the key file of `shell`. `ConnectionLost` and `Killed` come at any step.

**DriverFlags** (`cli/src/driver-command.ts`, `commands/init.ts`, `commands/profile/`). Two flags of each
driver, from the command line, the compose file, the profile or the default. `chosen` is history: what was last asked for.

**Injection** (`tunnel-server/src/proxy/injection/`). A page is a sequence of pieces, two for each tag, so that a
chunk may end within a tag. `Transform` holds back what the parser has not reported, `Inserted` puts the scripts in, `Environs`
and `NotModified` are the etags of request and answer. `Cut` ends the service's answer early, `Crashes` are the errors of an
answer that nobody catches: its content type does not parse, its coding or charset is unknown, or its body is not of its coding.

**ServerProcess** (`tunnel-server/index.ts`, `src/tls-server.ts`). The servers listen one after the other (`app`, `ssh`, `tls`,
`metrics`), then the signal handlers are set; `handled` signals are those that were handled once. TLS connections go to SSH or HTTP by
their protocol. An uncaught error ends the process (`Uncaught`): two are known, that of a request upgraded to TCP whose tunnel's socket is
gone (`UpgradeFails`), and those of answers that should get scripts (`AnswerFails`).

**AgentApi** (`compose-tunnel-agent/src/api-server/`). A call is `asked`, `checked`, `created`, `started` and
`piped`; its stream with docker is made between awaits while the caller may leave. `early` is history: callers that left before anybody
listened for it.

## Runs

| Run | Instance | Shows |
|---|---|---|
| `tunnel_server` | 2 connections of one client, a public and a private request for one path, 2 handlers, 3 transactions | `OwnerExact`, `SocketServersExact`, `HelloExact`, `IndexExact`: what is owned, listened on, told and indexed agrees; `NoSteal`; `ImplementsRouting`: the refinement; `DeadTunnelsReclaimed` |
| `tunnel_agent` | the agent's service and one that is public or private; 2 changes, 2 faults | `AsksOnce`, `AnswersExact`; `Converges`: forwards become docker's services |
| `tunnel_proxy` | proxy: 1 tab, 2 visits, 2 owners, all kinds of authorization headers, 3 changes. Injection: pages of up to 6 pieces in 2 versions, 2 scripts. Process: 2 connections, 3 signals. API: 2 callers, 2 containers | `ServedProperly`, `VisitsSettle`, `MemberServed`; `InjectedAlike`, `CachedFresh`; `CutExplained`; `StreamsClosed` |
| `machine_lifecycle` | Lightsail: 2 commands at a time, 3 in all, 1 environment, 3 machines, a kill anywhere | `ReadyUsable`, `KeyUsable` |
| `machine_places` | Lightsail: 2 commands at a time, 3 in all, 2 environments, 3 machines | `OneMachinePerEnv` |
| `cloud_machines` | Azure or GCE: 2 commands at a time, up to 4 machines, 1 fault | `OneMachinePerEnv`, `ReadyAsAsked`, `PurgeLeavesNothing`; `LivesOnce`: `MachineLife` is implemented |
| `kube_pods` | 2 commands at a time, 2 instances beside one of an older version, 2 templates, 1 fault, 1 retry | `OrphansExplained`, `OneInstancePerEnv`, `ReadyAsAsked`, `WaitsEnd` |
| `profiles` | 2 commands at a time, 4 in all, 2 aliases and directories, 1 remote location, 2 host keys | `CurrentListed`; and while none have overlapped: `KnownKept`, `KeyKept` |
| `deploy` | 2 commands, of two environments or of one, every kind of build, with and without an image of the service's own, 1 edit | `UploadedBeforeUp`, `OwnModel`, `FreshImage` |
| `deploy_stale_image` | 1 command at a time, an edit in between | finding: `RunsWhatWasBuilt` |
| `deploy_wait` | 1 command | finding: `WaitsForTunnels` |
| `cli` | telemetry: 3 events of the command. Login: 2 users, 2 processes, 4 commands. Pull requests: 4 branches of 2 names, 2 jobs, 3 commands. SSH session: 2 host keys, 2 retries. Machine session: 2 clients of docker, 2 tries. Flags: 2 drivers, 2 values, an update, a run | `EventsTried`; `LoginsJoin`; `CommentTells`; `Vouched`; `LeavesNothing`; `AsAsked` |

Why the bounds suffice to see the interesting cases:

- `MaxTx = 3`: a tunnel, its successor after a takeover or a stale delete, and one more.
- Two connections are a dead one and its successor; two handlers are one for each, or a request and its duplicate.
  Connections are used once, so an instance ends with all of them closed.
- `MaxTargets = 2`: a tunnel and the one that takes its key. `MaxVisits = 2`: a second request with the
  session that the first has made. `MaxChanges = 3`: open, join, leave or expire. One visit may pass the
  proxy, the login and the SaaS several times. Six pieces are a head, a body and an end, or any of them repeated, cut at every piece.
  Three signals are two of one kind and another.
- `MaxListings = 2` and `MaxQueue = 2`: one listing overtakes another, one update waits for
  another. `MaxChanges` counts container events, `MaxFaults` the refusals, lost
  connections and kills.
- `MaxMachines = 3` of Lightsail: a machine and those that two overlapping commands put in its place, or its replacement and
  its copy. `MaxKeys = 2`: a key pair and the one a concurrent command creates. `Room` keeps commands from starting that could
  exceed the bound on machines. One environment is enough for what commands do to each other's machine and keys, with a command
  that stops anywhere; the second one, in `machine_places`, is there for a machine that is another environment's.
- `MaxMachines = 4` of Azure and GCE: one of another profile with the same environment id, one that runs already and
  one whose deletion has begun, if they are there at first, and those that two commands create.
- `MaxInstances = 2`: the instance of one command and that of the next, beside the one of an older version. Two
  templates differ in kinds, so that a deletion finds types its command's template lacks.
- `MaxCommands = 4` of profiles: two that prepare and two that race, or create, remove, import and up in
  turn. `MaxFresh = 3` counts the ids and key pairs of all of them.
- `MaxUps = 2`, `MaxEdits = 1`, `MaxTime = 1`, `MaxAttempts = 1` of `Deploy`: two commands that overlap, or follow each other with an edit
  or a commit in the same or the next second in between. The commands may be of one environment or of two, which share the local directory. Time passes only as long as
  one environment is used: the seconds matter for what an environment's machine has. `Quiet` excludes both at a time: commands that
  overlap do not have a user who edits as well, nor a service with an image of its own.
- `MaxEvents = 3`: one before a flush, one during it, one while the process ends. The two processes, jobs or host keys of the other parts
  are one and the one that comes between its steps. `FlagValue` has the driver's own default and another value.
- Deadlock checking is off because every instance stops when its bound is used up or its
  users do nothing more; the liveness properties say what may not get stuck.

Symmetry is used in `CloudMachines`, `Deploy`, `KubePods`, `MachineLifecycle` and `Profiles`, for
commands and names that nothing tells apart, never in a run with a liveness property.

## Fairness

- `TunnelServer`: the event loop runs queued callbacks; timers fire; a destroyed or failed socket
  server closes; ssh2's keepalive reports a mute peer; a connection that was told to end, or has
  errored, closes. Clients promise nothing: they need not send, answer or disconnect,
  and a cancelled socket server may wait for its open streams for ever.
- `TunnelProxy`: the server answers, browsers follow redirects, and users log in when they are asked.
- `TunnelAgent`: docker and the server answer, callbacks run, the keepalive gives up on a
  connection whose calls are stuck, and docker restarts the agent (`restart: always`). Nothing ends the streams of a socket
  server that is closing: while an unforward waits for them, `Converges` promises nothing.

The other modules have no liveness property and assume nothing: a command may stop anywhere. Where the
question is what is waited for without end, it is stated as an invariant (`WaitsEnd`, `LeavesNothing`,
`CutExplained`): whoever waits has something that can still come.

## Proofs

Eight modules hold the proofs, each of the modules it extends. Every invariant that a passing run checks is a theorem,
and so are the action properties and the refinements: only liveness is left to TLC. The sets of connections, commands, machines, profiles,
files and so on are arbitrary, and so are the bounds. What is assumed of the constants is named in the modules:
mostly that `None` is none of the values it stands beside. The inductive invariants were checked with TLC on the runs' instances first.

`TunnelServerProofs`, from `StoreAssumption` and `ServerAssumption` (one client per public key, keys of different
clients differ). Of the store, for callers that make any calls with any transactions:

- `StoreIndexCorrect`, `TransactionsUnique`, `LookupCorrect`: `StoreSpec => []IndexExact`,
  `[]TxUnique`, `[]LookupExact`.

`IndexExact` is not inductive: a `delete` event takes *its* entry out of the index, and the map
may already hold a successor with the same value. `StoreInv` adds that live entries, queued events
included, have distinct transactions (`TxUnique`), and that an entry whose deletion is still to be
announced is not stored (`ApartOK`). Of the server:

- `TypeCorrect`: `Spec => []TypeOK`.
- `OwnerCorrect` and `SocketServersCorrect`: `Spec => []OwnerExact`, `Spec => []SocketServersExact`.
- `NeverStolen`: `Spec => NoSteal`.
- `IndexCorrect`: `Spec => []IndexExact`. Every step of the server is a step of the store or
  leaves it alone, so the lemmas about the store apply.
- `HelloCorrect`: `Spec => []HelloExact`. What `hello` reads is a map by connection that several callbacks write; each
  writes the request of its own handler, and by `SocketServersExact` no two listed handlers have the same.
- `RoutingImplemented`: `Spec => ImplementsRouting`. Every action maps to `Grant`,
  `Ask`, `Release`, `Refuse` or a stutter; that `Release` is of the handler's own route
  is `OwnerExact`.

`OwnerExact` and `SocketServersExact` are not inductive, not even together. When a handler's
socket server starts to listen, `base-server.ts` puts it into the registry without
looking, and nothing in the two says that no other server of the same request is there.
The inductive invariant `IInv` adds

- `ActiveOK`: a busy handler knows its connection and request, and its transaction was handed out;
- `TxOK`: stored entries have distinct transactions, none of which is being announced as deleted;
- `RivalOK`: the entry a suspended handler waits for is another connection's, at the handler's key;
- `BesideOK`: a handler waits beside an open socket server of its own request only when that
  server came later; the entry the handler waits for is then gone, so a retry finds the
  successor's entry stored and is rejected. This is what keeps `Listening` from overwriting a server.

The proof has a step per action and under it one per conjunct; the handlers that an action does not name
keep their facts (`Still`). `NoSteal` follows from the same invariant: the only entry that
`StoreDelete` can remove is the handler's own. Of those who log in and connect to the server, for any users, processes and keys:

- `LoginsCorrect`: `LoginSpec => []LoginsJoin`. `LoginInv` adds that a run that links has a user with an organization.
- `VouchedCorrect`: `SessionSpec => []Vouched`. `SessionInv` adds that what a command trusts, and what it read as known, was
  vouched for: a key that was confirmed for an attempt that failed is still a key the user confirmed.

`TunnelProxyProofs`. Of the proxy, from `ProxyAssumption`:

- `TypeCorrect`: `Spec => []TypeOK`; `ServedCorrect`: `Spec => []ServedProperly`.

`ServedProperly` speaks of answers only. The inductive invariant follows a permission back to its
source: cookies, those in the jar and those a suspended request carries, hold an admin's session or
a token only for `entitled` owners (`CookiesOK`); a browser's valid header entitles
(`HeaderOK`); a request that is on its way to a target was cleared for the entry it holds (`Due`),
and that entry is the one opened at the target (`IsAt`), since targets are not reused. What a
tab knows stays true when entries and entitlements are added (`TabGrows`). Of the other parts that `tunnel_proxy` runs:

- `CutCorrect`: `ProcessSpec => []CutExplained`. `ProcessInv` adds that open connections came in at servers that `close` closes, and
  that every signal that was handled has come: a second handled one makes `signals > 1`. It says nothing of a process that ends by an
  uncaught error.
- `StreamsCorrect`: `ApiSpec => []StreamsClosed`. `ApiInv` adds that a call has a stream only from the step that makes it.
- `InjectedCorrect`: `InjectionSpec => []InjectedAlike`, for pages up to any number of pieces (`MaxPieces`), cut anywhere. No induction over
  pages is needed: before the place of the scripts has come all is held back, and the place is past what was seen; after
  it, what went out and what is still to come are together the page with its scripts (`StreamOK`).
- `CachedCorrect`: `InjectionSpec => []CachedFresh`. A request asks with the etag that its browser holds (`InjectionInv`), and
  a page without scripts is passed on only to a browser whose etag names none.

`TunnelAgentProofs`, for any finite set of services (`AgentAssumption`):

- `AgentTypeCorrect`: `Spec => []TypeOK`; `AsksOnceCorrect`: `Spec => []AsksOnce`; `AnswersExactCorrect`: `Spec => []AnswersExact`.

`AsksOnce` needs to know what the server serves at every moment of an update. `UpdateOK`, as long as no failed update has been absorbed, says
that without a call under way the agent's forwards are what is served (`ServedOK`), that a call's reply tells
whether it has changed that (`CallsOK`), that the calls of a stage are exactly what is left to do of it (`StageOK`), and that
an update without changes leaves the last `hello` true (`ChangesOK`). That the calls of an update are
each made once is `OrderOfSet`, about `SetToSeqs`.

`MachineProofs`, for any commands, environments, sizes and bounds (`LifecycleAssumption`, `Cli` finite):

- `LifecycleTypeCorrect` and `ReadyUsableCorrect`: `Spec => []TypeOK`, `Spec => []ReadyUsable`, with overlapping commands, faults and
  kills. `LifecycleInv` adds what has been established of the machine that `up` works on (`WorkOK`), which other commands
  cannot undo, since a number is used for one machine only; that a machine has one maker (`MakersOK`), and that one which is not complete has it still, or
  has been left `halfway` (`HalfOK`); that snapshots have all scripts; and `RoomOK`: the machines that commands may still create fit into the bound.
- `KeyUsableCorrect` and `OneMachineCorrect`: `Spec => []KeyUsable` and `Spec => []OneMachinePerEnv`, with the same overlaps, kills and lagging
  deletions: no assumption is made but `LifecycleAssumption`. `KeysInv` says that a command which creates a key pair does so when all that
  exist are mislaid, so that at most one pair that is not is stored, or about to be; `PlacesInv` that, unless its environment is crowded, a command
  that has decided to create a machine is the only one, and that no machine of the environment runs but the one it replaces.
- `LeavesNothingCorrect`: `MachineSpec => []LeavesNothing`. `MachineInv` adds that there is one connection at most, none while a
  command connects anew, and no client of a local server that is gone.

`CloudProofs`, from `CloudAssumption`:

- `LivesOnceCorrect`: `Spec => LivesOnce`, the refinement of `MachineLife` by every machine of `CloudMachines`, for any
  number of commands, machines and faults. Where a status may go in one step is `Follows`; creation needs that the
  number it takes is that of no machine yet (`LifeInv`).
- `CloudTypeCorrect`, `OneMachineCorrect`, `ReadyAsAskedCorrect`, `PurgeLeavesNothingCorrect`: `Spec => []TypeOK`, `[]OneMachinePerEnv`,
  `[]ReadyAsAsked`, `[]PurgeLeavesNothing`. `CloudInv` adds that two commands touch one environment only if it is `disturbed` (`Apart`), that
  a machine which is being created is one that an `up` is at work on (`Made`), what `up` has come to (`UpOK`: before it
  creates a machine nothing alive is left of the environment), and that a purge that runs alone has listed whatever is there (`PurgeOK`). What was
  found is still to be asked for, waited for, or on its way out, in each chain by itself.

`KubeProofs`, from `KubeAssumption` (a template renders to a sequence of kinds, none of them a volume claim, which only controllers make;
an environment of an older version has a Deployment and no StatefulSet), for any environments and commands, with kills anywhere:

- `KubeTypeCorrect`, `OrphansCorrect`, `OneInstanceCorrect`, `KubeReadyCorrect`, `WaitsEndCorrect`: `Spec => []TypeOK`,
  `[]OrphansExplained`, `[]OneInstancePerEnv`, `[]ReadyAsAsked`, `[]WaitsEnd`.

`KubeBasis` says what commands and the cluster agree on: an instance was created with the labels of its environment and template and has
objects of the kinds of that template only (`ClusterOK`), a command works on an instance of its own (`CommandOK`) and deletes those of its
environments (`PhaseOK`), and two commands that touch an environment overlap there (`Apart`). Three invariants stand on it.
`HistoryOK`: unless it is `hurt`, an instance without a StatefulSet has an `up` that still applies its objects, a deletion that still has to
see to all that is left of it (`Covers`), or nothing left.
`OneOK`: an `up` that is alone in its environment has deleted, or has in hand, every instance that can be found there but its own (`AloneOK`), and
what a deletion has marked is not found any more (`MarkingOK`).
`WaitsOK`: a watch is of an object that is there, a wait for a pod that is ready has its event (`WaitingOK`), and a deletion with `--wait` still
has to delete, or waits for, whatever is there of an instance that nobody else interfered with (`DeletionOK`).

A step has many forms: a command deletes several instances at a time, each at a phase of its own. So it is first reduced to
what it does to the record of its command and to the cluster (`NextDoes`, `KubeStep`), and the invariants are shown for these kinds of steps
rather than for each action again. `MostRecent`, from the well-foundedness of the numbers, says that the
instance a lookup picks, the most recent of those it has found, exists.

`ProfilesProofs`, from `ProfilesAssumption` (locations are named differently, `None` is none of them):

- `TypeCorrect`, `CurrentCorrect`, `WholeCorrect`: `Spec => []TypeOK`, `[]CurrentListed`,
  `[]LoadableWhole`, for any number of overlapping commands. `LoadableWhole` (a profile that loads has
  its tunneling key) is proved and not run.
- `KnownCorrect` and `KeyCorrect`: `Spec => []KnownKept`, `Spec => KeyKept`.

A list or an archive that is written may be based on any older one, so it does not help to know
that the one on disk is sound. `CmdOK` says it of everything a command has read and will
write back (`ListOK`, `ArchiveOK`), and that it has what its later steps use; each step's copy
is shown to be sound again. `KnownKept` and `KeyKept` speak of commands that have not overlapped. For them
`SoloInv` says that only one command runs, that what it has read is still what is there (`CopyOK`), and that
ids are given out once (`IdsOK`): a host noted for an id is not found missing in another profile.

`CliProofs`. Of `Deploy`, from `DeployAssumption`:

- `DeployTypeCorrect`, `UploadedCorrect`, `OwnModelCorrect`, `FreshImageCorrect`: `Spec => []TypeOK`, `[]UploadedBeforeUp`, `[]OwnModel`, `[]FreshImage`.

The properties speak of one moment, before or after docker compose, and of commands that shared the local directory with no other. `DeployInv` says that such a
command is the only one that runs (`AloneOK`), that what it finds in the directory is what it wrote (`DirOK`), that each file is still to be walked, in the queue, or on
the machine as it was found or as it may be taken for (`FilesOK`), that what it has built is the only image of its tag (`ImageOK`), and that a
random tag, which is numbered past those of commits and given out once, is of no other image (`TagsOK`). That the image which runs is the one
  that was built is claimed of services that name no image only. `StateOK` and `CommandOK` hold of overlapping commands too.

Of the other parts, for any branches, drivers and values (`FlagAssumption` and `PullRequestsAssumption` say that `NoFlag` and
`Nothing` are none of them):

- `AskedCorrect`: `FlagsSpec => []AsAsked`. `FlagsInv` adds that what the profile stores, over the defaults it left out, says what was
  chosen (`ProfileSays`), and that a command that has extracted defaults took them from a profile that says so (`CommandSays`).
- `EventsCorrect`: `TelemetrySpec => []EventsTried`, for any number of events. `TelemetryInv` adds that an event that is captured
  once is not captured again after it was put into a batch (`Stream`), that whoever awaits a flush has captured what it waits for
  (`AskerOK`), and that a process at its end has nothing pending without a flush in the queue.
- `CommentCorrect`: `PrSpec => []CommentTells`. `PrInv` adds that what a job that ran alone has found on the pull request is
  what it would find again (`FoundOK`), that its environment is there, or gone, as its command left it (`WorldOK`), and that nobody works with an environment
  that has been told of (`ToldOK`). `LeastIndex` says that the comment that is found, the first of several, exists.

Only model-checked: all liveness (`DeadTunnelsReclaimed`, `Converges`, `VisitsSettle`, `MemberServed`), which is out of
the prover's reach together with ENABLED and induction over data.

## Findings

- `RunsWhatWasBuilt` (`deploy_stale_image`): a file with local changes that is edited again between two deploys with
  `--registry` is built and pushed under the tag of its first version, and a machine that has an image of that tag does not pull.
  The hash is of `git diff-index`, which prints zeros for a changed file whatever it contains.
- `WaitsForTunnels` (`deploy_wait`): `--wait` retries requests that fail, not answers that say a service is still starting: these
  fail the command at once.

Known divergences that no run states:

- *Tunnel server.* `BadRequestError` says "Bad request" with status 502, so a token that does not verify looks
  like a missing tunnel. An answer that should get scripts ends the process when its content type does not parse, when its coding
  or charset is unknown (the fallback calls `writeHead` a second time), and when its body is not of its coding. After SIGTERM the server waits
  for all agents to leave, and a second, different signal exits with 1. A failure of the SSH or TLS port leaves a process without
  signal handlers that serves the other ports. A request upgraded to TCP whose tunnel's socket is gone ends the process: the socket
  has no listener for its error.
  A cancel is answered only when the last stream of its socket server has ended: a stream that stays open holds up the agent's updates.
- *Agent.* It answers "stable" though the server has refused a forward, when an API request has absorbed the failure.
- *Machines.* `purge --all` passes key pair names where `deleteKeyPair` expects an alias. Azure's `getInstance` looks at
  the environment only, not at the profile; its list fails when a machine has no address; groups without a virtual machine are
  removed by purge only; with `--wait` it asks for deletions twice and the second one may throw, before other deletions have
  ended. A machine whose customization stopped once docker was there is taken as it is by every later `up`. Two watches of Kubernetes may begin
  after what they watch for, and a StatefulSet deleted under an `up` that waits for it is waited for forever. Retried commands in
  a pod append to the same output.
- *Sessions.* A command over SSH waits for ever when its connection is lost; a declined host key in `env metadata` makes it ask the
  driver instead; host keys of connections that were not checked become known. `logs` over SSH never closes its connection;
  the key file of `shell` may outlive it; a forwarder that is made after its connection was lost leaves docker compose
  waiting, and forwarders listen on 0.0.0.0.
- *Login and profiles.* A login after a stopped one says "Already logged in" without an organization; a token file whose writer was
  killed is empty; a device code that was refused or has expired is polled for ever. `profile config update --unset` accepts flags that the driver
  requires; `config update` stores `AWS_REGION` unasked. The docs call the last profile created the default one, and `profile cp` a way
  to migrate state; `Listing` sets the current profile only with `--use`, and `Created` copies no SSH keys.
- *Pull requests.* Branches that normalize alike share an environment; a `down` that fails in its hook never corrects the comment.
- *Telemetry.* The `exit` event of a failed command is not sent; a first unhandled rejection does not end a CLI with
  telemetry. `filterUrls` hooks are never registered (`cli-common/src/lib/hooks.ts`).

## Known limits of what is claimed

- `MemberServed` speaks of one tab and of users without a session as guests and without an
  expired token. Who was a guest when the session was made stays one until the session cookie is
  gone, also after joining the profile; and with two tabs the answer of an older
  login can overwrite a session that a newer one has made.
- `ServedProperly` counts former members: a session keeps its role when its user leaves.
- A socket server that starts to listen after its connection has closed stays up until it
  fails; `DeadTunnelsReclaimed` speaks of servers that were listening before.
- `CutExplained` is about a process that ends by itself or is asked to. Errors that nobody catches end it with all its
  connections (`proxy/index.ts:189`, `injection/index.ts:92` and `:97`, `content-encoding.ts:20`), and nothing is claimed of them.
- `Converges` allows for three cases in which the agent may settle on something else: listings have overtaken each other
  (`overtaken`) or an API request has swallowed the failure of an update (`absorbed`), until the next container event; and a delete
  waits for streams that do not end.
- `ReadyUsable`, `OneMachinePerEnv` and `KeyUsable` of Lightsail are checked and proved for overlapping commands, and name in
  their history what the code does not prevent. Two concurrent `up`s of an environment both create a machine, and maybe a
  key pair each (`crowded`, `mislaid`); an `up` that meets a machine on its way out may be ready with it, or replace it while another one
  runs (`crowded`); a command that stops between creating the key pair and storing the private key leaves a pair that
  nobody can use and that later commands do not replace (`mislaid`); and one that stops between two scripts leaves a machine that later ones
  accept once it has docker (`halfway`). Those of the other drivers do the same (`crowded`, `disturbed`), or
  speak of commands that do not overlap (`overlapped`).
- `PurgeLeavesNothing` is about deletions that succeed, not about those that throw.
- `FreshImage` and `RunsWhatWasBuilt` are about a service that names no image: one that does runs whatever has that name on the machine
  or in the registry, which need not be what was built.
- `ReadyAsAsked`, `OwnModel` and `CommentTells` speak of a command that no other one has interfered with; what overlapping
  commands do to each other is in their state graphs, and the properties say when nothing is promised.
- Nothing locks a profile. Two commands at a time may lose an entry of the list, a known host, flags
  or a key pair, and a profile that is being created at the same location twice ends up with the second
  key; `KnownKept` and `KeyKept` speak of commands that run one after the other, killed or not.
- The upload leaves a file out if its size and second agree with what is on the machine (`UploadedBeforeUp` says so).

## Not modelled, and why

- Forward requests are parsed from one string, and names of hosts and environments are cut and hashed: pure functions of
  strings, from which the modules start.
- The emitters are typed wrappers of Node's; their calls are steps of the modules that listen.
- Rendering, logging, prompts, progress and the dashboards carry no state that a property could be about. Plugins are loaded once.
- Data that passes through tunnels, archives and uploads, and pages of listings, are I/O.
- Which variables of which CI name a branch or a pull request is a table.
- The site, code generation and build scripts are outside the running system.

## Plan

Done, in this order: `TunnelStore`; `TunnelServer`, `TunnelRouting` and `TunnelProxy` with their proofs;
`TunnelAgent`, `MachineLifecycle`, `Profiles` with its proofs; the drivers (`CloudMachines` with `MachineLife`, `KubePods`);
`Deploy`; the parts of the CLI (`Telemetry`, `Login`, `PullRequests`, `SshSession`, `MachineSession`, `DriverFlags`) and those behind a
request (`Injection`, `ServerProcess`, `AgentApi`); the proofs of the store, of its index and of `HelloExact`, of
the services, the CLI and the machines' life; the proofs of the agent, the machines of all drivers with virtual machines, profiles used by one command
at a time, comments, injection and deployment; those of the Kubernetes driver.

What may follow: the weaker promises for commands that overlap, which `OneInstancePerEnv` and its kin leave open.
