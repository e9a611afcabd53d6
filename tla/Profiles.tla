------------------------------ MODULE Profiles ------------------------------
(****************************************************************************)
(* Profiles: the list of a user's profiles on disk, and the stores at their *)
(* locations, which several users may share.                                *)
(*                                                                          *)
(* Commands are processes without locks.  Each reads the list or an archive *)
(* as a whole, changes its copy, and writes the whole back later; it may be *)
(* killed in between.  A local store is a directory named in its URL, and   *)
(* stands here for the alias of that name; other locations are remote.      *)
(****************************************************************************)
EXTENDS Naturals, FiniteSets

CONSTANTS
  Alias,        \* names of profiles, and of local directories
  Remote,       \* remote locations
  Cmd,          \* processes
  Flags,        \* default flags of the driver
  HostKey,      \* host keys of tunnel servers
  None,
  MaxFresh, MaxCommands   \* bounds

VARIABLES
  list,         \* profileList.json
  profile,      \* the archive "profile" at each location
  sshKeys,      \* the archive "ssh-keys": the number of the driver's pair
  machines,     \* created machines: profile id and authorized key
  confirmed,    \* host keys that have been noted, by profile id
  cmds,         \* the commands
  overlapped,   \* a command has started while another one was running
  fresh,        \* the number of ids and keys so far
  started       \* the number of commands so far

disk == <<list, profile, sshKeys>>
world == <<machines, confirmed>>
vars == <<disk, world, cmds, overlapped, fresh, started>>

Location == Alias \cup Remote

Entry == [id : Nat, location : Location]

ASSUME ProfilesAssumption ==
  /\ Alias \cap Remote = {}
  /\ None \notin Alias \cup Location \cup Nat /\ None \notin Entry
  /\ MaxFresh \in Nat /\ MaxCommands \in Nat

List == [current : Alias \cup {None}, profiles : [Alias -> Entry \cup {None}]]

\* The files of an archive: info.json, tunneling-private-key, <driver>-defaults.json, known-hosts.
Archive == [info : Nat \cup {None}, tunnelingKey : Nat \cup {None},
            flags : Flags \cup {None}, knownHosts : SUBSET HostKey]

EmptyArchive == [info |-> None, tunnelingKey |-> None, flags |-> None, knownHosts |-> {}]

\* What a command has read and has been told.
Local == [at : {"idle", "createRead", "createSave", "createList", "importRead", "importList",
                "useList", "rmList", "rmDir", "updateRead", "updateSave", "upHosts", "upRead",
                "upSave", "upKey", "upKeySave", "upMachine"},
          alias : Alias \cup {None}, location : Location \cup {None},
          from : Location \cup {None}, makeCurrent : BOOLEAN, list : List,
          archive : Archive, pair : Nat \cup {None}, id : Nat \cup {None},
          flags : Flags \cup {None}, known : SUBSET HostKey, host : HostKey \cup {None}]

EmptyList == [current |-> None, profiles |-> [a \in Alias |-> None]]

Idle == [at |-> "idle", alias |-> None, location |-> None, from |-> None,
         makeCurrent |-> FALSE, list |-> EmptyList, archive |-> EmptyArchive, pair |-> None,
         id |-> None, flags |-> None, known |-> {}, host |-> None]

TypeOK ==
  /\ list \in List
  /\ profile \in [Location -> Archive]
  /\ sshKeys \in [Location -> Nat \cup {None}]
  /\ machines \subseteq [id : Nat, key : Nat]
  /\ confirmed \subseteq [id : Nat, host : HostKey]
  /\ cmds \in [Cmd -> Local] /\ overlapped \in BOOLEAN
  /\ fresh \in 0 .. MaxFresh /\ started \in 0 .. MaxCommands

Init ==
  /\ list = EmptyList
  /\ profile = [l \in Location |-> EmptyArchive]
  /\ sshKeys = [l \in Location |-> None]
  /\ machines = {} /\ confirmed = {}
  /\ cmds = [c \in Cmd |-> Idle] /\ overlapped = FALSE
  /\ fresh = 0 /\ started = 0

-----------------------------------------------------------------------------
(* Steps of commands *)

Starts(c, local) ==
  /\ cmds[c].at = "idle" /\ started < MaxCommands
  /\ cmds' = [cmds EXCEPT ![c] = local]
  /\ overlapped' = (overlapped \/ \E d \in Cmd : cmds[d].at # "idle")
  /\ started' = started + 1
  /\ UNCHANGED <<disk, world, fresh>>

At(c, stage) == cmds[c].at = stage

\* A running command goes on with these variables, or ends.
Goes(c, local) ==
  /\ cmds' = [cmds EXCEPT ![c] = local]
  /\ UNCHANGED <<overlapped, started>>

Quiet == UNCHANGED <<disk, world, fresh>>

Fresh == fresh < MaxFresh /\ fresh' = fresh + 1

\* get: the listed profile has information at its location.
Loadable(a) ==
  list.profiles[a] # None /\ profile[list.profiles[a].location].info # None

Listing(l, a, entry, makeCurrent) ==
  [current |-> IF makeCurrent THEN a ELSE l.current,
   profiles |-> [l.profiles EXCEPT ![a] = entry]]

-----------------------------------------------------------------------------
(* profile create, profile cp *)

\* The profile that --profile names need not be listed.
Create(c, a, l, use) ==
  /\ list.profiles[a] = None
  /\ Starts(c, [Idle EXCEPT !.at = "createRead", !.alias = a, !.location = l,
                            !.makeCurrent = use, !.list = list])

Copy(c, source, a, l, use) ==
  /\ Loadable(source)
  /\ list.profiles[a] = None
  /\ Starts(c, [Idle EXCEPT !.at = "createRead", !.alias = a, !.location = l,
                            !.from = list.profiles[source].location,
                            !.makeCurrent = use, !.list = list])

\* Mutant of CreateRead: an existing profile is overwritten.
CreateReadAny(c) ==
  /\ At(c, "createRead")
  /\ Goes(c, [cmds[c] EXCEPT !.at = "createSave", !.archive = profile[cmds[c].location]])
  /\ Quiet

\* The transaction reads the archive; a profile that is there is an error.
CreateRead(c) ==
  LET archive == profile[cmds[c].location] IN
  /\ At(c, "createRead")
  /\ Goes(c, IF archive.info # None THEN Idle
             ELSE [cmds[c] EXCEPT !.at = "createSave", !.archive = archive])
  /\ Quiet

\* A new profile has a new key; a copy has the key and the flags of its source.
Created(archive, id, from) ==
  [archive EXCEPT !.info = id,
                  !.tunnelingKey = IF from = None THEN id ELSE profile[from].tunnelingKey,
                  !.flags = IF from = None \/ profile[from].flags = None
                            THEN archive.flags ELSE profile[from].flags]

CreateSave(c) ==
  LET me == cmds[c] IN
  /\ At(c, "createSave")
  /\ Fresh
  /\ IF me.from # None /\ profile[me.from].tunnelingKey = None
     THEN Goes(c, Idle) /\ UNCHANGED profile
     ELSE /\ Goes(c, [me EXCEPT !.at = "createList", !.id = fresh])
          /\ profile' = [profile EXCEPT ![me.location] = Created(me.archive, fresh, me.from)]
  /\ UNCHANGED <<list, sshKeys, world>>

WriteList(l) == list' = l /\ UNCHANGED <<profile, sshKeys, world, fresh>>

CreateList(c) ==
  LET me == cmds[c] IN
  /\ At(c, "createList")
  /\ Goes(c, Idle)
  /\ WriteList(Listing(me.list, me.alias, [id |-> me.id, location |-> me.location],
                       me.makeCurrent))

-----------------------------------------------------------------------------
(* profile import, profile use, profile rm *)

Import(c, a, l, use) ==
  /\ list.profiles[a] = None
  /\ Starts(c, [Idle EXCEPT !.at = "importRead", !.alias = a, !.location = l,
                            !.makeCurrent = use, !.list = list])

ImportRead(c) ==
  LET id == profile[cmds[c].location].info IN
  /\ At(c, "importRead")
  /\ Goes(c, IF id = None THEN Idle ELSE [cmds[c] EXCEPT !.at = "importList", !.id = id])
  /\ Quiet

ImportList(c) ==
  LET me == cmds[c] IN
  /\ At(c, "importList")
  /\ Goes(c, Idle)
  /\ WriteList(Listing(me.list, me.alias, [id |-> me.id, location |-> me.location],
                       me.makeCurrent))

SetCurrent(c, a) ==
  /\ list.profiles[a] # None
  /\ Starts(c, [Idle EXCEPT !.at = "useList", !.alias = a, !.list = list])

UseList(c) ==
  /\ At(c, "useList")
  /\ Goes(c, Idle)
  /\ WriteList([cmds[c].list EXCEPT !.current = cmds[c].alias])

Delete(c, a) ==
  /\ list.profiles[a] # None
  /\ Starts(c, [Idle EXCEPT !.at = "rmList", !.alias = a, !.list = list,
                            !.location = list.profiles[a].location])

\* Mutant of Without: the current profile stays.
WithoutCurrent(l, a) == [l EXCEPT !.profiles[a] = None]

Without(l, a) ==
  [current |-> IF l.current = a THEN None ELSE l.current,
   profiles |-> [l.profiles EXCEPT ![a] = None]]

RemoveList(c) ==
  LET me == cmds[c] IN
  /\ At(c, "rmList")
  /\ Goes(c, IF me.location \in Alias THEN [me EXCEPT !.at = "rmDir"] ELSE Idle)
  /\ WriteList(Without(me.list, me.alias))

\* The directory is that of the alias, whatever the location.
Directory(c) == cmds[c].alias

RemoveDirectory(c) ==
  /\ At(c, "rmDir")
  /\ Goes(c, Idle)
  /\ profile' = [profile EXCEPT ![Directory(c)] = EmptyArchive]
  /\ sshKeys' = [sshKeys EXCEPT ![Directory(c)] = None]
  /\ UNCHANGED <<list, world, fresh>>

-----------------------------------------------------------------------------
(* profile config update *)

Update(c, a, flags) ==
  /\ Loadable(a)
  /\ Starts(c, [Idle EXCEPT !.at = "updateRead", !.location = list.profiles[a].location,
                            !.flags = flags])

UpdateRead(c) ==
  /\ At(c, "updateRead")
  /\ Goes(c, [cmds[c] EXCEPT !.at = "updateSave", !.archive = profile[cmds[c].location]])
  /\ Quiet

WriteProfile(l, archive) ==
  profile' = [profile EXCEPT ![l] = archive] /\ UNCHANGED <<list, sshKeys, fresh>>

UpdateSave(c) ==
  LET me == cmds[c] IN
  /\ At(c, "updateSave")
  /\ Goes(c, Idle)
  /\ WriteProfile(me.location, [me.archive EXCEPT !.flags = me.flags])
  /\ UNCHANGED world

-----------------------------------------------------------------------------
(* up: the tunnel server's host key, and the SSH key pair of GCE and Azure *)

Up(c, a, h) ==
  /\ Loadable(a)
  /\ Starts(c, [Idle EXCEPT !.at = "upHosts", !.location = list.profiles[a].location,
                            !.id = profile[list.profiles[a].location].info, !.host = h])

\* The server is connected to; its key is known, or the user confirms it or
\* ends the command.
UpHosts(c) ==
  LET me == cmds[c]
      archive == profile[me.location] IN
  /\ At(c, "upHosts")
  /\ IF archive.tunnelingKey = None
     THEN Goes(c, Idle)
     ELSE \/ Goes(c, [me EXCEPT !.at = "upRead", !.known = archive.knownHosts])
          \/ me.host \notin archive.knownHosts /\ Goes(c, Idle)
  /\ Quiet

\* The key is compared by identity with what was read, so it always counts as new.
UpRead(c) ==
  /\ At(c, "upRead")
  /\ Goes(c, [cmds[c] EXCEPT !.at = "upSave", !.archive = profile[cmds[c].location]])
  /\ Quiet

\* Mutant of KnownHosts: the file is replaced by the server's key.
KnownHostsLast(archive, known, host) == {host}

\* knownServerPublicKeys().write adds to the keys in the archive.
KnownHosts(archive, known, host) == archive.knownHosts \cup known \cup {host}

UpSave(c) ==
  LET me == cmds[c] IN
  /\ At(c, "upSave")
  /\ Goes(c, [me EXCEPT !.at = "upKey"])
  /\ WriteProfile(me.location,
       [me.archive EXCEPT !.knownHosts = KnownHosts(me.archive, me.known, me.host)])
  /\ confirmed' = confirmed \cup {[id |-> me.id, host |-> me.host]}
  /\ UNCHANGED machines

\* upsertKey: readKey, then writeKey.  The pairs of other drivers are in the
\* same archive and left out.
UpKey(c) ==
  LET pair == sshKeys[cmds[c].location] IN
  /\ At(c, "upKey")
  /\ Goes(c, IF pair = None THEN [cmds[c] EXCEPT !.at = "upKeySave"]
             ELSE [cmds[c] EXCEPT !.at = "upMachine", !.pair = pair])
  /\ Quiet

Stored(l, pair) == [sshKeys EXCEPT ![l] = pair]

UpKeySave(c) ==
  LET me == cmds[c] IN
  /\ At(c, "upKeySave")
  /\ Fresh
  /\ Goes(c, [me EXCEPT !.at = "upMachine", !.pair = fresh])
  /\ sshKeys' = Stored(me.location, fresh)
  /\ UNCHANGED <<list, profile, world>>

UpMachine(c) ==
  LET me == cmds[c] IN
  /\ At(c, "upMachine")
  /\ Goes(c, Idle)
  /\ machines' = machines \cup {[id |-> me.id, key |-> me.pair]}
  /\ UNCHANGED <<disk, confirmed, fresh>>

-----------------------------------------------------------------------------
\* A command is killed, or a store fails.
Fault(c) ==
  /\ cmds[c].at # "idle"
  /\ Goes(c, Idle)
  /\ Quiet

Run(c) ==
  \/ CreateRead(c) \/ CreateSave(c) \/ CreateList(c)
  \/ ImportRead(c) \/ ImportList(c) \/ UseList(c)
  \/ RemoveList(c) \/ RemoveDirectory(c)
  \/ UpdateRead(c) \/ UpdateSave(c)
  \/ UpHosts(c) \/ UpRead(c) \/ UpSave(c)
  \/ UpKey(c) \/ UpKeySave(c) \/ UpMachine(c)
  \/ Fault(c)

User(c) ==
  \E a \in Alias :
    \/ \E l \in Location, use \in BOOLEAN :
         Create(c, a, l, use) \/ Import(c, a, l, use) \/ \E s \in Alias : Copy(c, s, a, l, use)
    \/ SetCurrent(c, a) \/ Delete(c, a)
    \/ \E flags \in Flags : Update(c, a, flags)
    \/ \E h \in HostKey : Up(c, a, h)

Next == \E c \in Cmd : Run(c) \/ User(c)

Spec == Init /\ [][Next]_vars

-----------------------------------------------------------------------------
(* Properties *)

\* Whatever commands overlap, and wherever they are killed: the current
\* profile is in the list.
CurrentListed == list.current # None => list.profiles[list.current] # None

\* Information and tunneling key are written in one transaction: a profile
\* that loads has its key.
LoadableWhole == \A l \in Location : profile[l].info # None => profile[l].tunnelingKey # None

\* While commands have run one at a time: a host key that was noted for a
\* profile stays known to it.
KnownKept ==
  ~overlapped => \A l \in Location, h \in HostKey :
    [id |-> profile[l].info, host |-> h] \in confirmed => h \in profile[l].knownHosts

\* While commands have run one at a time: a profile keeps its key, on which the
\* URLs of its environments depend.
KeyKept ==
  [][~overlapped' => \A l \in Location : profile[l].info # None /\ profile'[l].info # None =>
       profile'[l].info = profile[l].info /\ profile'[l].tunnelingKey = profile[l].tunnelingKey]_vars

=============================================================================
