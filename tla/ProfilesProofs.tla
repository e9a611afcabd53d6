--------------------------- MODULE ProfilesProofs ---------------------------
(****************************************************************************)
(* Proofs of what holds of profiles for any commands that overlap and are   *)
(* killed anywhere: without locks, whatever is written as a whole must be   *)
(* sound by itself, because it replaces what others have written meanwhile. *)
(****************************************************************************)
EXTENDS Profiles, TLAPS

\* A list that may be written.
ListOK(l) == l \in List /\ (l.current # None => l.profiles[l.current] # None)

\* An archive that may be written.
ArchiveOK(x) == x \in Archive /\ (x.info # None => x.tunnelingKey # None)

HasAlias == {"createRead", "createSave", "createList", "importRead", "importList",
             "useList", "rmList", "rmDir"}

HasLocation == {"createRead", "createSave", "createList", "importRead", "importList",
                "updateRead", "updateSave", "upHosts", "upRead", "upSave", "upKey",
                "upKeySave", "upMachine"}

HasId == {"createList", "importList", "upHosts", "upRead", "upSave", "upKey",
          "upKeySave", "upMachine"}

\* The copies of a command are sound, and it has what its next steps use.
CmdOK(me) ==
  /\ me \in Local
  /\ ListOK(me.list) /\ ArchiveOK(me.archive)
  /\ me.at \in HasAlias => me.alias \in Alias
  /\ me.at \in HasLocation => me.location \in Location
  /\ me.at \in HasId => me.id \in Nat
  /\ me.at = "useList" => me.list.profiles[me.alias] # None
  /\ me.at \in {"upHosts", "upRead", "upSave"} => me.host \in HostKey
  /\ me.at = "upMachine" => me.pair \in Nat

ProfileOK ==
  /\ profile \in [Location -> Archive]
  /\ \A l \in Location : ArchiveOK(profile[l])

RestOK ==
  /\ sshKeys \in [Location -> Nat \cup {None}]
  /\ machines \subseteq [id : Nat, key : Nat]
  /\ confirmed \subseteq [id : Nat, host : HostKey]

CountersOK == fresh \in 0 .. MaxFresh /\ started \in 0 .. MaxCommands /\ overlapped \in BOOLEAN

CmdsOK ==
  /\ cmds \in [Cmd -> Local]
  /\ \A c \in Cmd : CmdOK(cmds[c])

IInv == ListOK(list) /\ ProfileOK /\ RestOK /\ CountersOK /\ CmdsOK

-----------------------------------------------------------------------------
(* Lemmas *)

LEMMA EmptyOK == ListOK(EmptyList) /\ ArchiveOK(EmptyArchive) /\ CmdOK(Idle)
<1>. USE ProfilesAssumption
<1>1. ListOK(EmptyList)
  BY DEF ListOK, EmptyList, List
<1>2. ArchiveOK(EmptyArchive)
  BY DEF ArchiveOK, EmptyArchive, Archive
<1>3. Idle \in Local
  BY <1>1, <1>2 DEF Idle, Local, ListOK, ArchiveOK
<1>. QED BY <1>1, <1>2, <1>3 DEF CmdOK, Idle, HasAlias, HasLocation, HasId

\* A step of a command that leaves its copies sound.
LEMMA CmdStep ==
  ASSUME CmdsOK, NEW c \in Cmd, NEW me, CmdOK(me), cmds' = [cmds EXCEPT ![c] = me]
  PROVE  CmdsOK'
<1>1. me \in Local
  BY DEF CmdOK
<1>2. cmds' \in [Cmd -> Local]
  BY <1>1 DEF CmdsOK
<1>3. ASSUME NEW d \in Cmd PROVE CmdOK(cmds'[d])
  BY DEF CmdsOK
<1>. QED BY <1>2, <1>3 DEF CmdsOK

\* An archive that is written is sound.
LEMMA ProfileStep ==
  ASSUME ProfileOK, NEW l \in Location, NEW x, ArchiveOK(x), profile' = [profile EXCEPT ![l] = x]
  PROVE  ProfileOK'
<1>1. profile' \in [Location -> Archive]
  BY DEF ProfileOK, ArchiveOK
<1>2. ASSUME NEW k \in Location PROVE ArchiveOK(profile'[k])
  BY DEF ProfileOK
<1>. QED BY <1>1, <1>2 DEF ProfileOK

\* A list with one more entry, or one entry less.
LEMMA ListingOK ==
  ASSUME NEW l, ListOK(l), NEW a \in Alias, NEW entry \in Entry, NEW use \in BOOLEAN
  PROVE  ListOK(Listing(l, a, entry, use))
BY ProfilesAssumption DEF ListOK, List, Listing

LEMMA WithoutOK ==
  ASSUME NEW l, ListOK(l), NEW a \in Alias
  PROVE  ListOK(Without(l, a))
BY ProfilesAssumption DEF ListOK, List, Without

\* What a listed profile that loads gives to a command.
LEMMA LoadedOK ==
  ASSUME IInv, NEW a \in Alias, Loadable(a)
  PROVE  list.profiles[a].location \in Location /\ profile[list.profiles[a].location].info \in Nat
<1>1. list.profiles[a] \in Entry
  BY DEF IInv, ListOK, List, Loadable
<1>2. list.profiles[a].location \in Location
  BY <1>1 DEF Entry
<1>. QED BY <1>2 DEF IInv, ProfileOK, Archive, Loadable

\* A command that starts writes nothing.
LEMMA StartsInv ==
  ASSUME IInv, NEW c \in Cmd, NEW me, CmdOK(me), Starts(c, me)
  PROVE  IInv'
<1>1. CmdsOK'
  BY CmdStep DEF IInv, Starts
<1>2. ListOK(list)' /\ ProfileOK' /\ RestOK'
  BY DEF IInv, Starts, disk, world, ProfileOK, RestOK
<1>3. CountersOK'
  BY ProfilesAssumption DEF IInv, CountersOK, Starts
<1>. QED BY <1>1, <1>2, <1>3 DEF IInv

\* A step that reads only.
LEMMA QuietInv ==
  ASSUME IInv, NEW c \in Cmd, NEW me, CmdOK(me), Goes(c, me), Quiet
  PROVE  IInv'
<1>1. CmdsOK'
  BY CmdStep DEF IInv, Goes
<1>. QED BY <1>1 DEF IInv, Goes, Quiet, disk, world, ProfileOK, RestOK, CountersOK

\* A step that writes the list.
LEMMA WriteListInv ==
  ASSUME IInv, NEW c \in Cmd, NEW me, CmdOK(me), Goes(c, me), NEW l, ListOK(l), WriteList(l)
  PROVE  IInv'
<1>1. CmdsOK'
  BY CmdStep DEF IInv, Goes
<1>. QED BY <1>1 DEF IInv, Goes, WriteList, world, ProfileOK, RestOK, CountersOK

-----------------------------------------------------------------------------
(* Each action *)

LEMMA UserInv ==
  ASSUME IInv, NEW c \in Cmd, User(c)
  PROVE  IInv'
<1>. USE ProfilesAssumption, EmptyOK
<1>1. ASSUME NEW a \in Alias, NEW l \in Location, NEW use \in BOOLEAN,
             Create(c, a, l, use) \/ Import(c, a, l, use)
      PROVE  IInv'
  <2>. DEFINE me(at) == [Idle EXCEPT !.at = at, !.alias = a, !.location = l,
                                     !.makeCurrent = use, !.list = list]
  <2>1. ASSUME NEW at \in {"createRead", "importRead"} PROVE CmdOK(me(at))
    <3>1. me(at) \in Local /\ me(at).list = list /\ me(at).archive = EmptyArchive
      BY DEF IInv, ListOK, ArchiveOK, Idle, Local
    <3>. QED BY <3>1 DEF IInv, CmdOK, Idle, HasAlias, HasLocation, HasId
  <2>. HIDE DEF me
  <2>2. CASE Create(c, a, l, use)
    <3>1. Starts(c, me("createRead"))
      BY <2>2 DEF Create, me
    <3>. QED BY <2>1, <3>1, StartsInv
  <2>3. CASE Import(c, a, l, use)
    <3>1. Starts(c, me("importRead"))
      BY <2>3 DEF Import, me
    <3>. QED BY <2>1, <3>1, StartsInv
  <2>. QED BY <1>1, <2>2, <2>3
<1>2. ASSUME NEW a \in Alias, NEW l \in Location, NEW use \in BOOLEAN, NEW s \in Alias,
             Copy(c, s, a, l, use)
      PROVE  IInv'
  <2>. DEFINE from == list.profiles[s].location
              me == [Idle EXCEPT !.at = "createRead", !.alias = a, !.location = l,
                                 !.from = from, !.makeCurrent = use, !.list = list]
  <2>1. from \in Location
    BY <1>2, LoadedOK DEF Copy
  <2>. HIDE DEF from
  <2>2. me \in Local /\ me.list = list /\ me.archive = EmptyArchive
    BY <2>1 DEF IInv, ListOK, ArchiveOK, Idle, Local
  <2>3. CmdOK(me)
    BY <2>2 DEF IInv, CmdOK, Idle, HasAlias, HasLocation, HasId
  <2>4. Starts(c, me)
    BY <1>2 DEF Copy, from
  <2>. HIDE DEF me
  <2>. QED BY <2>3, <2>4, StartsInv
<1>3. ASSUME NEW a \in Alias, SetCurrent(c, a) PROVE IInv'
  <2>. DEFINE me == [Idle EXCEPT !.at = "useList", !.alias = a, !.list = list]
  <2>1. me \in Local /\ me.list = list /\ me.archive = EmptyArchive
    BY DEF IInv, ListOK, ArchiveOK, Idle, Local
  <2>2. CmdOK(me)
    BY <1>3, <2>1 DEF IInv, CmdOK, Idle, HasAlias, HasLocation, HasId, SetCurrent
  <2>3. Starts(c, me)
    BY <1>3 DEF SetCurrent
  <2>. HIDE DEF me
  <2>. QED BY <2>2, <2>3, StartsInv
<1>4. ASSUME NEW a \in Alias, Delete(c, a) PROVE IInv'
  <2>. DEFINE l == list.profiles[a].location
              me == [Idle EXCEPT !.at = "rmList", !.alias = a, !.list = list, !.location = l]
  <2>1. list.profiles[a] \in Entry
    BY <1>4 DEF Delete, IInv, ListOK, List
  <2>2. l \in Location
    BY <2>1 DEF Entry
  <2>. HIDE DEF l
  <2>3. me \in Local /\ me.list = list /\ me.archive = EmptyArchive
    BY <2>2 DEF IInv, ListOK, ArchiveOK, Idle, Local
  <2>4. CmdOK(me)
    BY <2>3 DEF IInv, CmdOK, Idle, HasAlias, HasLocation, HasId
  <2>5. Starts(c, me)
    BY <1>4 DEF Delete, l
  <2>. HIDE DEF me
  <2>. QED BY <2>4, <2>5, StartsInv
<1>5. ASSUME NEW a \in Alias, NEW flags \in Flags, Update(c, a, flags) PROVE IInv'
  <2>. DEFINE l == list.profiles[a].location
              me == [Idle EXCEPT !.at = "updateRead", !.location = l, !.flags = flags]
  <2>1. l \in Location
    BY <1>5, LoadedOK DEF Update
  <2>. HIDE DEF l
  <2>2. me \in Local /\ me.list = EmptyList /\ me.archive = EmptyArchive
    BY <2>1 DEF ListOK, ArchiveOK, Idle, Local
  <2>3. CmdOK(me)
    BY <2>1, <2>2 DEF CmdOK, Idle, HasAlias, HasLocation, HasId
  <2>4. Starts(c, me)
    BY <1>5 DEF Update, l
  <2>. HIDE DEF me
  <2>. QED BY <2>3, <2>4, StartsInv
<1>6. ASSUME NEW a \in Alias, NEW h \in HostKey, Up(c, a, h) PROVE IInv'
  <2>. DEFINE l == list.profiles[a].location
              id == profile[l].info
              me == [Idle EXCEPT !.at = "upHosts", !.location = l, !.id = id, !.host = h]
  <2>1. l \in Location /\ id \in Nat
    BY <1>6, LoadedOK DEF Up
  <2>. HIDE DEF l, id
  <2>2. me \in Local /\ me.list = EmptyList /\ me.archive = EmptyArchive
    BY <2>1 DEF ListOK, ArchiveOK, Idle, Local
  <2>3. CmdOK(me)
    BY <2>1, <2>2 DEF CmdOK, Idle, HasAlias, HasLocation, HasId
  <2>4. Starts(c, me)
    BY <1>6 DEF Up, l, id
  <2>. HIDE DEF me
  <2>. QED BY <2>3, <2>4, StartsInv
<1>. QED BY <1>1, <1>2, <1>3, <1>4, <1>5, <1>6 DEF User

\* What a running command knows.
LEMMA CmdFacts ==
  ASSUME IInv, NEW c \in Cmd
  PROVE  CmdOK(cmds[c]) /\ cmds[c] \in Local
BY DEF IInv, CmdsOK

\* The steps of create and copy.
LEMMA CreateInv ==
  ASSUME IInv, NEW c \in Cmd, CreateRead(c) \/ CreateSave(c) \/ CreateList(c)
  PROVE  IInv'
<1>. DEFINE me == cmds[c]
<1>. USE ProfilesAssumption
<1>1. CmdOK(me) /\ me \in Local /\ CmdOK(Idle)
  BY CmdFacts, EmptyOK
<1>2. CASE CreateRead(c)
  <2>. DEFINE archive == profile[me.location]
              next == [me EXCEPT !.at = "createSave", !.archive = archive]
  <2>1. ArchiveOK(archive)
    BY <1>1, <1>2 DEF CreateRead, At, CmdOK, HasLocation, IInv, ProfileOK
  <2>. HIDE DEF archive
  <2>2. next \in Local
    BY <1>1, <2>1 DEF Local, ArchiveOK
  <2>3. CmdOK(next)
    BY <1>1, <1>2, <2>1, <2>2 DEF CreateRead, At, CmdOK, HasAlias, HasLocation, HasId, Local
  <2>4. Goes(c, IF archive.info # None THEN Idle ELSE next) /\ Quiet
    BY <1>2 DEF CreateRead, archive
  <2>. HIDE DEF next
  <2>. QED BY <1>1, <2>3, <2>4, QuietInv
<1>3. CASE CreateSave(c)
  <2>. DEFINE archive == Created(me.archive, fresh, me.from)
              next == [me EXCEPT !.at = "createList", !.id = fresh]
  <2>1. me.at = "createSave" /\ me.location \in Location /\ me.alias \in Alias
    BY <1>1, <1>3 DEF CreateSave, At, CmdOK, HasLocation, HasAlias
  <2>2. fresh \in Nat /\ fresh' = fresh + 1 /\ CountersOK'
    BY <1>3 DEF CreateSave, Fresh, Goes, IInv, CountersOK
  <2>3. ListOK(list)' /\ RestOK'
    BY <1>3 DEF CreateSave, world, IInv, RestOK
  <2>4. CASE me.from # None /\ profile[me.from].tunnelingKey = None
    <3>1. ProfileOK' /\ Goes(c, Idle)
      BY <1>3, <2>4 DEF CreateSave, IInv, ProfileOK
    <3>2. CmdsOK'
      BY <1>1, <3>1, CmdStep DEF Goes, IInv
    <3>. QED BY <2>2, <2>3, <3>1, <3>2 DEF IInv
  <2>5. CASE ~(me.from # None /\ profile[me.from].tunnelingKey = None)
    <3>1. next \in Local
      BY <1>1, <2>2 DEF Local
    <3>2. CmdOK(next)
      BY <1>1, <2>1, <2>2, <3>1 DEF CmdOK, HasAlias, HasLocation, HasId, Local
    <3>3. ArchiveOK(archive)
      <4>1. me.archive \in Archive /\ me.from \in Location \cup {None}
        BY <1>1 DEF Local
      <4>2. me.from # None => profile[me.from] \in Archive
        BY <4>1 DEF IInv, ProfileOK
      <4>. QED BY <2>2, <2>5, <4>1, <4>2 DEF Created, ArchiveOK, Archive
    <3>4. Goes(c, next) /\ profile' = [profile EXCEPT ![me.location] = archive]
      BY <1>3, <2>5 DEF CreateSave
    <3>. HIDE DEF next, archive
    <3>5. ProfileOK' /\ CmdsOK'
      BY <2>1, <3>2, <3>3, <3>4, ProfileStep, CmdStep DEF Goes, IInv
    <3>. QED BY <2>2, <2>3, <3>5 DEF IInv
  <2>. QED BY <2>4, <2>5
<1>4. CASE CreateList(c)
  <2>. DEFINE entry == [id |-> me.id, location |-> me.location]
  <2>1. entry \in Entry /\ me.alias \in Alias /\ me.makeCurrent \in BOOLEAN /\ ListOK(me.list)
    BY <1>1, <1>4 DEF CreateList, At, CmdOK, HasId, HasLocation, HasAlias, Entry, Local
  <2>2. ListOK(Listing(me.list, me.alias, entry, me.makeCurrent))
    BY <2>1, ListingOK
  <2>3. Goes(c, Idle) /\ WriteList(Listing(me.list, me.alias, entry, me.makeCurrent))
    BY <1>4 DEF CreateList
  <2>. QED BY <1>1, <2>2, <2>3, WriteListInv
<1>. QED BY <1>2, <1>3, <1>4

\* The steps of import, use and rm.
LEMMA ListInv ==
  ASSUME IInv, NEW c \in Cmd,
         ImportRead(c) \/ ImportList(c) \/ UseList(c) \/ RemoveList(c) \/ RemoveDirectory(c)
  PROVE  IInv'
<1>. DEFINE me == cmds[c]
<1>. USE ProfilesAssumption
<1>1. CmdOK(me) /\ me \in Local /\ CmdOK(Idle)
  BY CmdFacts, EmptyOK
<1>2. CASE ImportRead(c)
  <2>. DEFINE id == profile[me.location].info
              next == [me EXCEPT !.at = "importList", !.id = id]
  <2>1. me.at = "importRead" /\ me.location \in Location /\ me.alias \in Alias
    BY <1>1, <1>2 DEF ImportRead, At, CmdOK, HasLocation, HasAlias
  <2>2. id \in Nat \cup {None}
    BY <2>1 DEF IInv, ProfileOK, Archive
  <2>3. Goes(c, IF id = None THEN Idle ELSE next) /\ Quiet
    BY <1>2 DEF ImportRead
  <2>. HIDE DEF id
  <2>4. CASE id = None
    BY <1>1, <2>3, <2>4, QuietInv
  <2>5. CASE id # None
    <3>1. next \in Local
      BY <1>1, <2>2 DEF Local
    <3>2. CmdOK(next)
      BY <1>1, <2>1, <2>2, <2>5, <3>1 DEF CmdOK, HasAlias, HasLocation, HasId, Local
    <3>. HIDE DEF next
    <3>. QED BY <2>3, <2>5, <3>2, QuietInv
  <2>. QED BY <2>4, <2>5
<1>3. CASE ImportList(c)
  <2>. DEFINE entry == [id |-> me.id, location |-> me.location]
  <2>1. entry \in Entry /\ me.alias \in Alias /\ me.makeCurrent \in BOOLEAN /\ ListOK(me.list)
    BY <1>1, <1>3 DEF ImportList, At, CmdOK, HasId, HasLocation, HasAlias, Entry, Local
  <2>2. ListOK(Listing(me.list, me.alias, entry, me.makeCurrent))
    BY <2>1, ListingOK
  <2>3. Goes(c, Idle) /\ WriteList(Listing(me.list, me.alias, entry, me.makeCurrent))
    BY <1>3 DEF ImportList
  <2>. QED BY <1>1, <2>2, <2>3, WriteListInv
<1>4. CASE UseList(c)
  <2>. DEFINE l == [me.list EXCEPT !.current = me.alias]
  <2>1. ListOK(l)
    BY <1>1, <1>4 DEF UseList, At, CmdOK, HasAlias, ListOK, List
  <2>2. Goes(c, Idle) /\ WriteList(l)
    BY <1>4 DEF UseList
  <2>. HIDE DEF l
  <2>. QED BY <1>1, <2>1, <2>2, WriteListInv
<1>5. CASE RemoveList(c)
  <2>. DEFINE next == [me EXCEPT !.at = "rmDir"]
              goes == IF me.location \in Alias THEN next ELSE Idle
              l == Without(me.list, me.alias)
  <2>1. me.at = "rmList" /\ me.alias \in Alias /\ ListOK(l)
    BY <1>1, <1>5, WithoutOK DEF RemoveList, At, CmdOK, HasAlias
  <2>2. next \in Local
    BY <1>1 DEF Local
  <2>3. CmdOK(next)
    BY <1>1, <2>1, <2>2 DEF CmdOK, HasAlias, HasLocation, HasId, Local
  <2>4. Goes(c, goes) /\ WriteList(l)
    BY <1>5 DEF RemoveList
  <2>. HIDE DEF next, l
  <2>. QED BY <1>1, <2>1, <2>3, <2>4, WriteListInv
<1>6. CASE RemoveDirectory(c)
  <2>1. Directory(c) \in Location
    BY <1>1, <1>6 DEF RemoveDirectory, At, CmdOK, HasAlias, Directory, Location
  <2>2. ProfileOK'
    BY <1>6, <2>1, EmptyOK, ProfileStep DEF RemoveDirectory, IInv
  <2>3. CmdsOK'
    BY <1>1, <1>6, CmdStep DEF RemoveDirectory, Goes, IInv
  <2>4. RestOK'
    BY <1>6, <2>1 DEF RemoveDirectory, world, IInv, RestOK
  <2>. QED BY <1>6, <2>2, <2>3, <2>4 DEF RemoveDirectory, Goes, IInv, CountersOK
<1>. QED BY <1>2, <1>3, <1>4, <1>5, <1>6

\* The steps of config update.
LEMMA UpdateInv ==
  ASSUME IInv, NEW c \in Cmd, UpdateRead(c) \/ UpdateSave(c)
  PROVE  IInv'
<1>. DEFINE me == cmds[c]
<1>1. CmdOK(me) /\ me \in Local /\ CmdOK(Idle)
  BY CmdFacts, EmptyOK
<1>2. CASE UpdateRead(c)
  <2>. DEFINE archive == profile[me.location]
              next == [me EXCEPT !.at = "updateSave", !.archive = archive]
  <2>1. ArchiveOK(archive) /\ me.at = "updateRead"
    BY <1>1, <1>2 DEF UpdateRead, At, CmdOK, HasLocation, IInv, ProfileOK
  <2>2. Goes(c, next) /\ Quiet
    BY <1>2 DEF UpdateRead
  <2>. HIDE DEF archive
  <2>3. next \in Local
    BY <1>1, <2>1 DEF Local, ArchiveOK
  <2>4. CmdOK(next)
    BY <1>1, <2>1, <2>3 DEF CmdOK, HasAlias, HasLocation, HasId, Local
  <2>. HIDE DEF next
  <2>. QED BY <2>2, <2>4, QuietInv
<1>3. CASE UpdateSave(c)
  <2>. DEFINE archive == [me.archive EXCEPT !.flags = me.flags]
  <2>1. ArchiveOK(archive)
    BY <1>1 DEF CmdOK, ArchiveOK, Archive, Local
  <2>2. me.location \in Location
    BY <1>1, <1>3 DEF UpdateSave, At, CmdOK, HasLocation
  <2>3. Goes(c, Idle) /\ WriteProfile(me.location, archive) /\ UNCHANGED world
    BY <1>3 DEF UpdateSave
  <2>. HIDE DEF archive
  <2>4. ProfileOK' /\ CmdsOK'
    BY <1>1, <2>1, <2>2, <2>3, ProfileStep, CmdStep DEF WriteProfile, Goes, IInv
  <2>. QED BY <2>3, <2>4 DEF WriteProfile, Goes, world, IInv, RestOK, CountersOK
<1>. QED BY <1>2, <1>3

\* The steps of up on the profile.
LEMMA HostsInv ==
  ASSUME IInv, NEW c \in Cmd, UpHosts(c) \/ UpRead(c) \/ UpSave(c)
  PROVE  IInv'
<1>. DEFINE me == cmds[c]
            archive == profile[me.location]
<1>1. CmdOK(me) /\ me \in Local /\ CmdOK(Idle)
  BY CmdFacts, EmptyOK
<1>2. ArchiveOK(archive) /\ me.location \in Location /\ me.at \in {"upHosts", "upRead", "upSave"}
  BY <1>1 DEF UpHosts, UpRead, UpSave, At, CmdOK, HasLocation, IInv, ProfileOK
<1>3. CASE UpHosts(c)
  <2>. DEFINE next == [me EXCEPT !.at = "upRead", !.known = archive.knownHosts]
  <2>1. Quiet /\ (Goes(c, next) \/ Goes(c, Idle))
    BY <1>3 DEF UpHosts
  <2>. HIDE DEF archive
  <2>2. next \in Local
    BY <1>1, <1>2 DEF Local, ArchiveOK, Archive
  <2>3. CmdOK(next)
    BY <1>1, <1>2, <2>2 DEF CmdOK, HasAlias, HasLocation, HasId, Local
  <2>. HIDE DEF next
  <2>. QED BY <1>1, <2>1, <2>3, QuietInv
<1>4. CASE UpRead(c)
  <2>. DEFINE next == [me EXCEPT !.at = "upSave", !.archive = archive]
  <2>1. Quiet /\ Goes(c, next)
    BY <1>4 DEF UpRead
  <2>. HIDE DEF archive
  <2>2. next \in Local
    BY <1>1, <1>2 DEF Local, ArchiveOK
  <2>3. CmdOK(next)
    BY <1>1, <1>2, <2>2 DEF CmdOK, HasAlias, HasLocation, HasId, Local
  <2>. HIDE DEF next
  <2>. QED BY <2>1, <2>3, QuietInv
<1>5. CASE UpSave(c)
  <2>. DEFINE x == [me.archive EXCEPT !.knownHosts = KnownHosts(me.archive, me.known, me.host)]
              next == [me EXCEPT !.at = "upKey"]
  <2>1. ArchiveOK(x) /\ me.id \in Nat /\ me.host \in HostKey
    <3>1. me.at = "upSave"
      BY <1>5 DEF UpSave, At
    <3>2. me.host \in HostKey /\ me.id \in Nat /\ me.known \subseteq HostKey /\ ArchiveOK(me.archive)
      BY <1>1, <3>1 DEF CmdOK, Local, HasId
    <3>. QED BY <3>2 DEF ArchiveOK, Archive, KnownHosts
  <2>2. Goes(c, next) /\ WriteProfile(me.location, x) /\ UNCHANGED machines
        /\ confirmed' = confirmed \cup {[id |-> me.id, host |-> me.host]}
    BY <1>5 DEF UpSave
  <2>. HIDE DEF x
  <2>3. next \in Local
    BY <1>1 DEF Local
  <2>4. CmdOK(next)
    BY <1>1, <1>2, <2>1, <2>3 DEF CmdOK, HasAlias, HasLocation, HasId, Local
  <2>. HIDE DEF next
  <2>5. ProfileOK' /\ CmdsOK'
    BY <1>2, <2>1, <2>2, <2>4, ProfileStep, CmdStep DEF WriteProfile, Goes, IInv
  <2>6. RestOK'
    BY <2>1, <2>2 DEF WriteProfile, IInv, RestOK
  <2>. QED BY <2>2, <2>5, <2>6 DEF WriteProfile, Goes, IInv, CountersOK
<1>. QED BY <1>3, <1>4, <1>5

\* The steps of up on the SSH keys and the machine.
LEMMA KeyInv ==
  ASSUME IInv, NEW c \in Cmd, UpKey(c) \/ UpKeySave(c) \/ UpMachine(c)
  PROVE  IInv'
<1>. DEFINE me == cmds[c]
<1>1. CmdOK(me) /\ me \in Local /\ CmdOK(Idle)
  BY CmdFacts, EmptyOK
<1>2. me.location \in Location /\ me.id \in Nat /\ me.at \in {"upKey", "upKeySave", "upMachine"}
  BY <1>1 DEF UpKey, UpKeySave, UpMachine, At, CmdOK, HasLocation, HasId
<1>3. CASE UpKey(c)
  <2>. DEFINE pair == sshKeys[me.location]
              new == [me EXCEPT !.at = "upKeySave"]
              old == [me EXCEPT !.at = "upMachine", !.pair = pair]
  <2>1. Quiet /\ Goes(c, IF pair = None THEN new ELSE old)
    BY <1>3 DEF UpKey
  <2>2. pair \in Nat \cup {None}
    BY <1>2 DEF IInv, RestOK
  <2>. HIDE DEF me, pair
  <2>3. new \in Local
    BY <1>1 DEF Local
  <2>3a. old \in Local
    BY <1>1, <2>2 DEF Local
  <2>4. CmdOK(new) /\ (pair # None => CmdOK(old))
    BY <1>1, <1>2, <2>2, <2>3, <2>3a DEF CmdOK, HasAlias, HasLocation, HasId, Local
  <2>. HIDE DEF new, old
  <2>. QED BY <2>1, <2>4, QuietInv
<1>4. CASE UpKeySave(c)
  <2>. DEFINE next == [me EXCEPT !.at = "upMachine", !.pair = fresh]
  <2>1. fresh \in Nat /\ CountersOK'
    BY <1>4, ProfilesAssumption DEF UpKeySave, Fresh, Goes, IInv, CountersOK
  <2>2. next \in Local
    BY <1>1, <2>1 DEF Local
  <2>3. CmdOK(next)
    BY <1>1, <1>2, <2>1, <2>2 DEF CmdOK, HasAlias, HasLocation, HasId, Local
  <2>4. Goes(c, next) /\ sshKeys' = [sshKeys EXCEPT ![me.location] = fresh]
        /\ UNCHANGED <<list, profile, world>>
    BY <1>4 DEF UpKeySave, Stored
  <2>. HIDE DEF next
  <2>5. CmdsOK'
    BY <2>3, <2>4, CmdStep DEF Goes, IInv
  <2>. QED BY <1>2, <2>1, <2>4, <2>5 DEF world, IInv, RestOK, ProfileOK
<1>5. CASE UpMachine(c)
  <2>1. me.pair \in Nat
    BY <1>1, <1>5 DEF UpMachine, At, CmdOK
  <2>2. CmdsOK'
    BY <1>1, <1>5, CmdStep DEF UpMachine, Goes, IInv
  <2>. QED BY <1>2, <1>5, <2>1, <2>2 DEF UpMachine, Goes, disk, IInv, RestOK, ProfileOK, CountersOK
<1>. QED BY <1>3, <1>4, <1>5

LEMMA StepInv == IInv /\ [Next]_vars => IInv'
<1>. SUFFICES ASSUME IInv, [Next]_vars PROVE IInv'
  OBVIOUS
<1>1. ASSUME NEW c \in Cmd, Run(c) PROVE IInv'
  <2>1. CASE Fault(c)
    BY <2>1, EmptyOK, QuietInv DEF Fault
  <2>. QED BY <1>1, <2>1, CreateInv, ListInv, UpdateInv, HostsInv, KeyInv DEF Run
<1>2. ASSUME NEW c \in Cmd, User(c) PROVE IInv'
  BY <1>2, UserInv
<1>3. CASE UNCHANGED vars
  BY <1>3 DEF vars, disk, world, IInv, ProfileOK, RestOK, CountersOK, CmdsOK
<1>. QED BY <1>1, <1>2, <1>3 DEF Next

LEMMA InitInv == Init => IInv
<1>. SUFFICES ASSUME Init PROVE IInv
  OBVIOUS
<1>1. ListOK(list) /\ ProfileOK
  BY EmptyOK DEF Init, ProfileOK, ArchiveOK
<1>2. CmdsOK
  BY EmptyOK DEF Init, CmdsOK, CmdOK
<1>3. RestOK
  BY ProfilesAssumption DEF Init, RestOK
<1>4. overlapped \in BOOLEAN
  BY Zenon DEF Init
<1>5. CountersOK
  BY <1>4, ProfilesAssumption DEF Init, CountersOK
<1>. QED BY <1>1, <1>2, <1>3, <1>5 DEF IInv

LEMMA Invariant == Spec => []IInv
BY InitInv, StepInv, PTL DEF Spec

-----------------------------------------------------------------------------
(* Results *)

\* The list, the stores and the commands keep their types.
THEOREM TypeCorrect == Spec => []TypeOK
<1>1. IInv => TypeOK
  BY DEF IInv, TypeOK, ListOK, ProfileOK, RestOK, CountersOK, CmdsOK
<1>. QED BY <1>1, Invariant, PTL

\* config.ts: every list that a command writes names a current profile that is
\* in it, so no lost update can leave a current profile that is not listed.
THEOREM CurrentCorrect == Spec => []CurrentListed
<1>1. IInv => CurrentListed
  BY DEF IInv, ListOK, CurrentListed
<1>. QED BY <1>1, Invariant, PTL

\* config.ts and store.ts: information and key are saved together, and no
\* overlapping command can tear them apart.
THEOREM WholeCorrect == Spec => []LoadableWhole
<1>1. IInv => LoadableWhole
  BY DEF IInv, ProfileOK, ArchiveOK, LoadableWhole
<1>. QED BY <1>1, Invariant, PTL

-----------------------------------------------------------------------------
(* While commands run one at a time *)

Reading == {"createSave", "updateSave", "upSave"}

Noting == {"upHosts", "upRead", "upSave"}

\* What a command has read is still what is there.
CopyOK(c) ==
  /\ cmds[c].at \in Reading => cmds[c].archive = profile[cmds[c].location]
  /\ cmds[c].at = "createSave" => cmds[c].archive.info = None
  /\ cmds[c].at \in Noting => cmds[c].id = profile[cmds[c].location].info

\* Only one command runs.
Single == \A c, d \in Cmd : cmds[c].at # "idle" /\ cmds[d].at # "idle" => c = d

\* No id has been given out twice, or is still to be given out.
IdsOK ==
  /\ \A l \in Location : profile[l].info # None => profile[l].info < fresh
  /\ \A l, k \in Location :
       profile[l].info = profile[k].info /\ profile[l].info # None => l = k
  /\ \A x \in confirmed : x.id < fresh

Known ==
  \A l \in Location, h \in HostKey :
    [id |-> profile[l].info, host |-> h] \in confirmed => h \in profile[l].knownHosts

SoloInv == ~overlapped => Single /\ IdsOK /\ Known /\ \A c \in Cmd : CopyOK(c)

\* A profile that stays keeps its id and its key.
KeysStay ==
  \A l \in Location : profile[l].info # None /\ profile'[l].info # None =>
    profile'[l].info = profile[l].info /\ profile'[l].tunnelingKey = profile[l].tunnelingKey

\* What the invariants say when commands have not overlapped.
Solo == ~overlapped /\ Single /\ IdsOK /\ Known /\ \A c \in Cmd : CopyOK(c)

LEMMA SoloParts == SoloInv /\ ~overlapped => Solo
BY DEF SoloInv, Solo

\* A command that starts alone.
LEMMA StartsSolo ==
  ASSUME IInv, SoloInv, NEW c \in Cmd, NEW me, Starts(c, me), ~overlapped',
         me.at \notin Reading, me.at \in Noting => me.id = profile[me.location].info
  PROVE  Solo' /\ KeysStay
<1>1. /\ ~overlapped /\ \A d \in Cmd : cmds[d].at = "idle"
      /\ cmds' = [cmds EXCEPT ![c] = me] /\ UNCHANGED <<disk, world, fresh>>
  BY DEF Starts
<1>2. Solo
  BY <1>1, SoloParts
<1>3. /\ DOMAIN cmds = Cmd /\ cmds'[c] = me
      /\ \A d \in Cmd \ {c} : cmds'[d] = cmds[d] /\ cmds'[d].at = "idle"
  BY <1>1 DEF IInv, CmdsOK
<1>4. UNCHANGED <<profile, confirmed, fresh>>
  BY <1>1 DEF disk, world
<1>5. Single' /\ \A d \in Cmd : CopyOK(d)'
  BY <1>3, <1>4 DEF Single, CopyOK, Reading, Noting
<1>6. IdsOK' /\ Known' /\ KeysStay
  BY <1>2, <1>4 DEF Solo, IdsOK, Known, KeysStay
<1>. QED BY <1>5, <1>6 DEF Solo

\* A step of the only command that runs.
LEMMA GoesSolo ==
  ASSUME IInv, Solo, NEW c \in Cmd, cmds[c].at # "idle", NEW me, Goes(c, me)
  PROVE  /\ cmds'[c] = me /\ overlapped' = FALSE
         /\ Single' /\ \A d \in Cmd \ {c} : CopyOK(d)'
<1>1. DOMAIN cmds = Cmd /\ cmds' = [cmds EXCEPT ![c] = me]
  BY DEF IInv, CmdsOK, Goes
<1>2. \A d \in Cmd \ {c} : cmds'[d] = cmds[d] /\ cmds[d].at = "idle"
  BY <1>1 DEF Solo, Single
<1>3. cmds'[c] = me
  BY <1>1
<1>4. Single' /\ \A d \in Cmd \ {c} : CopyOK(d)'
  BY <1>2 DEF Single, CopyOK, Reading, Noting
<1>5. overlapped' = FALSE
  BY Zenon DEF IInv, CountersOK, Solo, Goes
<1>. QED BY <1>3, <1>4, <1>5

\* It leaves the profiles as they are.
LEMMA QuietSolo ==
  ASSUME IInv, Solo, NEW c \in Cmd, cmds[c].at # "idle", NEW me, Goes(c, me),
         UNCHANGED <<profile, confirmed>>, fresh' \in {fresh, fresh + 1},
         /\ me.at \in Reading => me.archive = profile[me.location]
         /\ me.at = "createSave" => me.archive.info = None
         /\ me.at \in Noting => me.id = profile[me.location].info
  PROVE  Solo' /\ KeysStay
<1>1. CopyOK(c)'
  BY GoesSolo DEF CopyOK
<1>2. \A i \in Nat : i < fresh => i < fresh'
  BY ProfilesAssumption DEF IInv, CountersOK
<1>3. /\ \A l \in Location : profile[l].info # None => profile[l].info \in Nat
      /\ \A x \in confirmed : x.id \in Nat
  BY DEF IInv, ProfileOK, Archive, RestOK
<1>4. IdsOK' /\ Known' /\ KeysStay
  BY <1>2, <1>3 DEF Solo, IdsOK, Known, KeysStay
<1>. QED BY <1>1, <1>4, GoesSolo DEF Solo

Notes(archive) == {[id |-> archive.info, host |-> h] : h \in archive.knownHosts}

\* It writes an archive back, perhaps with a host key that it has noted.
LEMMA SaveSolo ==
  ASSUME IInv, Solo, NEW c \in Cmd, cmds[c].at # "idle", NEW me, Goes(c, me),
         me.at \notin Reading \cup Noting, NEW l \in Location, NEW x, NEW notes,
         profile' = [profile EXCEPT ![l] = x],
         x.info = profile[l].info, x.tunnelingKey = profile[l].tunnelingKey,
         profile[l].knownHosts \subseteq x.knownHosts,
         fresh' = fresh, confirmed' = confirmed \cup notes,
         notes \subseteq Notes(x), notes # {} => x.info # None
  PROVE  Solo' /\ KeysStay
<1>1. CopyOK(c)'
  BY GoesSolo DEF CopyOK, Reading
<1>2. /\ DOMAIN profile = Location /\ profile'[l] = x
      /\ \A k \in Location \ {l} : profile'[k] = profile[k]
  BY DEF IInv, ProfileOK
<1>3. \A k \in Location : /\ profile'[k].info = profile[k].info
                          /\ profile'[k].tunnelingKey = profile[k].tunnelingKey
                          /\ profile[k].knownHosts \subseteq profile'[k].knownHosts
  BY <1>2
<1>4. IdsOK'
  <2>1. \A n \in notes : n.id = profile[l].info /\ profile[l].info # None
    BY DEF Notes
  <2>. QED BY <1>3, <2>1 DEF Solo, IdsOK
<1>5. Known'
  <2>1. SUFFICES ASSUME NEW k \in Location, NEW h \in HostKey,
                        [id |-> profile[k].info, host |-> h] \in confirmed'
                 PROVE  h \in profile'[k].knownHosts
    BY <1>3 DEF Known
  <2>2. CASE [id |-> profile[k].info, host |-> h] \in confirmed
    BY <1>3, <2>2 DEF Solo, Known
  <2>3. CASE [id |-> profile[k].info, host |-> h] \in notes
    <3>1. PICK g \in x.knownHosts :
            [id |-> profile[k].info, host |-> h] = [id |-> x.info, host |-> g]
      BY <2>3 DEF Notes
    <3>2. profile[k].info = profile[l].info /\ h = g /\ profile[l].info # None
      BY <2>3, <3>1
    <3>3. k = l
      BY <3>2 DEF Solo, IdsOK
    <3>. QED BY <1>2, <3>1, <3>2, <3>3
  <2>. QED BY <2>1, <2>2, <2>3
<1>6. KeysStay
  BY <1>3 DEF KeysStay
<1>. QED BY <1>1, <1>4, <1>5, <1>6, GoesSolo DEF Solo

\* It makes a profile where there was none, or removes one.
LEMMA ReplaceSolo ==
  ASSUME IInv, Solo, NEW c \in Cmd, cmds[c].at # "idle", NEW me, Goes(c, me),
         me.at \notin Reading \cup Noting, NEW l \in Location, NEW x,
         profile' = [profile EXCEPT ![l] = x], UNCHANGED confirmed,
         \/ x.info = None /\ fresh' = fresh
         \/ x.info = fresh /\ fresh' = fresh + 1 /\ profile[l].info = None
  PROVE  Solo' /\ KeysStay
<1>1. CopyOK(c)'
  BY GoesSolo DEF CopyOK, Reading
<1>2. /\ DOMAIN profile = Location /\ profile'[l] = x
      /\ \A k \in Location \ {l} : profile'[k] = profile[k]
  BY DEF IInv, ProfileOK
<1>3. /\ fresh \in Nat /\ fresh # None
      /\ \A k \in Location : profile[k].info # None => profile[k].info \in Nat
      /\ \A n \in confirmed : n.id \in Nat
  BY ProfilesAssumption DEF IInv, CountersOK, ProfileOK, Archive, RestOK
<1>4. /\ \A k \in Location : profile[k].info # None => profile[k].info < fresh
      /\ \A n \in confirmed : n.id < fresh
  BY DEF Solo, IdsOK
<1>5. IdsOK'
  <2>1. CASE x.info = None /\ fresh' = fresh
    BY <1>2, <1>4, <2>1 DEF Solo, IdsOK
  <2>2. CASE x.info = fresh /\ fresh' = fresh + 1
    BY <1>2, <1>3, <1>4, <2>2 DEF Solo, IdsOK
  <2>. QED BY <2>1, <2>2
<1>6. Known'
  <2>1. SUFFICES ASSUME NEW k \in Location, NEW h \in HostKey,
                        [id |-> profile'[k].info, host |-> h] \in confirmed
                 PROVE  h \in profile'[k].knownHosts
    BY DEF Known
  <2>2. CASE k # l
    BY <1>2, <2>1, <2>2 DEF Solo, Known
  <2>3. CASE k = l
    <3>1. x.info \in Nat /\ x.info < fresh
      BY <1>2, <1>3, <1>4, <2>1, <2>3
    <3>. QED BY <1>3, <3>1, ProfilesAssumption
  <2>. QED BY <2>2, <2>3
<1>7. KeysStay
  BY <1>2 DEF KeysStay
<1>. QED BY <1>1, <1>5, <1>6, <1>7, GoesSolo DEF Solo

\* What users start has read nothing from a store yet but the id of a profile.
LEMMA UserSolo ==
  ASSUME IInv, SoloInv, NEW c \in Cmd, User(c), ~overlapped'
  PROVE  Solo' /\ KeysStay
<1>. DEFINE Fine == Solo' /\ KeysStay
<1>1. ASSUME NEW a \in Alias, NEW l \in Location, NEW use \in BOOLEAN,
             Create(c, a, l, use) \/ Import(c, a, l, use)
      PROVE  Fine
  <2>. DEFINE me(at) == [Idle EXCEPT !.at = at, !.alias = a, !.location = l,
                                     !.makeCurrent = use, !.list = list]
  <2>1. me("createRead").at = "createRead" /\ me("importRead").at = "importRead"
    BY DEF Idle
  <2>2. Starts(c, me("createRead")) \/ Starts(c, me("importRead"))
    BY <1>1 DEF Create, Import
  <2>. HIDE DEF me
  <2>. QED BY <2>1, <2>2, StartsSolo DEF Reading, Noting
<1>2. ASSUME NEW a \in Alias, NEW l \in Location, NEW use \in BOOLEAN, NEW s \in Alias,
             Copy(c, s, a, l, use)
      PROVE  Fine
  <2>. DEFINE me == [Idle EXCEPT !.at = "createRead", !.alias = a, !.location = l,
                                 !.from = list.profiles[s].location,
                                 !.makeCurrent = use, !.list = list]
  <2>1. me.at = "createRead" /\ Starts(c, me)
    BY <1>2 DEF Idle, Copy
  <2>. HIDE DEF me
  <2>. QED BY <2>1, StartsSolo DEF Reading, Noting
<1>3. ASSUME NEW a \in Alias, SetCurrent(c, a) PROVE Fine
  <2>. DEFINE me == [Idle EXCEPT !.at = "useList", !.alias = a, !.list = list]
  <2>1. me.at = "useList" /\ Starts(c, me)
    BY <1>3 DEF Idle, SetCurrent
  <2>. HIDE DEF me
  <2>. QED BY <2>1, StartsSolo DEF Reading, Noting
<1>4. ASSUME NEW a \in Alias, Delete(c, a) PROVE Fine
  <2>. DEFINE me == [Idle EXCEPT !.at = "rmList", !.alias = a, !.list = list,
                                 !.location = list.profiles[a].location]
  <2>1. me.at = "rmList" /\ Starts(c, me)
    BY <1>4 DEF Idle, Delete
  <2>. HIDE DEF me
  <2>. QED BY <2>1, StartsSolo DEF Reading, Noting
<1>5. ASSUME NEW a \in Alias, NEW flags \in Flags, Update(c, a, flags) PROVE Fine
  <2>. DEFINE me == [Idle EXCEPT !.at = "updateRead", !.flags = flags,
                                 !.location = list.profiles[a].location]
  <2>1. me.at = "updateRead" /\ Starts(c, me)
    BY <1>5 DEF Idle, Update
  <2>. HIDE DEF me
  <2>. QED BY <2>1, StartsSolo DEF Reading, Noting
<1>6. ASSUME NEW a \in Alias, NEW h \in HostKey, Up(c, a, h) PROVE Fine
  <2>. DEFINE l == list.profiles[a].location
              me == [Idle EXCEPT !.at = "upHosts", !.location = l,
                                 !.id = profile[l].info, !.host = h]
  <2>1. me.at = "upHosts" /\ me.location = l /\ me.id = profile[l].info
    BY DEF Idle
  <2>2. Starts(c, me)
    BY <1>6 DEF Up
  <2>. HIDE DEF me
  <2>. QED BY <2>1, <2>2, StartsSolo DEF Reading, Noting
<1>. QED BY <1>1, <1>2, <1>3, <1>4, <1>5, <1>6 DEF User

\* The steps that write no profile.
LEMMA LookingSolo ==
  ASSUME IInv, Solo, NEW c \in Cmd,
         \/ CreateRead(c) \/ CreateList(c) \/ ImportRead(c) \/ ImportList(c) \/ UseList(c)
         \/ RemoveList(c) \/ UpdateRead(c) \/ UpHosts(c) \/ UpRead(c)
         \/ UpKey(c) \/ UpKeySave(c) \/ UpMachine(c) \/ Fault(c)
  PROVE  Solo' /\ KeysStay
<1>. DEFINE me == cmds[c]
            there == profile[me.location]
            Fine == Solo' /\ KeysStay
<1>0. me \in Local /\ CopyOK(c) /\ Idle.at = "idle"
  BY CmdFacts DEF Solo, Idle
<1>1. me.at # "idle" /\ UNCHANGED <<profile, confirmed>> /\ fresh' \in {fresh, fresh + 1}
  BY DEF CreateRead, CreateList, ImportRead, ImportList, UseList, RemoveList, UpdateRead,
         UpHosts, UpRead, UpKey, UpKeySave, UpMachine, Fault, At, Quiet, Fresh, WriteList,
         disk, world
<1>2. CASE Goes(c, Idle)
  BY <1>0, <1>1, <1>2, QuietSolo DEF Reading, Noting
<1>3. ASSUME NEW at \in {"createSave", "updateSave", "upSave"},
             Goes(c, [me EXCEPT !.at = at, !.archive = there]),
             at = "createSave" => there.info = None,
             at = "upSave" => me.id = there.info
      PROVE  Fine
  <2>. DEFINE next == [me EXCEPT !.at = at, !.archive = there]
  <2>1. next.at = at /\ next.archive = there /\ next.location = me.location /\ next.id = me.id
    BY <1>0 DEF Local
  <2>. HIDE DEF next
  <2>. QED BY <1>1, <1>3, <2>1, QuietSolo DEF Noting, next
<1>4. ASSUME NEW at \in {"importList", "rmDir", "upKeySave", "upMachine"}, NEW next,
             Goes(c, next), next.at = at
      PROVE  Fine
  BY <1>1, <1>4, QuietSolo DEF Reading, Noting
<1>5. CASE UpHosts(c)
  <2>. DEFINE next == [me EXCEPT !.at = "upRead", !.known = there.knownHosts]
  <2>1. next.at = "upRead" /\ next.location = me.location /\ next.id = me.id
    BY <1>0 DEF Local
  <2>2. Goes(c, next) \/ Goes(c, Idle)
    BY <1>5 DEF UpHosts
  <2>3. me.id = there.info
    BY <1>0, <1>5 DEF UpHosts, At, CopyOK, Noting
  <2>. HIDE DEF next
  <2>4. CASE Goes(c, next)
    BY <1>1, <2>1, <2>3, <2>4, QuietSolo DEF Reading
  <2>. QED BY <1>2, <2>2, <2>4
<1>6. CASE CreateRead(c) \/ UpdateRead(c) \/ UpRead(c)
  <2>1. UpRead(c) => me.id = there.info
    BY <1>0 DEF UpRead, At, CopyOK, Noting
  <2>2. PICK at \in {"createSave", "updateSave", "upSave"} :
          \/ Goes(c, Idle)
          \/ /\ Goes(c, [me EXCEPT !.at = at, !.archive = there])
             /\ at = "createSave" => there.info = None
             /\ at = "upSave" => me.id = there.info
    BY <1>6, <2>1 DEF CreateRead, UpdateRead, UpRead
  <2>. QED BY <1>2, <1>3, <2>2
<1>7. CASE ImportRead(c)
  <2>. DEFINE next == [me EXCEPT !.at = "importList", !.id = there.info]
  <2>1. next.at = "importList"
    BY <1>0 DEF Local
  <2>2. Goes(c, next) \/ Goes(c, Idle)
    BY <1>7 DEF ImportRead
  <2>. HIDE DEF next
  <2>. QED BY <1>2, <1>4, <2>1, <2>2
<1>8. CASE RemoveList(c)
  <2>. DEFINE next == [me EXCEPT !.at = "rmDir"]
  <2>1. next.at = "rmDir"
    BY <1>0 DEF Local
  <2>2. Goes(c, next) \/ Goes(c, Idle)
    BY <1>8 DEF RemoveList
  <2>. HIDE DEF next
  <2>. QED BY <1>2, <1>4, <2>1, <2>2
<1>9. CASE UpKey(c) \/ UpKeySave(c)
  <2>. DEFINE next(pair) == [me EXCEPT !.at = "upMachine", !.pair = pair]
              save == [me EXCEPT !.at = "upKeySave"]
  <2>1. /\ next(sshKeys[me.location]).at = "upMachine" /\ next(fresh).at = "upMachine"
        /\ save.at = "upKeySave"
    BY <1>0 DEF Local
  <2>2. Goes(c, save) \/ Goes(c, next(sshKeys[me.location])) \/ Goes(c, next(fresh))
    BY <1>9 DEF UpKey, UpKeySave
  <2>. HIDE DEF next, save
  <2>. QED BY <1>4, <2>1, <2>2
<1>10. CASE CreateList(c) \/ ImportList(c) \/ UseList(c) \/ UpMachine(c) \/ Fault(c)
  BY <1>2, <1>10 DEF CreateList, ImportList, UseList, UpMachine, Fault
<1>. QED BY <1>5, <1>6, <1>7, <1>8, <1>9, <1>10

\* The steps that write a profile back.
LEMMA WritingSolo ==
  ASSUME IInv, Solo, NEW c \in Cmd, UpdateSave(c) \/ UpSave(c)
  PROVE  Solo' /\ KeysStay
<1>. DEFINE me == cmds[c]
            there == profile[me.location]
<1>1. CmdOK(me) /\ me \in Local /\ CopyOK(c) /\ Idle.at = "idle"
  BY CmdFacts DEF Solo, Idle
<1>2. me.at \in {"updateSave", "upSave"} /\ me.archive = there /\ me.location \in Location
  BY <1>1 DEF UpdateSave, UpSave, At, CopyOK, Reading, CmdOK, HasLocation
<1>3. there \in Archive
  BY <1>2 DEF IInv, ProfileOK
<1>4. CASE UpdateSave(c)
  <2>. DEFINE x == [there EXCEPT !.flags = me.flags]
  <2>1. /\ x.info = there.info /\ x.tunnelingKey = there.tunnelingKey
        /\ x.knownHosts = there.knownHosts
    BY <1>3 DEF Archive
  <2>2. /\ Goes(c, Idle) /\ profile' = [profile EXCEPT ![me.location] = x]
        /\ fresh' = fresh /\ confirmed' = confirmed
    BY <1>2, <1>4 DEF UpdateSave, WriteProfile, world
  <2>. HIDE DEF x
  <2>3. PICK notes : notes = {}
    OBVIOUS
  <2>4. confirmed' = confirmed \cup notes /\ notes \subseteq Notes(x)
    BY <2>2, <2>3
  <2>. QED BY <1>1, <1>2, <2>1, <2>2, <2>3, <2>4, SaveSolo DEF Reading, Noting
<1>5. CASE UpSave(c)
  <2>. DEFINE x == [there EXCEPT !.knownHosts = KnownHosts(there, me.known, me.host)]
              next == [me EXCEPT !.at = "upKey"]
              note == [id |-> me.id, host |-> me.host]
  <2>1. /\ x.info = there.info /\ x.tunnelingKey = there.tunnelingKey
        /\ there.knownHosts \subseteq x.knownHosts /\ me.host \in x.knownHosts
    BY <1>3 DEF Archive, KnownHosts
  <2>2. next.at = "upKey"
    BY <1>1 DEF Local
  <2>3. /\ Goes(c, next) /\ profile' = [profile EXCEPT ![me.location] = x]
        /\ fresh' = fresh /\ confirmed' = confirmed \cup {note}
    BY <1>2, <1>5 DEF UpSave, WriteProfile
  <2>4. me.id = there.info /\ me.id # None
    BY <1>1, <1>5, ProfilesAssumption DEF UpSave, At, CopyOK, Noting, CmdOK, HasId
  <2>5. {note} \subseteq Notes(x)
    BY <2>1, <2>4 DEF Notes
  <2>6. me.at # "idle" /\ next.at \notin Reading \cup Noting /\ x.info # None
    BY <1>2, <2>1, <2>2, <2>4 DEF Reading, Noting
  <2>7. PICK l, y, notes, go :
          /\ l = me.location /\ l \in Location
          /\ y = x /\ notes = {note} /\ go = next
    BY <1>2
  <2>. HIDE DEF x, next, note
  <2>8. /\ Goes(c, go) /\ go.at \notin Reading \cup Noting
        /\ profile' = [profile EXCEPT ![l] = y] /\ fresh' = fresh
        /\ confirmed' = confirmed \cup notes
        /\ y.info = profile[l].info /\ y.tunnelingKey = profile[l].tunnelingKey
        /\ profile[l].knownHosts \subseteq y.knownHosts
        /\ notes \subseteq Notes(y) /\ y.info # None
    BY <2>1, <2>3, <2>5, <2>6, <2>7
  <2>. QED BY <2>6, <2>7, <2>8, SaveSolo
<1>. QED BY <1>4, <1>5

\* The steps that make a profile or remove one.
LEMMA ReplacingSolo ==
  ASSUME IInv, Solo, NEW c \in Cmd, CreateSave(c) \/ RemoveDirectory(c)
  PROVE  Solo' /\ KeysStay
<1>. DEFINE me == cmds[c]
<1>1. CmdOK(me) /\ me \in Local /\ CopyOK(c) /\ Idle.at = "idle"
  BY CmdFacts DEF Solo, Idle
<1>2. CASE RemoveDirectory(c)
  <2>1. Directory(c) \in Location
    BY <1>1, <1>2 DEF RemoveDirectory, At, CmdOK, HasAlias, Directory, Location
  <2>2. /\ Goes(c, Idle) /\ profile' = [profile EXCEPT ![Directory(c)] = EmptyArchive]
        /\ fresh' = fresh /\ confirmed' = confirmed /\ me.at # "idle"
        /\ EmptyArchive.info = None
    BY <1>2 DEF RemoveDirectory, At, world, EmptyArchive
  <2>. QED BY <1>1, <2>1, <2>2, ReplaceSolo DEF Reading, Noting
<1>3. CASE CreateSave(c) /\ Goes(c, Idle) /\ UNCHANGED profile
  BY <1>1, <1>3, QuietSolo DEF CreateSave, At, Fresh, world, Reading, Noting
<1>4. CASE /\ CreateSave(c)
           /\ Goes(c, [me EXCEPT !.at = "createList", !.id = fresh])
           /\ profile' = [profile EXCEPT ![me.location] = Created(me.archive, fresh, me.from)]
  <2>. DEFINE x == Created(me.archive, fresh, me.from)
              next == [me EXCEPT !.at = "createList", !.id = fresh]
  <2>1. /\ me.at = "createSave" /\ me.location \in Location
        /\ profile[me.location].info = None
    BY <1>1, <1>4 DEF CreateSave, At, CmdOK, HasLocation, CopyOK, Reading
  <2>2. x.info = fresh
    BY <1>1 DEF Created, Local, Archive
  <2>3. next.at = "createList"
    BY <1>1 DEF Local
  <2>4. fresh' = fresh + 1 /\ confirmed' = confirmed
    BY <1>4 DEF CreateSave, Fresh, world
  <2>. HIDE DEF x, next
  <2>5. Goes(c, next) /\ profile' = [profile EXCEPT ![me.location] = x]
    BY <1>4 DEF x, next
  <2>. QED BY <2>1, <2>2, <2>3, <2>4, <2>5, ReplaceSolo DEF Reading, Noting
<1>. QED BY <1>2, <1>3, <1>4 DEF CreateSave

LEMMA StepSolo ==
  IInv /\ SoloInv /\ [Next]_vars => SoloInv' /\ (~overlapped' => KeysStay)
<1>. SUFFICES ASSUME IInv, SoloInv, [Next]_vars, ~overlapped' PROVE Solo' /\ KeysStay
  BY DEF SoloInv, Solo
<1>1. ASSUME NEW c \in Cmd, Run(c) PROVE Solo' /\ KeysStay
  <2>1. ~overlapped
    BY <1>1 DEF Run, CreateRead, CreateSave, CreateList, ImportRead, ImportList, UseList,
       RemoveList, RemoveDirectory, UpdateRead, UpdateSave, UpHosts, UpRead, UpSave, UpKey,
       UpKeySave, UpMachine, Fault, Goes
  <2>2. Solo
    BY <2>1, SoloParts
  <2>. QED BY <1>1, <2>2, LookingSolo, WritingSolo, ReplacingSolo DEF Run
<1>2. ASSUME NEW c \in Cmd, User(c) PROVE Solo' /\ KeysStay
  BY <1>2, UserSolo
<1>3. CASE UNCHANGED vars
  <2>1. UNCHANGED <<profile, confirmed, fresh, cmds, overlapped>>
    BY <1>3 DEF vars, disk, world
  <2>2. Solo
    BY <2>1, SoloParts
  <2>. QED BY <2>1, <2>2 DEF Solo, Single, IdsOK, Known, CopyOK, KeysStay
<1>. QED BY <1>1, <1>2, <1>3 DEF Next

LEMMA InitSolo == Init => SoloInv
<1>1. Init => \A l \in Location : profile[l].info = None
  BY DEF Init, EmptyArchive
<1>2. Init => confirmed = {} /\ \A c \in Cmd : cmds[c].at = "idle"
  BY DEF Init, Idle
<1>. QED BY <1>1, <1>2 DEF SoloInv, Single, IdsOK, Known, CopyOK, Reading, Noting

\* knownServerPublicKeys: while commands run one at a time, wherever they are
\* killed, a host key that was noted for a profile stays known to it, though it
\* is written back with a whole archive by every command that changes one.
THEOREM KnownCorrect == Spec => []KnownKept
<1>1. SoloInv => KnownKept
  BY DEF SoloInv, Known, KnownKept
<1>2. SoloInv /\ IInv /\ [Next]_vars => SoloInv'
  BY StepSolo
<1>. QED BY <1>1, <1>2, InitSolo, Invariant, PTL DEF Spec

\* store.ts: while commands run one at a time no profile changes its id or its
\* tunneling key, from which the URLs of its environments are made.
THEOREM KeyCorrect == Spec => KeyKept
<1>1. SoloInv /\ IInv /\ [Next]_vars => SoloInv'
  BY StepSolo
<1>2. SoloInv /\ IInv /\ [Next]_vars =>
        [~overlapped' => \A l \in Location :
           profile[l].info # None /\ profile'[l].info # None =>
             profile'[l].info = profile[l].info /\ profile'[l].tunnelingKey = profile[l].tunnelingKey]_vars
  BY StepSolo DEF KeysStay
<1>. QED BY <1>1, <1>2, InitSolo, Invariant, PTL DEF Spec, KeyKept
=============================================================================
