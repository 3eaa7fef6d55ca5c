--------------------------- MODULE Context_proofs ---------------------------
(***************************************************************************)
(* Proofs about what a request is made of: the files, the time zone and    *)
(* the skills of the system prompt (Workspace), for every set of texts and *)
(* time zones and every number of ticks, and the conversation              *)
(* (Conversation), for every cost of a message, every budget and every     *)
(* number of turns, rows and rounds.                                       *)
(***************************************************************************)
EXTENDS Workspace, Conversation, SequenceTheorems, WellFoundedInduction, TLAPS

USE WorkspaceAssumption

(***************************************************************************)
(* The files that are read through caches, and the skills                  *)
(***************************************************************************)

BootPaths == {Canonical, Legacy}

WorkTypes ==
  /\ tick \in 1..MaxTick
  /\ disk \in [Paths -> {Missing} \cup [text : Texts, mtime : 1..tick]]
  /\ cache \in {NoCache} \cup [text : Texts, mtime : 1..tick, path : BootPaths]
  /\ zone \in {NoCache} \cup
       [text : Zones \cup {"default"}, mtime : 0..tick, path : {ZoneFile}]
  /\ reader \in {Idle}
       \cup [call : {"stat"}, path : BootPaths, mtime : {0}]
       \cup [call : {"read"}, path : BootPaths, mtime : 1..tick]
       \cup [call : {"zone"}, path : {ZoneFile}, mtime : 0..tick]
  /\ skill \in Skill /\ loaded \in BOOLEAN /\ missed \in BOOLEAN
  /\ watch \in {"off", "on", "changed"}

\* An mtime that p had is not in p's future.  A file that may be written has
\* an mtime before this tick, so that what is written gets an mtime that
\* nobody can have seen yet: that is what makes mtimes safe as cache keys.
Behind(m, p) == m <= disk[p].mtime \/ (disk[p] = Missing /\ m < tick)

CacheBehind == cache # NoCache => Behind(cache.mtime, cache.path)

ReaderBehind == reader.call \in {"read", "zone"} => Behind(reader.mtime, reader.path)

ZoneBehind == zone # NoCache => Behind(zone.mtime, ZoneFile)

\* What is cached under the mtime of the file is what the file says.
CacheTrue ==
  cache # NoCache /\ disk[cache.path] # Missing
    /\ cache.mtime = disk[cache.path].mtime => cache.text = disk[cache.path].text

\* No mtime stands for no file, which stands for the default time zone.
ZoneTrue ==
  zone # NoCache =>
    /\ zone.mtime = disk[ZoneFile].mtime => zone.text = ZoneOf(disk[ZoneFile].text)
    /\ zone.mtime = 0 => zone.text = "default"

\* The history of a loader's call has what its files say now.
CurrentHas ==
  /\ reader.call \in {"stat", "read"} => \A p \in BootPaths : disk[p].text \in current
  /\ reader.call = "zone" => ZoneOf(disk[ZoneFile].text) \in current
  /\ reader.call = "zone" /\ reader.mtime = 0 => "default" \in current

\* Until the watcher is up, the skills are as load_all() found them.
SkillsFollow == watch \in {"off", "on"} /\ ~missed => loaded = (skill = "good")

WorkInv ==
  /\ WorkTypes
  /\ CacheBehind /\ ReaderBehind /\ ZoneBehind
  /\ CacheTrue /\ ZoneTrue
  /\ CurrentHas /\ LoadedIsCurrent
  /\ SkillsFollow

LEMMA PathNames ==
  /\ Paths = BootPaths \cup {ZoneFile}
  /\ ZoneFile \notin BootPaths
  /\ "none" \notin Paths
BY DEF Paths, BootPaths, Canonical, Legacy, ZoneFile

LEMMA FilesAre ==
  ASSUME WorkTypes, NEW p \in Paths
  PROVE  /\ tick \in Nat /\ tick >= 1 /\ MaxTick \in Nat
         /\ disk[p] = Missing => disk[p].mtime = 0 /\ disk[p].text \notin Texts
         /\ disk[p] # Missing =>
              disk[p].text \in Texts /\ disk[p].mtime \in 1..tick /\ disk[p].mtime # 0
         /\ disk[p].mtime \in 0..tick
BY DEF WorkTypes, Missing

LEMMA ReaderIs ==
  ASSUME WorkTypes
  PROVE  /\ reader.call \in {"none", "stat", "read", "zone"}
         /\ reader.call \in {"stat", "read"} => reader.path \in BootPaths
         /\ reader.call = "stat" => reader.mtime = 0
         /\ reader.call = "read" => reader.mtime \in 1..tick
         /\ reader.call = "zone" => reader.path = ZoneFile /\ reader.mtime \in 0..tick
         /\ reader.call = "none" => reader = Idle
BY DEF WorkTypes, Idle

LEMMA CacheIs ==
  ASSUME WorkTypes, cache # NoCache
  PROVE  cache.text \in Texts /\ cache.mtime \in 1..tick /\ cache.path \in BootPaths
BY DEF WorkTypes

LEMMA ZoneIs ==
  ASSUME WorkTypes, zone # NoCache
  PROVE  /\ zone.text \in Zones \cup {"default"} /\ zone.mtime \in 0..tick
         /\ zone.path = ZoneFile
BY DEF WorkTypes

LEMMA InitWork == WorkInit => WorkInv
<1> SUFFICES ASSUME WorkInit PROVE WorkInv
  OBVIOUS
<1>1. tick = 1 /\ cache = NoCache /\ zone = NoCache /\ reader = Idle /\ wrong = {}
  BY DEF WorkInit
<1>2. WorkTypes
  <2>1. 1 \in 1..MaxTick /\ 1..1 = {1}
    OBVIOUS
  <2>2. disk \in [Paths -> {Missing} \cup [text : Texts, mtime : 1..tick]]
    BY <1>1, <2>1 DEF WorkInit
  <2>3. loaded \in BOOLEAN /\ missed \in BOOLEAN
    BY DEF WorkInit
  <2> QED BY <1>1, <2>1, <2>2, <2>3 DEF WorkInit, WorkTypes
<1>3. CacheBehind /\ ReaderBehind /\ ZoneBehind /\ CacheTrue /\ ZoneTrue
  BY <1>1 DEF CacheBehind, ReaderBehind, ZoneBehind, CacheTrue, ZoneTrue, Idle
<1>4. CurrentHas /\ LoadedIsCurrent /\ SkillsFollow
  BY <1>1 DEF WorkInit, CurrentHas, LoadedIsCurrent, SkillsFollow, Idle
<1> QED BY <1>2, <1>3, <1>4 DEF WorkInv

(***************************************************************************)
(* Types                                                                   *)
(***************************************************************************)

LEMMA TypesStep == WorkTypes /\ [WorkNext]_workVars => WorkTypes'
<1> SUFFICES ASSUME WorkTypes, [WorkNext]_workVars PROVE WorkTypes'
  OBVIOUS
<1> USE DEF fileVars, cacheVars, readVars, skillVars
<1>1. CASE Resolve
  <2>1. reader' \in [call : {"stat"}, path : BootPaths, mtime : {0}]
    BY <1>1 DEF Resolve, BootPaths
  <2> QED BY <1>1, <2>1 DEF Resolve, WorkTypes
<1>2. CASE Stat
  <2>1. reader.path \in BootPaths /\ reader.path \in Paths
    BY <1>2, ReaderIs, PathNames DEF Stat
  <2>2. disk[reader.path].mtime \in 1..tick
    BY <1>2, <2>1, FilesAre DEF Stat
  <2>3. \/ reader' = Idle
        \/ reader' = [reader EXCEPT !.call = "read", !.mtime = disk[reader.path].mtime]
    BY <1>2 DEF Stat, Return
  <2>4. reader \in [call : {"stat"}, path : BootPaths, mtime : {0}]
    BY <1>2 DEF Stat, WorkTypes, Idle
  <2>5. reader' \in {Idle} \cup [call : {"read"}, path : BootPaths, mtime : 1..tick]
    BY <2>2, <2>3, <2>4
  <2> QED BY <1>2, <2>5 DEF Stat, WorkTypes
<1>3. CASE Read
  <2>1. /\ reader.path \in BootPaths /\ reader.path \in Paths
        /\ reader.mtime \in 1..tick
    BY <1>3, ReaderIs, PathNames DEF Read
  <2>2. disk[reader.path].text \in Texts
    BY <1>3, <2>1, FilesAre DEF Read
  <2>3. cache' \in [text : Texts, mtime : 1..tick, path : BootPaths] /\ reader' = Idle
    BY <1>3, <2>1, <2>2 DEF Read, Return
  <2> QED BY <1>3, <2>3 DEF Read, WorkTypes
<1>4. CASE Raise
  BY <1>4 DEF Raise, WorkTypes
<1>5. CASE ZoneStat
  <2>1. disk[ZoneFile].mtime \in 0..tick
    BY FilesAre, PathNames
  <2>2. reader' \in {Idle} \cup [call : {"zone"}, path : {ZoneFile}, mtime : 0..tick]
    BY <1>5, <2>1 DEF ZoneStat, Return
  <2> QED BY <1>5, <2>2 DEF ZoneStat, WorkTypes
<1>6. CASE ZoneRead
  <2>1. reader.mtime \in 0..tick
    BY <1>6, ReaderIs DEF ZoneRead
  <2>2. /\ zone' \in [text : Zones \cup {"default"}, mtime : 0..tick, path : {ZoneFile}]
        /\ reader' = Idle
    BY <1>6, <2>1 DEF ZoneRead, Return, ZoneOf
  <2> QED BY <1>6, <2>2 DEF ZoneRead, WorkTypes
<1>7. CASE \/ CreateSkill \/ WatchStarts \/ Reload \/ UNCHANGED workVars
           \/ \E s \in Skill : ChangeSkill(s)
  <2>1. UNCHANGED <<fileVars, cacheVars, reader>>
    BY <1>7 DEF CreateSkill, WatchStarts, Reload, ChangeSkill, workVars
  <2>2. /\ skill' \in Skill /\ loaded' \in BOOLEAN /\ missed' \in BOOLEAN
        /\ watch' \in {"off", "on", "changed"}
    BY <1>7 DEF CreateSkill, WatchStarts, Reload, ChangeSkill, workVars, Skill, WorkTypes
  <2> QED BY <2>1, <2>2 DEF WorkTypes
<1>8. ASSUME NEW p \in Paths,
             Delete(p) \/ \E text \in Texts : Write(p, text)
      PROVE  WorkTypes'
  <2>1. tick \in 1..tick
    BY FilesAre
  <2>2. disk' \in [Paths -> {Missing} \cup [text : Texts, mtime : 1..tick]]
    BY <1>8, <2>1 DEF Delete, Write, Change, WorkTypes
  <2> QED BY <1>8, <2>2 DEF Delete, Write, Change, WorkTypes
<1>9. CASE Tick
  <2>1. tick \in Nat /\ tick' = tick + 1 /\ tick' \in 1..MaxTick
    BY <1>9 DEF Tick, WorkTypes
  <2>2. 1..tick \subseteq 1..tick' /\ 0..tick \subseteq 0..tick'
    BY <2>1
  <2>3. UNCHANGED <<disk, cacheVars, reader, skillVars>>
    BY <1>9 DEF Tick
  <2>4. disk' \in [Paths -> {Missing} \cup [text : Texts, mtime : 1..tick']]
    BY <2>2, <2>3 DEF WorkTypes
  <2>5. /\ cache' \in {NoCache} \cup [text : Texts, mtime : 1..tick', path : BootPaths]
        /\ zone' \in {NoCache} \cup
             [text : Zones \cup {"default"}, mtime : 0..tick', path : {ZoneFile}]
    BY <2>2, <2>3 DEF WorkTypes
  <2>6. reader' \in {Idle}
          \cup [call : {"stat"}, path : BootPaths, mtime : {0}]
          \cup [call : {"read"}, path : BootPaths, mtime : 1..tick']
          \cup [call : {"zone"}, path : {ZoneFile}, mtime : 0..tick']
    BY <2>2, <2>3 DEF WorkTypes
  <2> QED BY <2>1, <2>3, <2>4, <2>5, <2>6 DEF WorkTypes
<1> QED BY <1>1, <1>2, <1>3, <1>4, <1>5, <1>6, <1>7, <1>8, <1>9 DEF WorkNext, Loader

(***************************************************************************)
(* The caches                                                              *)
(***************************************************************************)

CachesInv ==
  /\ CacheBehind /\ ReaderBehind /\ ZoneBehind
  /\ CacheTrue /\ ZoneTrue
  /\ CurrentHas /\ LoadedIsCurrent

LEMMA MissingIsDefault == ZoneOf(Missing.text) = "default"
BY DEF ZoneOf

\* The bootstrap file: whatever is returned has been in the file.
LEMMA BootStep ==
  ASSUME WorkTypes, CachesInv, Resolve \/ Stat \/ Read \/ Raise
  PROVE  CachesInv'
<1> USE DEF fileVars, cacheVars, readVars, skillVars, CachesInv
<1>0. UNCHANGED <<tick, disk, zone>>
  BY DEF Resolve, Stat, Read, Raise
<1>1. ZoneBehind' /\ ZoneTrue'
  BY <1>0 DEF ZoneBehind, ZoneTrue, Behind
<1>2. CASE Resolve
  <2>1. /\ UNCHANGED <<cache, wrong>>
        /\ reader'.call = "stat"
        /\ current' = Says(BootPaths)
    BY <1>2 DEF Resolve, BootPaths
  <2>2. CacheBehind' /\ ReaderBehind' /\ CacheTrue' /\ LoadedIsCurrent'
    BY <1>0, <2>1 DEF CacheBehind, ReaderBehind, CacheTrue, LoadedIsCurrent, Behind
  <2>3. CurrentHas'
    BY <1>0, <2>1 DEF CurrentHas, Says
  <2> QED BY <1>1, <2>2, <2>3
<1>3. CASE Stat
  <2>1. /\ reader.call = "stat" /\ reader.path \in BootPaths /\ reader.path \in Paths
        /\ cache' = cache /\ disk[reader.path] # Missing
    BY <1>3, ReaderIs, PathNames DEF Stat
  <2>2. CacheBehind' /\ CacheTrue'
    BY <1>0, <2>1 DEF CacheBehind, CacheTrue, Behind
  <2>3. CASE Cached(disk[reader.path])
    <3>1. Return(cache.text, current)
      BY <1>3, <2>3 DEF Stat
    <3>2. cache.text = disk[reader.path].text
      BY <2>1, <2>3 DEF Cached, CacheTrue
    <3>3. cache.text \in current
      BY <2>1, <3>2 DEF CurrentHas
    <3>4. wrong' = wrong /\ reader' = Idle
      BY <3>1, <3>3 DEF Return
    <3> QED BY <1>1, <2>2, <3>4 DEF ReaderBehind, CurrentHas, LoadedIsCurrent, Idle
  <2>4. CASE ~Cached(disk[reader.path])
    <3>1. /\ reader' = [reader EXCEPT !.call = "read", !.mtime = disk[reader.path].mtime]
          /\ UNCHANGED <<current, wrong>>
      BY <1>3, <2>4 DEF Stat
    <3>2. reader \in [call : {"stat"}, path : BootPaths, mtime : {0}]
      BY <2>1 DEF WorkTypes, Idle
    <3>3. /\ reader'.call = "read" /\ reader'.path = reader.path
          /\ reader'.mtime = disk[reader.path].mtime
      BY <3>1, <3>2
    <3>4. disk[reader.path].mtime \in 1..tick
      BY <2>1, FilesAre
    <3>5. ReaderBehind'
      BY <1>0, <3>3, <3>4 DEF ReaderBehind, Behind
    <3>6. CurrentHas' /\ LoadedIsCurrent'
      BY <1>0, <2>1, <3>1, <3>3 DEF CurrentHas, LoadedIsCurrent
    <3> QED BY <1>1, <2>2, <3>5, <3>6
  <2> QED BY <2>3, <2>4
<1>4. CASE Read
  <2> DEFINE p == reader.path
             text == disk[p].text
  <2>1. /\ reader.call = "read" /\ p \in BootPaths /\ p \in Paths
        /\ disk[p] # Missing
        /\ cache' = [text |-> text, mtime |-> reader.mtime, path |-> p]
        /\ Return(text, current)
    BY <1>4, ReaderIs, PathNames DEF Read
  <2>2. text \in current /\ Behind(reader.mtime, p)
    BY <2>1 DEF CurrentHas, ReaderBehind
  <2>3. wrong' = wrong /\ reader' = Idle
    BY <2>1, <2>2 DEF Return
  <2>4. CacheBehind' /\ CacheTrue'
    BY <1>0, <2>1, <2>2 DEF CacheBehind, CacheTrue, Behind
  <2> QED BY <1>1, <2>3, <2>4 DEF ReaderBehind, CurrentHas, LoadedIsCurrent, Idle
<1>5. CASE Raise
  <2>1. UNCHANGED <<cache, wrong>> /\ reader' = Idle
    BY <1>5 DEF Raise
  <2> QED BY <1>0, <1>1, <2>1 DEF CacheBehind, CacheTrue, Behind, ReaderBehind, CurrentHas,
                                  LoadedIsCurrent, Idle
<1> QED BY <1>2, <1>3, <1>4, <1>5

\* The time zone: a file that is not there is cached like one that is.
LEMMA ZoneStep ==
  ASSUME WorkTypes, CachesInv, ZoneStat \/ ZoneRead
  PROVE  CachesInv'
<1> USE DEF fileVars, cacheVars, readVars, skillVars, CachesInv
<1> DEFINE file == disk[ZoneFile]
<1>0. /\ UNCHANGED <<tick, disk, cache>>
      /\ ZoneFile \in Paths
  BY PathNames DEF ZoneStat, ZoneRead
<1>1. CacheBehind' /\ CacheTrue'
  BY <1>0 DEF CacheBehind, CacheTrue, Behind
<1>2. file.mtime \in Nat /\ (file.mtime = 0 => file = Missing)
  BY <1>0, FilesAre
<1>3. CASE ZoneStat
  <2>1. zone' = zone
    BY <1>3 DEF ZoneStat
  <2>2. ZoneBehind' /\ ZoneTrue'
    BY <1>0, <2>1 DEF ZoneBehind, ZoneTrue, Behind
  <2>3. CASE ZoneCached(file)
    <3>1. zone.text = ZoneOf(file.text)
      BY <2>3 DEF ZoneCached, ZoneTrue
    <3>2. wrong' = wrong /\ reader' = Idle
      BY <1>3, <2>3, <3>1 DEF ZoneStat, Return
    <3> QED BY <1>1, <2>2, <3>2 DEF ReaderBehind, CurrentHas, LoadedIsCurrent, Idle
  <2>4. CASE ~ZoneCached(file)
    <3>1. /\ reader' = [call |-> "zone", path |-> ZoneFile, mtime |-> file.mtime]
          /\ current' = {ZoneOf(file.text)} /\ wrong' = wrong
      BY <1>3, <2>4 DEF ZoneStat
    <3>2. ReaderBehind'
      BY <1>0, <1>2, <3>1 DEF ReaderBehind, Behind
    <3>3. CurrentHas'
      BY <1>0, <1>2, <3>1, MissingIsDefault DEF CurrentHas
    <3> QED BY <1>1, <2>2, <3>1, <3>2, <3>3 DEF LoadedIsCurrent
  <2> QED BY <2>3, <2>4
<1>4. CASE ZoneRead
  <2> DEFINE text == IF reader.mtime = 0 THEN "default" ELSE ZoneOf(file.text)
  <2>1. /\ reader.call = "zone" /\ reader.path = ZoneFile
        /\ zone' = [text |-> text, mtime |-> reader.mtime, path |-> ZoneFile]
        /\ Return(text, current)
    BY <1>4, ReaderIs DEF ZoneRead
  <2>2. text \in current /\ Behind(reader.mtime, ZoneFile)
    BY <2>1 DEF CurrentHas, ReaderBehind
  <2>3. wrong' = wrong /\ reader' = Idle
    BY <2>1, <2>2 DEF Return
  <2>4. ZoneBehind'
    BY <1>0, <2>1, <2>2 DEF ZoneBehind, Behind
  <2>5. ZoneTrue'
    BY <1>0, <1>2, <2>1, MissingIsDefault DEF ZoneTrue
  <2> QED BY <1>1, <2>3, <2>4, <2>5 DEF ReaderBehind, CurrentHas, LoadedIsCurrent, Idle
<1> QED BY <1>3, <1>4

\* What an mtime that is behind means when its file is written or deleted.
LEMMA StaysBehind ==
  ASSUME WorkTypes, NEW p \in Paths, NEW q \in Paths, NEW file, NEW m \in Nat,
         disk[p].mtime < tick,
         file = Missing \/ file.mtime = tick,
         Change(p, file), Behind(m, q)
  PROVE  /\ Behind(m, q)'
         /\ q = p => m < tick
<1>1. /\ disk' = [disk EXCEPT ![p] = file] /\ tick' = tick
      /\ disk'[p] = file /\ (q # p => disk'[q] = disk[q])
  BY DEF Change, WorkTypes
<1>2. tick \in Nat /\ disk[p].mtime \in Nat /\ disk[q].mtime \in Nat
  BY FilesAre
<1>3. q = p => m < tick
  BY <1>2 DEF Behind
<1>4. CASE q = p
  <2>1. m < tick
    BY <1>3, <1>4
  <2>2. CASE file = Missing
    BY <1>1, <1>4, <2>1, <2>2 DEF Behind
  <2>3. CASE file.mtime = tick
    BY <1>1, <1>2, <1>4, <2>1, <2>3 DEF Behind
  <2> QED BY <2>2, <2>3
<1>5. CASE q # p
  BY <1>1, <1>5 DEF Behind
<1> QED BY <1>3, <1>4, <1>5

LEMMA ChangeStep ==
  ASSUME WorkTypes, CachesInv, NEW p \in Paths,
         Delete(p) \/ \E text \in Texts : Write(p, text)
  PROVE  CachesInv'
<1> USE DEF fileVars, cacheVars, readVars, skillVars, CachesInv
<1>0. PICK file : /\ Change(p, file) /\ disk[p].mtime < tick
                  /\ \/ file = Missing
                     \/ file.mtime = tick /\ file.text \in Texts
  <2>1. CASE Delete(p)
    BY <2>1 DEF Delete
  <2>2. ASSUME NEW text \in Texts, Write(p, text)
        PROVE  /\ Change(p, [text |-> text, mtime |-> tick])
               /\ disk[p].mtime < tick
               /\ [text |-> text, mtime |-> tick].mtime = tick
               /\ [text |-> text, mtime |-> tick].text \in Texts
    BY <2>2 DEF Write
  <2> QED BY <2>1, <2>2
<1>1. /\ disk' = [disk EXCEPT ![p] = file]
      /\ UNCHANGED <<tick, cache, zone, reader, wrong>>
      /\ disk'[p] = file /\ \A q \in Paths \ {p} : disk'[q] = disk[q]
  BY <1>0 DEF Change, WorkTypes
<1>2. ASSUME NEW q \in Paths, NEW m \in Nat, Behind(m, q)
      PROVE  Behind(m, q)' /\ (q = p => m < tick)
  BY <1>0, <1>2, StaysBehind
<1>3. tick \in Nat /\ tick # 0 /\ Missing.mtime = 0
  BY FilesAre DEF Missing
<1>4. CacheBehind' /\ CacheTrue'
  <2> SUFFICES ASSUME cache # NoCache PROVE CacheBehind' /\ CacheTrue'
    BY <1>1 DEF CacheBehind, CacheTrue
  <2>1. cache.path \in Paths /\ cache.mtime \in Nat
    BY CacheIs, PathNames
  <2>2. Behind(cache.mtime, cache.path)' /\ (cache.path = p => cache.mtime < tick)
    <3>1. Behind(cache.mtime, cache.path)
      BY DEF CacheBehind
    <3> QED BY <3>1, <2>1, <1>1, <1>2 DEF Behind
  <2>3. CacheTrue'
    <3>1. CASE cache.path = p
      <4>1. file # Missing => file.mtime # cache.mtime
        BY <1>0, <1>3, <2>1, <2>2, <3>1
      <4> QED BY <1>1, <3>1, <4>1 DEF CacheTrue
    <3>2. CASE cache.path # p
      BY <1>1, <2>1, <3>2 DEF CacheTrue
    <3> QED BY <3>1, <3>2
  <2> QED BY <1>1, <2>2, <2>3 DEF CacheBehind
<1>5. ReaderBehind'
  <2> SUFFICES ASSUME reader.call \in {"read", "zone"}
               PROVE  Behind(reader.mtime, reader.path)'
    BY <1>1 DEF ReaderBehind
  <2>1. reader.path \in Paths /\ reader.mtime \in Nat
    BY ReaderIs, FilesAre, PathNames
  <2> QED BY <2>1, <1>1, <1>2 DEF ReaderBehind, Behind
<1>6. ZoneBehind' /\ ZoneTrue'
  <2> SUFFICES ASSUME zone # NoCache PROVE ZoneBehind' /\ ZoneTrue'
    BY <1>1 DEF ZoneBehind, ZoneTrue
  <2>1. ZoneFile \in Paths /\ zone.mtime \in Nat
    BY ZoneIs, FilesAre, PathNames
  <2>2. Behind(zone.mtime, ZoneFile)' /\ (ZoneFile = p => zone.mtime < tick)
    BY <2>1, <1>1, <1>2 DEF ZoneBehind, Behind
  <2>3. ZoneTrue'
    <3>1. CASE ZoneFile = p
      <4>1. file = Missing \/ file.mtime # zone.mtime
        BY <1>0, <1>3, <2>1, <2>2, <3>1
      <4> QED BY <1>1, <1>3, <3>1, <4>1, MissingIsDefault DEF ZoneTrue
    <3>2. CASE ZoneFile # p
      BY <1>1, <2>1, <3>2 DEF ZoneTrue
    <3> QED BY <3>1, <3>2
  <2> QED BY <1>1, <2>2, <2>3 DEF ZoneBehind
<1>7. CurrentHas'
  <2> SUFFICES ASSUME reader # Idle PROVE CurrentHas'
    BY <1>1 DEF CurrentHas, Idle
  <2>1. current' = current \cup
          (IF p = ZoneFile THEN {ZoneOf(file.text)} ELSE {file.text})
    BY <1>0 DEF Change
  <2>2. ASSUME NEW q \in BootPaths, reader.call \in {"stat", "read"}
        PROVE  disk'[q].text \in current'
    <3>1. q \in Paths /\ q # ZoneFile
      BY PathNames
    <3> QED BY <1>1, <2>1, <2>2, <3>1 DEF CurrentHas
  <2>3. reader.call = "zone" => ZoneOf(disk'[ZoneFile].text) \in current'
    <3>1. ZoneFile \in Paths
      BY PathNames
    <3> QED BY <1>1, <2>1, <3>1 DEF CurrentHas
  <2> QED BY <1>1, <2>1, <2>2, <2>3 DEF CurrentHas
<1> QED BY <1>1, <1>4, <1>5, <1>6, <1>7 DEF LoadedIsCurrent

LEMMA CachesStep ==
  WorkTypes /\ CachesInv /\ [WorkNext]_workVars => CachesInv'
<1> SUFFICES ASSUME WorkTypes, CachesInv, [WorkNext]_workVars PROVE CachesInv'
  OBVIOUS
<1>1. CASE \/ CreateSkill \/ WatchStarts \/ Reload \/ UNCHANGED workVars \/ Tick
           \/ \E s \in Skill : ChangeSkill(s)
  <2>1. /\ UNCHANGED <<disk, cache, zone, reader, current, wrong>>
        /\ tick' \in Nat /\ tick <= tick' /\ tick \in Nat
    <3>1. tick \in Nat
      BY DEF WorkTypes
    <3> QED BY <1>1, <3>1 DEF CreateSkill, WatchStarts, Reload, ChangeSkill, Tick, workVars,
                              fileVars, cacheVars, readVars, skillVars
  <2>2. ASSUME NEW m \in Nat, NEW q \in Paths, Behind(m, q) PROVE Behind(m, q)'
    BY <2>1, <2>2 DEF Behind
  <2>3. CacheBehind'
    BY <2>1, <2>2, CacheIs, PathNames DEF CachesInv, CacheBehind
  <2>4. ReaderBehind'
    BY <2>1, <2>2, ReaderIs, PathNames DEF CachesInv, ReaderBehind
  <2>5. ZoneBehind'
    BY <2>1, <2>2, ZoneIs, PathNames DEF CachesInv, ZoneBehind
  <2>6. CacheTrue' /\ ZoneTrue' /\ CurrentHas' /\ LoadedIsCurrent'
    BY <2>1 DEF CachesInv, CacheTrue, ZoneTrue, CurrentHas, LoadedIsCurrent
  <2> QED BY <2>3, <2>4, <2>5, <2>6 DEF CachesInv
<1> QED BY <1>1, BootStep, ZoneStep, ChangeStep DEF WorkNext, Loader

(***************************************************************************)
(* The skills                                                              *)
(***************************************************************************)

LEMMA SkillsStep == WorkTypes /\ SkillsFollow /\ [WorkNext]_workVars => SkillsFollow'
<1> SUFFICES ASSUME WorkTypes, SkillsFollow, [WorkNext]_workVars PROVE SkillsFollow'
  OBVIOUS
<1> USE DEF SkillsFollow, skillVars
<1>1. CASE Loader \/ Tick \/ UNCHANGED workVars
  BY <1>1 DEF Loader, Resolve, Stat, Read, Raise, ZoneStat, ZoneRead, Tick, workVars
<1>2. CASE CreateSkill \/ \E s \in Skill : ChangeSkill(s)
  BY <1>2 DEF CreateSkill, ChangeSkill
<1>3. CASE WatchStarts \/ Reload
  BY <1>3 DEF WatchStarts, Reload
<1>4. ASSUME NEW p \in Paths, Delete(p) \/ \E text \in Texts : Write(p, text)
      PROVE  SkillsFollow'
  BY <1>4 DEF Delete, Write, Change
<1> QED BY <1>1, <1>2, <1>3, <1>4 DEF WorkNext

\* What is served from memory is what its file said at some moment of the
\* call, and the skills are those on disk once the watcher has spoken.
THEOREM NothingStaleIsServed == WorkSpec => []CachesAreFresh
<1>1. WorkInit => WorkInv
  BY InitWork
<1>2. WorkInv /\ [WorkNext]_workVars => WorkInv'
  BY TypesStep, CachesStep, SkillsStep DEF WorkInv, CachesInv
<1>3. WorkInv => CachesAreFresh
  <2> SUFFICES ASSUME WorkInv PROVE CachesAreFresh
    OBVIOUS
  <2>1. tick \in Nat /\ tick >= 1
    BY DEF WorkInv, WorkTypes
  <2>2. cache.text \in Texts \cup {"none"} /\ cache.mtime \in 0..tick
    BY <2>1, CacheIs DEF WorkInv, NoCache
  <2>3. zone.text \in Zones \cup {"default", "none"} /\ zone.mtime \in 0..tick
    BY <2>1, ZoneIs DEF WorkInv, NoCache
  <2>4. WorkTypeOK
    BY <2>2, <2>3, ReaderIs DEF WorkInv, WorkTypes, WorkTypeOK
  <2>5. SkillsAreFresh
    BY DEF WorkInv, SkillsFollow, SkillsAreFresh
  <2> QED BY <2>4, <2>5 DEF WorkInv, CachesAreFresh
<1> QED BY <1>1, <1>2, <1>3, PTL DEF WorkSpec

(***************************************************************************)
(* Cutting the conversation                                                *)
(***************************************************************************)

HIDE WorkspaceAssumption
USE ConversationAssumption

\* Least numbers stand in for induction.
LEMMA Least ==
  ASSUME NEW T, T \subseteq Nat, T # {}
  PROVE  \E m \in T : \A k \in T : m <= k
<1> DEFINE R == OpToRel(<, Nat)
<1>1. IsWellFoundedOn(R, Nat)
  BY NatLessThanWellFounded
<1>2. \A x, y \in Nat : x < y => <<x, y>> \in R
  BY DEF OpToRel
<1> HIDE DEF R
<1>3. \E m \in T : \A k \in T : ~(<<k, m>> \in R)
  BY <1>1, WFMin
<1>4. \A x, y \in Nat : ~(x < y) => y <= x
  OBVIOUS
<1> QED BY <1>2, <1>3, <1>4

LEMMA Largest ==
  ASSUME NEW n \in Nat, NEW T, T \subseteq 0..n, T # {}
  PROVE  \E m \in T : \A k \in T : k <= m
<1> DEFINE D == {n - k : k \in T}
<1>1. D \subseteq Nat /\ D # {}
  <2>1. \A k \in T : n - k \in Nat
    OBVIOUS
  <2> QED BY <2>1
<1> HIDE DEF D
<1>2. PICK d \in D : \A k \in D : d <= k
  BY <1>1, Least
<1>3. PICK m \in T : d = n - m
  BY DEF D
<1>4. ASSUME NEW k \in T PROVE k <= m
  <2>1. n - m <= n - k
    BY <1>2, <1>3 DEF D
  <2> QED BY <2>1
<1> QED BY <1>4

\* Deleting the first n rows leaves the others as they are.
LEMMA KeepIs ==
  ASSUME NEW s \in Seq(RowType), NEW D, NEW n \in 0..Len(s),
         \A i \in 1..n : s[i].id \in D,
         \A i \in (n + 1)..Len(s) : s[i].id \notin D
  PROVE  Keep(s, D) = SubSeq(s, n + 1, Len(s))
<1> DEFINE N == Len(s)
           Step(f, k) == IF k = 0 THEN <<>>
                         ELSE IF s[k].id \in D THEN f[k - 1]
                         ELSE Append(f[k - 1], s[k])
           g == [k \in 0..N |-> SubSeq(s, n + 1, k)]
           F == CHOOSE f : f = [k \in 0..N |-> Step(f, k)]
<1>1. Keep(s, D) = F[N]
  BY DEF Keep
<1>2. N \in Nat /\ n \in Nat /\ n <= N
  BY LenProperties
<1>3. ASSUME NEW k \in 0..N PROVE g[k] = Step(g, k)
  <2>1. g[k] = SubSeq(s, n + 1, k)
    OBVIOUS
  <2>2. k # 0 => g[k - 1] = SubSeq(s, n + 1, k - 1)
    <3>1. k # 0 => k - 1 \in 0..N
      BY <1>2
    <3> HIDE DEF N
    <3> QED BY <3>1
  <2> HIDE DEF g, N
  <2>3. CASE k = 0
    <3>1. SubSeq(s, n + 1, 0) = <<>>
      BY <1>2, SubSeqEmpty
    <3> QED BY <2>1, <2>3, <3>1
  <2>4. CASE k # 0 /\ k <= n
    <3>1. SubSeq(s, n + 1, k) = <<>> /\ SubSeq(s, n + 1, k - 1) = <<>>
      BY <1>2, <2>4, SubSeqEmpty
    <3>2. s[k].id \in D
      BY <1>2, <2>4
    <3> QED BY <2>1, <2>2, <2>4, <3>1, <3>2
  <2>5. CASE k > n
    <3>1. k \in (n + 1)..N /\ k # 0
      BY <1>2, <2>5
    <3>2. s[k].id \notin D
      BY <3>1 DEF N
    <3>3. SubSeq(s, n + 1, k) = Append(SubSeq(s, n + 1, k - 1), s[k])
      BY <1>2, <2>5, SubSeqRecursiveSecond DEF N
    <3> QED BY <2>1, <2>2, <3>1, <3>2, <3>3
  <2> QED BY <1>2, <2>3, <2>4, <2>5
<1>4. g = [k \in 0..N |-> Step(g, k)]
  <2>1. DOMAIN g = 0..N
    OBVIOUS
  <2> QED BY <1>3, <2>1
<1>5. F = [k \in 0..N |-> Step(F, k)]
  <2> HIDE DEF g, N, Step
  <2> QED BY <1>4
<1> HIDE DEF F, g
<1>6. ASSUME NEW k \in 0..N, k # 0 => F[k - 1] = g[k - 1] PROVE F[k] = g[k]
  <2>1. F[k] = Step(F, k) /\ g[k] = Step(g, k)
    BY <1>4, <1>5
  <2> QED BY <1>6, <2>1
<1> DEFINE T == {k \in 0..N : F[k] # g[k]}
<1>7. T = {}
  <2> SUFFICES ASSUME T # {} PROVE FALSE
    OBVIOUS
  <2>1. T \subseteq Nat
    BY <1>2
  <2> HIDE DEF T
  <2>2. PICK m \in T : \A k \in T : m <= k
    BY <2>1, Least
  <2>3. m \in 0..N /\ F[m] # g[m]
    BY DEF T
  <2>4. m # 0 => m - 1 \in 0..N /\ ~(m <= m - 1)
    BY <1>2, <2>3
  <2>5. m # 0 => F[m - 1] = g[m - 1]
    BY <2>2, <2>4 DEF T
  <2> QED BY <1>6, <2>3, <2>5
<1>8. F[N] = g[N] /\ g[N] = SubSeq(s, n + 1, N)
  <2>1. N \in 0..N
    BY <1>2
  <2> HIDE DEF N
  <2>2. F[N] = g[N]
    BY <1>7, <2>1
  <2> QED BY <2>1, <2>2 DEF g
<1> QED BY <1>1, <1>8

\* The cost of nothing, and of one message.
LEMMA TotalIs ==
  /\ Total(<<>>) = 0
  /\ \A m \in RowType : Total(<<m>>) = m.cost
<1> DEFINE Step(s, f, t) == IF t = {} THEN 0
                            ELSE LET x == CHOOSE x \in t : TRUE
                                 IN  s[x].cost + f[t \ {x}]
           Sum(s) == CHOOSE f : f = [t \in SUBSET DOMAIN s |-> Step(s, f, t)]
<1>1. \A s : Total(s) = Sum(s)[DOMAIN s]
  BY DEF Total, FoldSeq, FoldFunction, FoldFunctionOnSet, MapThenFoldSet
<1>2. Total(<<>>) = 0
  <2> DEFINE g == [t \in SUBSET DOMAIN <<>> |-> 0]
  <2>1. DOMAIN <<>> = {}
    OBVIOUS
  <2>2. g = [t \in SUBSET DOMAIN <<>> |-> Step(<<>>, g, t)]
    BY <2>1
  <2>3. Sum(<<>>) = [t \in SUBSET DOMAIN <<>> |-> Step(<<>>, Sum(<<>>), t)]
    <3> HIDE DEF g, Step
    <3> QED BY <2>2
  <2> HIDE DEF Sum
  <2>4. Sum(<<>>)[{}] = Step(<<>>, Sum(<<>>), {})
    BY <2>1, <2>3
  <2> QED BY <1>1, <2>1, <2>4
<1>3. ASSUME NEW m \in RowType PROVE Total(<<m>>) = m.cost
  <2> DEFINE s == <<m>>
             c == m.cost
             g == [t \in SUBSET {1} |-> IF t = {} THEN 0 ELSE c]
  <2>1. DOMAIN s = {1} /\ s[1] = m /\ c \in Nat
    BY DEF RowType
  <2>2. \A t \in SUBSET {1} : t = {} \/ t = {1}
    OBVIOUS
  <2>3. (CHOOSE x \in {1} : TRUE) = 1 /\ {1} \ {1} = {}
    OBVIOUS
  <2>4. c + 0 = c
    BY <2>1
  <2>5. \A t \in SUBSET {1} : g[t] = Step(s, g, t)
    <3>0. g[{}] = 0 /\ g[{1}] = c
      <4> HIDE DEF c
      <4>1. \A t \in SUBSET {1} : g[t] = IF t = {} THEN 0 ELSE c
        OBVIOUS
      <4>2. {} \in SUBSET {1} /\ {1} \in SUBSET {1} /\ {1} # {}
        OBVIOUS
      <4> HIDE DEF g
      <4> QED BY <4>1, <4>2
    <3>1. g[{}] = Step(s, g, {})
      <4> HIDE DEF g, s, c
      <4> QED BY <3>0
    <3>2. g[{1}] = Step(s, g, {1})
      <4> HIDE DEF g, s, c
      <4>1. Step(s, g, {1}) = s[1].cost + g[{}]
        BY <2>3
      <4> QED BY <2>1, <2>4, <3>0, <4>1 DEF c
    <3> HIDE DEF g, s, Step
    <3> QED BY <2>2, <3>1, <3>2
  <2>6. g = [t \in SUBSET DOMAIN s |-> Step(s, g, t)]
    BY <2>1, <2>5
  <2>7. Sum(s) = [t \in SUBSET DOMAIN s |-> Step(s, Sum(s), t)]
    <3> HIDE DEF g, Step, s
    <3> QED BY <2>6
  <2>8. Total(s) = Sum(s)[{1}]
    BY <1>1, <2>1
  <2> HIDE DEF Sum, s, g, c
  <2>9. Sum(s)[{1}] = Step(s, Sum(s), {1}) /\ Sum(s)[{}] = Step(s, Sum(s), {})
    BY <2>1, <2>7
  <2>10. Sum(s)[{1}] = c + 0
    BY <2>1, <2>3, <2>9 DEF c
  <2> QED BY <2>4, <2>8, <2>10 DEF s, c
<1> QED BY <1>2, <1>3

\* trim_messages keeps an end of the conversation; its last message, if it fits.
LEMMA TrimIs ==
  ASSUME NEW s \in Seq(RowType)
  PROVE  \E n \in 0..Len(s) :
           /\ Trim(s) = SubSeq(s, Len(s) - n + 1, Len(s))
           /\ Len(s) > 0 /\ s[Len(s)].cost <= Budget => n > 0
<1> DEFINE N == Len(s)
           fits == {n \in 0..N : Total(SubSeq(s, N - n + 1, N)) <= Budget}
           kept == CHOOSE n \in fits : \A k \in fits : k <= n
<1>1. N \in Nat
  BY LenProperties
<1>2. 0 \in fits
  <2>1. N - 0 + 1 = N + 1 /\ 0 \in 0..N
    BY <1>1
  <2> HIDE DEF N
  <2>2. SubSeq(s, N + 1, N) = <<>>
    BY <1>1, SubSeqEmpty
  <2>3. Total(<<>>) <= Budget
    BY TotalIs
  <2> QED BY <2>1, <2>2, <2>3
<1>3. kept \in fits /\ \A k \in fits : k <= kept
  <2>1. fits \subseteq 0..N /\ fits # {}
    BY <1>2
  <2> HIDE DEF fits, N
  <2>2. \E n \in fits : \A k \in fits : k <= n
    BY <1>1, <2>1, Largest
  <2> QED BY <2>2
<1>4. Trim(s) = SubSeq(s, N - kept + 1, N)
  BY DEF Trim
<1>5. N > 0 /\ s[N].cost <= Budget => 1 \in fits
  <2> SUFFICES ASSUME N > 0, s[N].cost <= Budget PROVE 1 \in fits
    OBVIOUS
  <2>1. N - 1 + 1 = N /\ 1 \in 0..N /\ N \in 1..N
    BY <1>1
  <2>2. SubSeq(s, N, N) = <<s[N]>>
    <3>1. /\ Len(SubSeq(s, N, N)) = 1 /\ SubSeq(s, N, N)[1] = s[N]
          /\ SubSeq(s, N, N) \in Seq(RowType)
      <4>1. N - N + 1 = 1 /\ N + 1 - 1 = N /\ N <= N
        BY <1>1
      <4>2. \A i \in N..N : s[i] \in RowType
        BY <2>1, ElementOfSeq
      <4> HIDE DEF N
      <4>3. N \in Int /\ 1 \in 1..1 /\ \A q \in 1..1 : N + q - 1 = N
        BY <1>1
      <4>4. /\ SubSeq(s, N, N) \in Seq(RowType)
            /\ Len(SubSeq(s, N, N)) = (IF N <= N THEN N - N + 1 ELSE 0)
            /\ \A q \in 1..(N - N + 1) : SubSeq(s, N, N)[q] = s[N + q - 1]
        BY <4>2, <4>3, SubSeqProperties
      <4>5. SubSeq(s, N, N)[1] = s[N + 1 - 1]
        BY <4>1, <4>3, <4>4
      <4> QED BY <4>1, <4>4, <4>5
    <3>2. s[N] \in RowType
      BY <2>1, ElementOfSeq
    <3> HIDE DEF N
    <3> DEFINE t == <<s[N]>>
    <3>3. t \in Seq(RowType) /\ Len(t) = 1 /\ t[1] = s[N]
      BY <3>2
    <3>4. \A q \in 1..1 : SubSeq(s, N, N)[q] = t[q]
      BY <3>1, <3>3
    <3> HIDE DEF t
    <3>5. SubSeq(s, N, N) = t
      BY <3>1, <3>3, <3>4, SeqEqual
    <3> QED BY <3>5 DEF t
  <2>3. Total(<<s[N]>>) = s[N].cost
    BY <2>1, TotalIs, ElementOfSeq
  <2> QED BY <2>1, <2>2, <2>3
<1> HIDE DEF kept
<1>6. kept \in 0..N
  BY <1>3
<1>7. 1 \in fits => kept > 0
  BY <1>1, <1>3, <1>6
<1> HIDE DEF fits
<1> QED BY <1>4, <1>5, <1>6, <1>7

(***************************************************************************)
(* Tool exchanges                                                          *)
(***************************************************************************)

\* Two whole pieces of a conversation make a whole one.
LEMMA PairedConcat ==
  ASSUME NEW a \in Seq(RowType), NEW b \in Seq(RowType), Paired(a), Paired(b)
  PROVE  Paired(a \o b)
<1> DEFINE s == a \o b
           m == Len(a)
           n == Len(b)
<1>1. m \in Nat /\ n \in Nat /\ DOMAIN a = 1..m /\ DOMAIN b = 1..n
  BY LenProperties
<1>2. /\ DOMAIN s = 1..(m + n) /\ Len(s) = m + n
      /\ \A i \in 1..m : s[i] = a[i]
      /\ \A i \in 1..n : s[m + i] = b[i]
  <2>1. s \in Seq(RowType) /\ Len(s) = m + n
    BY ConcatProperties
  <2>2. DOMAIN s = 1..Len(s)
    BY <2>1, LenProperties
  <2>3. \A i \in 1..(m + n) : s[i] = IF i <= m THEN a[i] ELSE b[i - m]
    BY ConcatProperties
  <2> HIDE DEF s, m, n
  <2>4. \A i \in 1..n : m + i \in 1..(m + n) /\ ~(m + i <= m) /\ (m + i) - m = i
    BY <1>1
  <2>5. \A i \in 1..m : i \in 1..(m + n) /\ i <= m
    BY <1>1
  <2> QED BY <2>1, <2>2, <2>3, <2>4, <2>5
<1> SUFFICES ASSUME NEW i \in DOMAIN s
             PROVE  /\ s[i].role = "tool" => /\ i > 1
                                             /\ s[i - 1].role = "assistant"
                                             /\ s[i - 1].pair = s[i].pair
                    /\ s[i].role = "assistant" /\ s[i].pair # 0 =>
                         i < Len(s) /\ s[i + 1].role = "tool"
  BY DEF Paired
<1>3. CASE i <= m
  <2>1. i \in DOMAIN a /\ s[i] = a[i]
    BY <1>1, <1>2, <1>3
  <2>2. s[i].role = "tool" =>
          i > 1 /\ a[i - 1].role = "assistant" /\ a[i - 1].pair = a[i].pair
    BY <2>1 DEF Paired
  <2>3. i > 1 => s[i - 1] = a[i - 1]
    <3>1. i > 1 => i - 1 \in 1..m
      BY <1>1, <2>1
    <3> HIDE DEF s, m
    <3> QED BY <1>2, <3>1
  <2>4. s[i].role = "assistant" /\ s[i].pair # 0 => i < m /\ a[i + 1].role = "tool"
    BY <2>1 DEF Paired
  <2>5. i < m => s[i + 1] = a[i + 1] /\ i < m + n
    <3>1. i < m => i + 1 \in 1..m /\ i < m + n
      BY <1>1, <2>1
    <3> HIDE DEF s, m
    <3> QED BY <1>2, <3>1
  <2> HIDE DEF s, m, n
  <2> QED BY <1>2, <2>1, <2>2, <2>3, <2>4, <2>5
<1>4. CASE ~(i <= m)
  <2> DEFINE k == i - m
  <2>1. k \in 1..n /\ m + k = i
    BY <1>1, <1>2, <1>4
  <2>2. s[i] = b[k] /\ k \in DOMAIN b
    BY <1>1, <1>2, <2>1
  <2>3. s[i].role = "tool" =>
          k > 1 /\ b[k - 1].role = "assistant" /\ b[k - 1].pair = b[k].pair
    BY <2>2 DEF Paired
  <2>4. k > 1 => i > 1 /\ s[i - 1] = b[k - 1]
    <3>1. k > 1 => k - 1 \in 1..n /\ m + (k - 1) = i - 1 /\ i > 1
      BY <1>1, <2>1
    <3> HIDE DEF s, k, m, n
    <3> QED BY <1>2, <3>1
  <2>5. s[i].role = "assistant" /\ s[i].pair # 0 => k < n /\ b[k + 1].role = "tool"
    BY <2>2 DEF Paired
  <2>6. k < n => i < m + n /\ s[i + 1] = b[k + 1]
    <3>1. k < n => k + 1 \in 1..n /\ m + (k + 1) = i + 1 /\ i < m + n
      BY <1>1, <2>1
    <3> HIDE DEF s, k, m, n
    <3> QED BY <1>2, <3>1
  <2> HIDE DEF s, k, m, n
  <2> QED BY <1>2, <2>2, <2>3, <2>4, <2>5, <2>6
<1> QED BY <1>3, <1>4

\* The rows from the (n + 1)-th on.
LEMMA EndIs ==
  ASSUME NEW s \in Seq(RowType), NEW n \in 0..Len(s)
  PROVE  LET e == SubSeq(s, n + 1, Len(s)) IN
         /\ e \in Seq(RowType) /\ Len(e) = Len(s) - n /\ DOMAIN e = 1..Len(e)
         /\ \A i \in 1..Len(e) : n + i \in 1..Len(s) /\ e[i] = s[n + i]
<1> DEFINE N == Len(s)
           e == SubSeq(s, n + 1, N)
<1>1. N \in Nat /\ n \in Nat /\ n <= N
  BY LenProperties
<1>2. n + 1 \in Int /\ N \in Int /\ \A i \in (n + 1)..N : s[i] \in RowType
  <2>1. \A i \in (n + 1)..N : i \in 1..N
    BY <1>1
  <2> QED BY <1>1, <2>1, ElementOfSeq
<1>3. /\ e \in Seq(RowType)
      /\ Len(e) = (IF n + 1 <= N THEN N - (n + 1) + 1 ELSE 0)
      /\ \A i \in 1..(N - (n + 1) + 1) : e[i] = s[n + 1 + i - 1]
  BY <1>2, SubSeqProperties
<1>4. /\ (IF n + 1 <= N THEN N - (n + 1) + 1 ELSE 0) = N - n
      /\ N - (n + 1) + 1 = N - n
      /\ \A i \in 1..(N - n) : n + i \in 1..N /\ n + 1 + i - 1 = n + i
  <2> HIDE DEF N
  <2> QED BY <1>1
<1>5. DOMAIN e = 1..Len(e)
  BY <1>3, LenProperties
<1> HIDE DEF e, N
<1>6. /\ e \in Seq(RowType) /\ Len(e) = N - n /\ DOMAIN e = 1..Len(e)
      /\ \A i \in 1..Len(e) : n + i \in 1..N /\ e[i] = s[n + i]
  BY <1>3, <1>4, <1>5
<1> QED BY <1>6 DEF e, N

\* An end of a conversation that does not begin with a result.
LEMMA PairedEnd ==
  ASSUME NEW s \in Seq(RowType), NEW n \in 0..Len(s), Paired(s),
         0 < n /\ n < Len(s) => s[n + 1].role # "tool"
  PROVE  Paired(SubSeq(s, n + 1, Len(s)))
<1> DEFINE N == Len(s)
           e == SubSeq(s, n + 1, N)
<1>1. N \in Nat /\ n \in Nat /\ n <= N /\ DOMAIN s = 1..N
  BY LenProperties
<1>2. /\ Len(e) = N - n /\ DOMAIN e = 1..(N - n)
      /\ \A i \in 1..(N - n) : n + i \in 1..N /\ e[i] = s[n + i]
  BY EndIs
<1> HIDE DEF e, N
<1>3. \A i \in 1..N : /\ s[i].role = "tool" => /\ i > 1
                                               /\ s[i - 1].role = "assistant"
                                               /\ s[i - 1].pair = s[i].pair
                      /\ s[i].role = "assistant" /\ s[i].pair # 0 =>
                           i < N /\ s[i + 1].role = "tool"
  BY <1>1 DEF Paired, N
<1>4. ASSUME NEW i \in 1..(N - n)
      PROVE  /\ e[i].role = "tool" => /\ i > 1
                                      /\ e[i - 1].role = "assistant"
                                      /\ e[i - 1].pair = e[i].pair
             /\ e[i].role = "assistant" /\ e[i].pair # 0 =>
                  i < N - n /\ e[i + 1].role = "tool"
  <2>1. n + i \in 1..N /\ e[i] = s[n + i]
    BY <1>2
  <2>2. ASSUME e[i].role = "tool"
        PROVE  i > 1 /\ e[i - 1].role = "assistant" /\ e[i - 1].pair = e[i].pair
    <3>1. n + i > 1 /\ s[(n + i) - 1].role = "assistant" /\ s[(n + i) - 1].pair = s[n + i].pair
      BY <1>3, <2>1, <2>2
    <3>2. i # 1
      <4>1. i = 1 => 0 < n /\ n < N /\ s[n + 1].role = "tool"
        BY <1>1, <2>1, <2>2, <3>1
      <4> QED BY <4>1 DEF N
    <3>3. i - 1 \in 1..(N - n) /\ n + (i - 1) = (n + i) - 1 /\ i > 1
      BY <1>1, <3>2
    <3>4. e[i - 1] = s[(n + i) - 1]
      BY <1>2, <3>3
    <3> QED BY <2>1, <3>1, <3>3, <3>4
  <2>3. ASSUME e[i].role = "assistant", e[i].pair # 0
        PROVE  i < N - n /\ e[i + 1].role = "tool"
    <3>1. n + i < N /\ s[(n + i) + 1].role = "tool"
      BY <1>3, <2>1, <2>3
    <3>2. i + 1 \in 1..(N - n) /\ n + (i + 1) = (n + i) + 1 /\ i < N - n
      BY <1>1, <3>1
    <3>3. e[i + 1] = s[(n + i) + 1]
      BY <1>2, <3>2
    <3> QED BY <3>1, <3>2, <3>3
  <2> QED BY <2>2, <2>3
<1>5. Paired(e)
  BY <1>2, <1>4 DEF Paired
<1> QED BY <1>5 DEF e, N

\* What a turn adds is whole, because chat_loop answers its calls.
LEMMA ReplyRowsAre ==
  ASSUME reply \in Replies, NEW n \in Nat, n > 0
  PROVE  /\ ReplyRows(n) \in Seq(RowType) /\ Len(ReplyRows(n)) = Len(reply)
         /\ \A i \in 1..Len(reply) : ReplyRows(n)[i].id = n + i - 1
         /\ Paired(ReplyRows(n))
<1> DEFINE s == ReplyRows(n)
           N == Len(reply)
<1>1. reply \in Seq(Steps) /\ N \in Nat /\ DOMAIN reply = 1..N
  BY LenProperties
<1>2. s = [i \in 1..N |->
             CASE reply[i] = "call"         -> Row(n + i - 1, "assistant", n + i - 1, {})
               [] reply[i] = "result"       -> Row(n + i - 1, "tool", n + i - 1 - 1, {})
               [] reply[i] = "answer"       -> Row(n + i - 1, "assistant", 0, {})
               [] reply[i] = "interjection" -> Row(n + i - 1, "user", 0, {})]
  BY <1>1 DEF ReplyRows
<1> HIDE DEF s, N
<1>3. ASSUME NEW i \in 1..N
      PROVE  /\ s[i] \in RowType /\ s[i].id = n + i - 1
             /\ s[i].role = "tool" => reply[i] = "result" /\ s[i].pair = n + i - 1 - 1
             /\ s[i].role = "assistant" /\ s[i].pair # 0 => reply[i] = "call"
             /\ reply[i] = "call" => s[i].role = "assistant" /\ s[i].pair = n + i - 1
             /\ reply[i] = "result" => s[i].role = "tool"
  <2>1. reply[i] \in Steps
    BY <1>1, ElementOfSeq DEF N
  <2>2. n + i - 1 \in Nat /\ n + i - 1 - 1 \in Int
    BY <1>1
  <2>3. n + i - 1 - 1 \in Nat
    BY <1>1
  <2>4. s[i] = CASE reply[i] = "call"        -> Row(n + i - 1, "assistant", n + i - 1, {})
                 [] reply[i] = "result"       -> Row(n + i - 1, "tool", n + i - 1 - 1, {})
                 [] reply[i] = "answer"       -> Row(n + i - 1, "assistant", 0, {})
                 [] reply[i] = "interjection" -> Row(n + i - 1, "user", 0, {})
    BY <1>2
  <2>5. CASE reply[i] = "call"
    BY <2>2, <2>4, <2>5 DEF Row, RowType, Roles
  <2>6. CASE reply[i] = "result"
    BY <2>2, <2>3, <2>4, <2>6 DEF Row, RowType, Roles
  <2>7. CASE reply[i] = "answer"
    BY <2>2, <2>4, <2>7 DEF Row, RowType, Roles
  <2>8. CASE reply[i] = "interjection"
    BY <2>2, <2>4, <2>8 DEF Row, RowType, Roles
  <2> QED BY <2>1, <2>5, <2>6, <2>7, <2>8 DEF Steps
<1>4. s \in Seq(RowType) /\ Len(s) = N /\ DOMAIN s = 1..N
  <2>1. s \in [1..N -> RowType]
    BY <1>2, <1>3
  <2> QED BY <1>1, <2>1
<1>5. \A i \in 1..N : /\ reply[i] = "call" => i < N /\ reply[i + 1] = "result"
                      /\ reply[i] = "result" => i > 1 /\ reply[i - 1] = "call"
  BY <1>1, RepliesAssumption DEF N
<1>6. ASSUME NEW i \in 1..N
      PROVE  /\ s[i].role = "tool" => /\ i > 1
                                      /\ s[i - 1].role = "assistant"
                                      /\ s[i - 1].pair = s[i].pair
             /\ s[i].role = "assistant" /\ s[i].pair # 0 =>
                  i < N /\ s[i + 1].role = "tool"
  <2>1. ASSUME s[i].role = "tool"
        PROVE  i > 1 /\ s[i - 1].role = "assistant" /\ s[i - 1].pair = s[i].pair
    <3>1. i > 1 /\ reply[i - 1] = "call" /\ s[i].pair = n + i - 1 - 1
      BY <1>3, <1>5, <2>1
    <3>2. i - 1 \in 1..N /\ n + (i - 1) - 1 = n + i - 1 - 1
      BY <1>1, <3>1
    <3>3. s[i - 1].role = "assistant" /\ s[i - 1].pair = n + (i - 1) - 1
      BY <1>3, <3>1, <3>2
    <3> QED BY <3>1, <3>2, <3>3
  <2>2. ASSUME s[i].role = "assistant", s[i].pair # 0
        PROVE  i < N /\ s[i + 1].role = "tool"
    <3>1. i < N /\ reply[i + 1] = "result"
      BY <1>3, <1>5, <2>2
    <3>2. i + 1 \in 1..N
      BY <1>1, <3>1
    <3> QED BY <1>3, <3>1, <3>2
  <2> QED BY <2>1, <2>2
<1>7. Paired(s)
  BY <1>4, <1>6 DEF Paired
<1> QED BY <1>3, <1>4, <1>7 DEF s, N

(***************************************************************************)
(* The inductive invariant                                                 *)
(***************************************************************************)

\* Rows are numbered as they are written.
Numbered ==
  /\ nextId > 0
  /\ \A i \in 1..Len(rows) : rows[i].id < nextId
  /\ \A i, j \in 1..Len(rows) : i < j => rows[i].id < rows[j].id

\* The message of a turn is the last row until the turn is over.
UserIsLast ==
  pc # "idle" => /\ Len(rows) > 0
                 /\ rows[Len(rows)].id = userId /\ rows[Len(rows)].role = "user"

\* A turn that compacts sees the table as it is, and what it is going to
\* delete are the first rows of it, up to a user's message; all of them are
\* covered by the summary but earlier summaries.
AllIds == [i \in 1..Len(rows) |-> rows[i].id]

OldAreCovered ==
  /\ pc = "compact" => messages = rows /\ historyIds = AllIds /\ oldRemoved = 0
  /\ pc # "idle" /\ oldRemoved > 0 =>
       /\ historyIds = AllIds
       /\ oldRemoved < Len(rows) /\ rows[oldRemoved + 1].role = "user"
       /\ \A i \in 1..oldRemoved : rows[i].role # "system" => rows[i].id \in summary

ReplyIsOne == pc \in {"send", "persist"} => reply \in Replies

ConvInv ==
  /\ TypeOK /\ RowsPaired /\ LogsHaveMessage
  /\ Numbered /\ UserIsLast /\ OldAreCovered /\ ReplyIsOne

LEMMA RowsAre ==
  ASSUME rows \in Seq(RowType)
  PROVE  /\ Len(rows) \in Nat /\ DOMAIN rows = 1..Len(rows)
         /\ \A i \in 1..Len(rows) :
              /\ rows[i] \in RowType /\ rows[i].id \in Nat
              /\ rows[i].role \in Roles /\ rows[i].covers \subseteq Nat
<1>1. \A i \in 1..Len(rows) : rows[i] \in RowType
  BY ElementOfSeq
<1> QED BY <1>1, LenProperties DEF RowType

\* The rows with the ones that are written behind them.
LEMMA IdsOfConcat ==
  ASSUME NEW a \in Seq(RowType), NEW b \in Seq(RowType)
  PROVE  Ids(a \o b) = Ids(a) \cup Ids(b)
<1> DEFINE s == a \o b
           m == Len(a)
           n == Len(b)
<1>1. m \in Nat /\ n \in Nat /\ DOMAIN a = 1..m /\ DOMAIN b = 1..n
  BY LenProperties
<1>2. s \in Seq(RowType) /\ Len(s) = m + n /\ DOMAIN s = 1..Len(s)
  BY ConcatProperties, LenProperties
<1>3. \A i \in 1..(m + n) : s[i] = IF i <= m THEN a[i] ELSE b[i - m]
  BY ConcatProperties
<1> HIDE DEF s, m, n
<1>4. ASSUME NEW i \in 1..(m + n) PROVE s[i].id \in Ids(a) \cup Ids(b)
  <2>1. CASE i <= m
    <3>1. i \in 1..m
      BY <1>1, <2>1
    <3> QED BY <1>1, <1>3, <2>1, <3>1 DEF Ids
  <2>2. CASE ~(i <= m)
    <3>1. i - m \in 1..n
      BY <1>1, <2>2
    <3> QED BY <1>1, <1>3, <2>2, <3>1 DEF Ids
  <2> QED BY <2>1, <2>2
<1>5. ASSUME NEW i \in 1..m PROVE a[i].id \in Ids(s)
  <2>1. i \in 1..(m + n) /\ i <= m
    BY <1>1
  <2> QED BY <1>2, <1>3, <2>1 DEF Ids
<1>6. ASSUME NEW i \in 1..n PROVE b[i].id \in Ids(s)
  <2>1. m + i \in 1..(m + n) /\ ~(m + i <= m) /\ (m + i) - m = i
    BY <1>1
  <2> QED BY <1>2, <1>3, <2>1 DEF Ids
<1>7. Ids(s) = Ids(a) \cup Ids(b)
  BY <1>1, <1>2, <1>4, <1>5, <1>6 DEF Ids
<1> QED BY <1>7 DEF s

\* Rows with new numbers behind the rows that are kept.
LEMMA NumberedConcat ==
  ASSUME NEW a \in Seq(RowType), NEW b \in Seq(RowType), NEW next \in Nat,
         \A i \in 1..Len(a) : a[i].id < next,
         \A i, j \in 1..Len(a) : i < j => a[i].id < a[j].id,
         \A i \in 1..Len(b) : b[i].id = next + i - 1
  PROVE  /\ \A i \in 1..Len(a \o b) : (a \o b)[i].id < next + Len(b)
         /\ \A i, j \in 1..Len(a \o b) : i < j => (a \o b)[i].id < (a \o b)[j].id
<1> DEFINE s == a \o b
           m == Len(a)
           n == Len(b)
<1>1. m \in Nat /\ n \in Nat
  BY LenProperties
<1>2. Len(s) = m + n /\ \A i \in 1..(m + n) : s[i] = IF i <= m THEN a[i] ELSE b[i - m]
  BY ConcatProperties
<1>3. \A i \in 1..m : a[i].id \in Nat
  <2>1. \A i \in 1..m : a[i] \in RowType
    BY ElementOfSeq
  <2> QED BY <2>1 DEF RowType
<1>4. /\ \A i \in 1..m : a[i].id < next
      /\ \A i, j \in 1..m : i < j => a[i].id < a[j].id
      /\ \A i \in 1..n : b[i].id = next + i - 1
  OBVIOUS
<1> HIDE DEF s, m, n
<1>5. ASSUME NEW i \in 1..(m + n)
      PROVE  /\ s[i].id \in Nat /\ s[i].id < next + n
             /\ i <= m => s[i].id = a[i].id /\ s[i].id < next
             /\ ~(i <= m) => s[i].id = next + (i - m) - 1
  <2>1. CASE i <= m
    <3>1. i \in 1..m
      BY <1>1, <2>1
    <3>2. s[i].id = a[i].id /\ a[i].id \in Nat /\ a[i].id < next
      BY <1>2, <1>3, <1>4, <2>1, <3>1
    <3>3. \A x \in Nat : x < next => x < next + n
      BY <1>1
    <3> QED BY <2>1, <3>2, <3>3
  <2>2. CASE ~(i <= m)
    <3>1. i - m \in 1..n
      BY <1>1, <2>2
    <3>2. s[i].id = next + (i - m) - 1
      BY <1>2, <1>4, <2>2, <3>1
    <3>3. \A k \in 1..n : next + k - 1 \in Nat /\ next + k - 1 < next + n
      BY <1>1
    <3> QED BY <2>2, <3>1, <3>2, <3>3
  <2> QED BY <2>1, <2>2
<1>6. ASSUME NEW i \in 1..(m + n), NEW j \in 1..(m + n), i < j
      PROVE  s[i].id < s[j].id
  <2>1. CASE j <= m
    <3>1. i \in 1..m /\ j \in 1..m /\ i <= m
      BY <1>1, <1>6, <2>1
    <3> QED BY <1>4, <1>5, <1>6, <2>1, <3>1
  <2>2. CASE i <= m /\ ~(j <= m)
    <3>1. s[i].id \in Nat /\ s[i].id < next /\ s[j].id = next + (j - m) - 1
      BY <1>5, <2>2
    <3>2. j - m \in Nat /\ j - m >= 1
      BY <1>1, <2>2
    <3>3. \A x, k \in Nat : x < next /\ k >= 1 => x < next + k - 1
      OBVIOUS
    <3> QED BY <3>1, <3>2, <3>3
  <2>3. CASE ~(i <= m)
    <3>1. ~(j <= m)
      BY <1>1, <1>6, <2>3
    <3>2. s[i].id = next + (i - m) - 1 /\ s[j].id = next + (j - m) - 1
      BY <1>5, <2>3, <3>1
    <3>3. next + (i - m) - 1 < next + (j - m) - 1
      BY <1>1, <1>6
    <3> QED BY <3>2, <3>3
  <2> QED BY <2>1, <2>2, <2>3
<1>7. /\ \A i \in 1..Len(s) : s[i].id < next + n
      /\ \A i, j \in 1..Len(s) : i < j => s[i].id < s[j].id
  BY <1>2, <1>5, <1>6
<1> QED BY <1>7 DEF s, n

LEMMA InitConv == Init => ConvInv
<1> SUFFICES ASSUME Init PROVE ConvInv
  OBVIOUS
<1>1. Len(<<>>) = 0 /\ DOMAIN <<>> = {} /\ 1..0 = {}
  OBVIOUS
<1>2. \A S : <<>> \in Seq(S)
  BY EmptySeq
<1>3. TypeOK
  BY <1>1, <1>2 DEF Init, TypeOK
<1>4. RowsPaired /\ LogsHaveMessage
  BY <1>1 DEF Init, RowsPaired, Paired, LogsHaveMessage, Ids
<1>5. Numbered /\ UserIsLast /\ OldAreCovered /\ ReplyIsOne
  BY <1>1 DEF Init, Numbered, UserIsLast, OldAreCovered, ReplyIsOne
<1> QED BY <1>3, <1>4, <1>5 DEF ConvInv

\* The commands that clear the conversation run between turns.
LEMMA ResetStep == ConvInv /\ Reset => ConvInv'
<1> SUFFICES ASSUME ConvInv, Reset PROVE ConvInv'
  OBVIOUS
<1>1. Len(<<>>) = 0 /\ DOMAIN <<>> = {} /\ 1..0 = {}
  OBVIOUS
<1>2. <<>> \in Seq(RowType)
  BY EmptySeq
<1>3. TypeOK'
  BY <1>2 DEF ConvInv, TypeOK, Reset
<1>4. RowsPaired' /\ LogsHaveMessage'
  BY <1>1 DEF Reset, RowsPaired, Paired, LogsHaveMessage, Ids
<1>5. Numbered' /\ UserIsLast' /\ OldAreCovered' /\ ReplyIsOne'
  BY <1>1 DEF ConvInv, Reset, Numbered, UserIsLast, OldAreCovered, ReplyIsOne
<1> QED BY <1>3, <1>4, <1>5 DEF ConvInv

LEMMA TrimType ==
  ASSUME NEW s \in Seq(RowType)
  PROVE  Trim(s) \in Seq(RowType)
<1>1. PICK n \in 0..Len(s) : Trim(s) = SubSeq(s, Len(s) - n + 1, Len(s))
  BY TrimIs
<1>2. Len(s) \in Nat
  BY LenProperties
<1>3. Len(s) - n \in 0..Len(s)
  BY <1>2
<1> DEFINE k == Len(s) - n
<1> HIDE DEF k
<1>4. SubSeq(s, k + 1, Len(s)) \in Seq(RowType)
  BY <1>3, EndIs DEF k
<1> QED BY <1>1, <1>4 DEF k

\* The rows and a user's message behind them.
LEMMA GrownIs ==
  ASSUME NEW s \in Seq(RowType), NEW m \in RowType, Paired(s),
         m.role = "user"
  PROVE  LET h == Append(s, m) IN
         /\ h \in Seq(RowType) /\ Paired(h)
         /\ Len(h) = Len(s) + 1 /\ DOMAIN h = 1..Len(h)
         /\ h[Len(h)] = m /\ \A i \in 1..Len(s) : h[i] = s[i]
         /\ Ids(h) = Ids(s) \cup {m.id}
<1> DEFINE h == Append(s, m)
           N == Len(s)
<1>1. N \in Nat
  BY LenProperties
<1>2. h = s \o <<m>> /\ <<m>> \in Seq(RowType) /\ DOMAIN <<m>> = {1} /\ <<m>>[1] = m
  BY AppendIsConcat
<1>3. h \in Seq(RowType) /\ Len(h) = N + 1 /\ DOMAIN h = 1..Len(h)
  BY LenProperties, AppendProperties
<1>4. h[N + 1] = m /\ \A i \in 1..N : h[i] = s[i]
  BY AppendProperties
<1>5. Paired(<<m>>)
  BY <1>2 DEF Paired
<1>6. Paired(h)
  BY <1>2, <1>5, PairedConcat
<1>7. Ids(<<m>>) = {m.id}
  BY <1>2 DEF Ids
<1>8. Ids(h) = Ids(s) \cup {m.id}
  BY <1>2, <1>7, IdsOfConcat
<1> HIDE DEF h, N
<1>9. /\ h \in Seq(RowType) /\ Paired(h) /\ Len(h) = N + 1 /\ DOMAIN h = 1..Len(h)
      /\ h[Len(h)] = m /\ \A i \in 1..N : h[i] = s[i]
      /\ Ids(h) = Ids(s) \cup {m.id}
  BY <1>3, <1>4, <1>6, <1>8
<1> QED BY <1>9 DEF h, N

LEMMA UserRowIs ==
  ASSUME NEW id \in Nat, NEW cost \in UserCosts
  PROVE  LET m == UserRow(id, cost) IN
         m \in RowType /\ m.role = "user" /\ m.id = id /\ m.cost = cost
<1> DEFINE r == Row(id, "user", 0, {})
           m == UserRow(id, cost)
<1>1. r \in RowType /\ r.role = "user" /\ r.id = id
  BY DEF Row, RowType, Roles
<1>2. cost \in Nat
  BY CostsAssumption
<1>3. m = [r EXCEPT !.cost = cost]
  BY DEF UserRow
<1> HIDE DEF r, m
<1>4. m \in RowType /\ m.role = "user" /\ m.id = id /\ m.cost = cost
  BY <1>1, <1>2, <1>3 DEF RowType
<1> QED BY <1>4 DEF m

\* A turn begins with its message in the table.
LEMMA LoadStep == ConvInv /\ Load => ConvInv'
<1> SUFFICES ASSUME ConvInv, Load PROVE ConvInv'
  OBVIOUS
<1>0. PICK cost \in UserCosts :
        LET history == Append(rows, UserRow(nextId, cost)) IN
        /\ rows' = history
        /\ \/ /\ pc' = "compact" /\ messages' = history
              /\ historyIds' = [i \in DOMAIN history |-> history[i].id]
           \/ pc' = "chat" /\ messages' = Trim(history) /\ historyIds' = <<>>
  BY DEF Load
<1> DEFINE m == UserRow(nextId, cost)
           h == Append(rows, m)
<1>1. rows \in Seq(RowType) /\ nextId \in Nat /\ nextId > 0 /\ Paired(rows)
  BY DEF ConvInv, TypeOK, Numbered, RowsPaired
<1>2. m \in RowType /\ m.role = "user" /\ m.id = nextId
  BY <1>1, UserRowIs
<1>3. /\ pc = "idle" /\ rows' = h
      /\ userId' = nextId /\ oldRemoved' = 0 /\ summary' = {} /\ reply' = <<>>
      /\ nextId' = nextId + 1 /\ stored' = stored \cup {nextId} /\ logs' = logs
      /\ \/ pc' = "compact" /\ messages' = h /\ historyIds' = [i \in DOMAIN h |-> h[i].id]
         \/ pc' = "chat" /\ messages' = Trim(h) /\ historyIds' = <<>>
  BY <1>0 DEF Load, FreshTurn
<1>4. /\ h \in Seq(RowType) /\ Paired(h)
      /\ Len(h) = Len(rows) + 1 /\ DOMAIN h = 1..Len(h)
      /\ h[Len(h)] = m /\ \A i \in 1..Len(rows) : h[i] = rows[i]
      /\ Ids(h) = Ids(rows) \cup {m.id}
  <2> HIDE DEF m
  <2> QED BY <1>1, <1>2, GrownIs
<1>5. Len(rows) \in Nat
  BY <1>1, LenProperties
<1> HIDE DEF h, m
<1>6. TypeOK'
  <2>1. \A i \in 1..Len(h) : h[i].id \in Nat
    <3>1. \A i \in 1..Len(h) : h[i] \in RowType
      BY <1>4, ElementOfSeq
    <3> QED BY <3>1 DEF RowType
  <2>2. Len(h) \in Nat
    BY <1>4, LenProperties
  <2>3. historyIds' \in Seq(Nat)
    <3>1. <<>> \in Seq(Nat)
      BY EmptySeq
    <3>2. [i \in 1..Len(h) |-> h[i].id] \in Seq(Nat)
      BY <2>1, <2>2
    <3> QED BY <1>3, <1>4, <3>1, <3>2
  <2>4. messages' \in Seq(RowType)
    BY <1>3, <1>4, TrimType
  <2>5. 0 \in 0..Len(historyIds')
    <3>1. Len(historyIds') \in Nat
      BY <2>3, LenProperties
    <3> QED BY <3>1
  <2>6. rows' \in Seq(RowType) /\ nextId' \in Nat /\ pc' \in {"compact", "chat"}
        /\ reply' \in Seq(Steps) /\ userId' \in Nat
    BY <1>1, <1>3, <1>4, EmptySeq
  <2>7. logs' \subseteq Nat /\ stored' \subseteq Nat /\ summary' \subseteq Nat
    BY <1>1, <1>3 DEF ConvInv, TypeOK
  <2> QED BY <1>3, <2>3, <2>4, <2>5, <2>6, <2>7 DEF TypeOK
<1>7. RowsPaired' /\ LogsHaveMessage'
  <2>1. logs \subseteq Ids(rows)
    BY DEF ConvInv, LogsHaveMessage
  <2>2. Ids(rows)' = Ids(rows')
    BY DEF Ids
  <2>3. Paired(rows)' = Paired(rows')
    BY DEF Paired
  <2> QED BY <1>2, <1>3, <1>4, <2>1, <2>2, <2>3 DEF RowsPaired, LogsHaveMessage
<1>8. Numbered'
  <2>1. /\ \A i \in 1..Len(rows) : rows[i].id < nextId /\ rows[i].id \in Nat
        /\ \A i, j \in 1..Len(rows) : i < j => rows[i].id < rows[j].id
    BY <1>1, RowsAre DEF ConvInv, Numbered
  <2> DEFINE N == Len(rows)
  <2>2. Len(h) = N + 1 /\ N \in Nat /\ h[N + 1].id = nextId
    BY <1>2, <1>4, <1>5
  <2>3. \A i \in 1..N : h[i].id < nextId /\ h[i].id \in Nat /\ h[i].id < nextId + 1
    <3>1. \A x \in Nat : x < nextId => x < nextId + 1
      BY <1>1
    <3> QED BY <1>4, <2>1, <3>1
  <2>4. \A i, j \in 1..N : i < j => h[i].id < h[j].id
    BY <1>4, <2>1
  <2> HIDE DEF N
  <2>5. \A i \in 1..(N + 1) : i \in 1..N \/ i = N + 1
    BY <2>2
  <2>6. \A i \in 1..Len(h) : h[i].id < nextId + 1
    BY <1>1, <2>2, <2>3, <2>5
  <2>7. ASSUME NEW i \in 1..Len(h), NEW j \in 1..Len(h), i < j
        PROVE  h[i].id < h[j].id
    <3>1. i \in 1..N
      BY <2>2, <2>7
    <3> QED BY <2>2, <2>3, <2>4, <2>5, <2>7, <3>1
  <2> QED BY <1>1, <1>3, <2>6, <2>7 DEF Numbered
<1>9. UserIsLast'
  <2>1. Len(h) > 0
    BY <1>4, <1>5
  <2> QED BY <1>2, <1>3, <1>4, <2>1 DEF UserIsLast
<1>10. OldAreCovered' /\ ReplyIsOne'
  BY <1>3, <1>4 DEF OldAreCovered, AllIds, ReplyIsOne
<1> QED BY <1>6, <1>7, <1>8, <1>9, <1>10 DEF ConvInv

\* The boundary lies before a user's message, if there is one behind it.
LEMMA SplitIs ==
  ASSUME NEW s \in Seq(RowType), Len(s) > KeepRecent, s[Len(s)].role = "user"
  PROVE  Split(s) \in 1..(Len(s) - 1) /\ s[Split(s) + 1].role = "user"
<1> DEFINE N == Len(s)
           from == N - KeepRecent
           fresh == {n \in from..(N - 1) : IsFresh(s[n + 1])}
<1>1. N \in Nat /\ N > KeepRecent /\ KeepRecent \in Nat \ {0}
  BY LenProperties
<1>2. N - 1 \in fresh
  <2>1. N - 1 \in from..(N - 1) /\ (N - 1) + 1 = N
    BY <1>1
  <2> QED BY <2>1 DEF IsFresh
<1>3. Split(s) = CHOOSE n \in fresh : \A k \in fresh : n <= k
  BY <1>2 DEF Split
<1>4. \E n \in fresh : \A k \in fresh : n <= k
  <2>1. fresh \subseteq Nat
    BY <1>1
  <2> HIDE DEF fresh
  <2> QED BY <1>2, <2>1, Least
<1>5. Split(s) \in fresh
  <2> HIDE DEF fresh
  <2> QED BY <1>3, <1>4
<1> DEFINE k == Split(s)
<1>6. k \in from..(N - 1) /\ IsFresh(s[k + 1])
  BY <1>5
<1> HIDE DEF k, N
<1>7. k \in 1..(N - 1)
  BY <1>1, <1>6
<1> QED BY <1>6, <1>7 DEF k, N, IsFresh

LEMMA CompactStep ==
  ConvInv /\ (Compact \/ NothingToCompact) => ConvInv'
<1> SUFFICES ASSUME ConvInv, Compact \/ NothingToCompact PROVE ConvInv'
  OBVIOUS
<1>1. /\ TypeOK /\ pc = "compact" /\ pc' = "chat"
      /\ messages = rows /\ historyIds = AllIds /\ oldRemoved = 0
      /\ UNCHANGED <<rows, logs, nextId, userId, historyIds, reply, stored>>
  BY DEF ConvInv, OldAreCovered, Compact, NothingToCompact
<1>2. /\ rows \in Seq(RowType) /\ Len(rows) \in Nat /\ DOMAIN rows = 1..Len(rows)
      /\ \A i \in 1..Len(rows) : rows[i] \in RowType /\ rows[i].id \in Nat
  BY <1>1, RowsAre DEF TypeOK
<1>3. rows[Len(rows)].role = "user"
  BY <1>1 DEF ConvInv, UserIsLast
<1>4. RowsPaired' /\ Numbered' /\ UserIsLast' /\ ReplyIsOne' /\ LogsHaveMessage'
  BY <1>1 DEF ConvInv, RowsPaired, Paired, Numbered, UserIsLast, ReplyIsOne,
              LogsHaveMessage, Ids
<1>5. CASE NothingToCompact
  <2>1. messages' \in Seq(RowType) /\ UNCHANGED <<oldRemoved, summary>>
    BY <1>1, <1>2, <1>5, TrimType DEF NothingToCompact
  <2>2. TypeOK'
    BY <1>1, <2>1 DEF TypeOK
  <2>3. OldAreCovered'
    BY <1>1, <2>1 DEF OldAreCovered
  <2> QED BY <1>4, <2>2, <2>3 DEF ConvInv
<1>6. CASE Compact
  <2> DEFINE n == Split(rows)
  <2>1. /\ Len(rows) > KeepRecent /\ oldRemoved' = n
        /\ summary' = Summarised(SubSeq(rows, 1, n))
        /\ messages' = Trim(<<SummaryMessage(summary')>> \o SubSeq(rows, n + 1, Len(rows)))
    BY <1>1, <1>6 DEF Compact
  <2>2. n \in 1..(Len(rows) - 1) /\ rows[n + 1].role = "user"
    BY <1>2, <1>3, <2>1, SplitIs
  <2> HIDE DEF n
  <2> DEFINE N == Len(rows)
             o == SubSeq(rows, 1, n)
  <2>3. n \in Nat /\ n < N /\ n > 0 /\ n \in 0..N /\ \A i \in 1..n : i \in 1..N
    BY <1>2, <2>2
  <2>4. /\ Len(o) = n /\ DOMAIN o = 1..n
        /\ \A i \in 1..n : o[i] = rows[i]
    <3>1. \A i \in 1..n : rows[i] \in RowType
      BY <1>2, <2>3
    <3>2. n - 1 + 1 = n /\ 1 <= n /\ \A i \in 1..n : 1 + i - 1 = i
      BY <2>3
    <3>3. /\ o \in Seq(RowType) /\ Len(o) = (IF 1 <= n THEN n - 1 + 1 ELSE 0)
          /\ \A i \in 1..(n - 1 + 1) : o[i] = rows[1 + i - 1]
      <4>1. n \in Int /\ 1 \in Int
        BY <2>3
      <4> QED BY <3>1, <4>1, SubSeqProperties
    <3>4. DOMAIN o = 1..Len(o)
      BY <3>3, LenProperties
    <3> HIDE DEF o
    <3> QED BY <3>2, <3>3, <3>4
  <2>5. summary' = {rows[i].id : i \in {k \in 1..n : rows[k].role # "system"}}
    <3>1. summary' = Summarised(o)
      BY <2>1
    <3> HIDE DEF o
    <3>2. {k \in DOMAIN o : o[k].role # "system"} = {k \in 1..n : rows[k].role # "system"}
      BY <2>4
    <3>3. \A k \in {i \in 1..n : rows[i].role # "system"} : o[k].id = rows[k].id
      BY <2>4
    <3> QED BY <3>1, <3>2, <3>3 DEF Summarised
  <2>6. summary' \subseteq Nat
    BY <1>2, <2>3, <2>5
  <2>7. messages' \in Seq(RowType)
    <3> DEFINE e == SubSeq(rows, n + 1, N)
               m == SummaryMessage(summary')
    <3>1. m \in RowType
      BY <2>6 DEF SummaryMessage, Row, RowType, Roles
    <3>2. e \in Seq(RowType)
      BY <1>2, <2>3, EndIs
    <3>3. messages' = Trim(<<m>> \o e)
      BY <2>1
    <3> HIDE DEF e, m
    <3>4. <<m>> \o e \in Seq(RowType)
      <4>1. <<m>> \in Seq(RowType)
        BY <3>1
      <4> QED BY <3>2, <4>1, ConcatProperties
    <3> QED BY <3>3, <3>4, TrimType
  <2>8. TypeOK'
    <3>1. Len(historyIds) = N /\ historyIds \in Seq(Nat)
      <4>1. historyIds = [i \in 1..N |-> rows[i].id]
        BY <1>1 DEF AllIds
      <4> QED BY <1>2, <4>1
    <3> HIDE DEF N
    <3>2. oldRemoved' \in 0..Len(historyIds)'
      BY <1>1, <2>1, <2>3, <3>1 DEF n
    <3> QED BY <1>1, <2>6, <2>7, <3>2 DEF TypeOK
  <2>9. OldAreCovered'
    <3>1. \A i \in 1..n : rows[i].role # "system" => rows[i].id \in summary'
      BY <2>5
    <3>2. AllIds' = AllIds
      BY <1>1 DEF AllIds
    <3> QED BY <1>1, <2>1, <2>2, <2>3, <3>1, <3>2 DEF OldAreCovered, n
  <2> QED BY <1>4, <2>8, <2>9 DEF ConvInv
<1> QED BY <1>5, <1>6

LEMMA TalkStep == ConvInv /\ (Chat \/ Sent \/ Abort) => ConvInv'
<1> SUFFICES ASSUME ConvInv, Chat \/ Sent \/ Abort PROVE ConvInv'
  OBVIOUS
<1>1. /\ pc # "idle" /\ pc' \in {"send", "persist", "idle"}
      /\ UNCHANGED <<rows, logs, nextId, userId, historyIds, oldRemoved, summary, stored>>
      /\ messages' \in {messages, <<>>}
      /\ pc' # "idle" => pc \in {"chat", "send"}
      /\ \/ reply' \in Replies
         \/ reply' = reply /\ (pc' = "idle" \/ pc = "send")
  BY DEF Chat, Sent, Abort
<1>2. reply' \in Seq(Steps) /\ messages' \in Seq(RowType)
  BY <1>1, EmptySeq DEF ConvInv, TypeOK
<1>3. TypeOK'
  BY <1>1, <1>2 DEF ConvInv, TypeOK
<1>4. RowsPaired' /\ Numbered' /\ UserIsLast' /\ LogsHaveMessage'
  BY <1>1 DEF ConvInv, RowsPaired, Paired, Numbered, UserIsLast, LogsHaveMessage, Ids
<1>5. OldAreCovered' /\ ReplyIsOne'
  BY <1>1 DEF ConvInv, OldAreCovered, AllIds, ReplyIsOne
<1> QED BY <1>3, <1>4, <1>5 DEF ConvInv

\* What the transaction at the end of a turn deletes, keeps and writes.
Doomed == {historyIds[i] : i \in 1..oldRemoved}

Written ==
  IF oldRemoved = 0 THEN ReplyRows(nextId)
  ELSE <<Row(nextId, "system", 0, summary)>> \o ReplyRows(nextId + 1)

LEMMA DoomedAre ==
  ASSUME ConvInv, pc = "persist"
  PROVE  /\ Doomed = {rows[i].id : i \in 1..oldRemoved}
         /\ oldRemoved \in Nat /\ oldRemoved < Len(rows)
         /\ oldRemoved > 0 => rows[oldRemoved + 1].role = "user"
         /\ Keep(rows, Doomed) = SubSeq(rows, oldRemoved + 1, Len(rows))
<1>1. /\ rows \in Seq(RowType) /\ Len(rows) \in Nat
      /\ \A i \in 1..Len(rows) : rows[i].id \in Nat
  BY RowsAre DEF ConvInv, TypeOK
<1>2. oldRemoved \in Nat
  <2>1. historyIds \in Seq(Nat) /\ oldRemoved \in 0..Len(historyIds)
    BY DEF ConvInv, TypeOK
  <2>2. Len(historyIds) \in Nat
    BY <2>1, LenProperties
  <2> QED BY <2>1, <2>2
<1>3. oldRemoved < Len(rows) /\ (oldRemoved > 0 => rows[oldRemoved + 1].role = "user")
  BY <1>1, <1>2 DEF ConvInv, UserIsLast, OldAreCovered
<1>4. \A i \in 1..oldRemoved : i \in 1..Len(rows) /\ historyIds[i] = rows[i].id
  <2>1. \A i \in 1..oldRemoved : i \in 1..Len(rows) /\ oldRemoved > 0
    BY <1>1, <1>2, <1>3
  <2>2. oldRemoved > 0 => historyIds = AllIds
    BY DEF ConvInv, OldAreCovered
  <2> QED BY <2>1, <2>2 DEF AllIds
<1>5. Doomed = {rows[i].id : i \in 1..oldRemoved}
  BY <1>4 DEF Doomed
<1>6. \A i \in (oldRemoved + 1)..Len(rows) : rows[i].id \notin Doomed
  <2> SUFFICES ASSUME NEW i \in (oldRemoved + 1)..Len(rows), NEW k \in 1..oldRemoved,
                      rows[i].id = rows[k].id
               PROVE  FALSE
    BY <1>5
  <2>1. i \in 1..Len(rows) /\ k \in 1..Len(rows) /\ k < i
    BY <1>1, <1>2, <1>4
  <2>2. rows[k].id < rows[i].id
    BY <2>1 DEF ConvInv, Numbered
  <2>3. rows[k].id \in Nat
    BY <1>1, <2>1
  <2> QED BY <2>2, <2>3
<1>7. Keep(rows, Doomed) = SubSeq(rows, oldRemoved + 1, Len(rows))
  <2>1. oldRemoved \in 0..Len(rows) /\ \A i \in 1..oldRemoved : rows[i].id \in Doomed
    BY <1>1, <1>2, <1>3, <1>5
  <2> QED BY <1>1, <1>6, <2>1, KeepIs
<1> QED BY <1>2, <1>3, <1>5, <1>7

LEMMA WrittenAre ==
  ASSUME ConvInv, pc = "persist"
  PROVE  /\ Written \in Seq(RowType) /\ Paired(Written)
         /\ \A i \in 1..Len(Written) : Written[i].id = nextId + i - 1
         /\ Len(Written) \in Nat /\ Len(Written) - Len(reply) \in Nat
         /\ oldRemoved > 0 => /\ 1 \in 1..Len(Written)
                              /\ Written[1] = Row(nextId, "system", 0, summary)
<1>1. nextId \in Nat /\ nextId > 0 /\ reply \in Replies /\ summary \subseteq Nat
      /\ oldRemoved \in Nat
  BY DoomedAre DEF ConvInv, TypeOK, Numbered, ReplyIsOne
<1>2. Len(reply) \in Nat
  BY <1>1, LenProperties
<1>3. CASE oldRemoved = 0
  <2>1. Written = ReplyRows(nextId)
    BY <1>3 DEF Written
  <2>2. /\ ReplyRows(nextId) \in Seq(RowType) /\ Len(ReplyRows(nextId)) = Len(reply)
        /\ \A i \in 1..Len(reply) : ReplyRows(nextId)[i].id = nextId + i - 1
        /\ Paired(ReplyRows(nextId))
    BY <1>1, ReplyRowsAre
  <2>3. \A k \in Nat : k - k \in Nat
    OBVIOUS
  <2> QED BY <1>2, <1>3, <2>1, <2>2, <2>3
<1>4. CASE oldRemoved # 0
  <2> DEFINE r == ReplyRows(nextId + 1)
             m == Row(nextId, "system", 0, summary)
             w == <<m>> \o r
             N == Len(reply)
  <2>1. Written = w
    BY <1>4 DEF Written
  <2>2. /\ r \in Seq(RowType) /\ Len(r) = N /\ Paired(r)
        /\ \A i \in 1..N : r[i].id = (nextId + 1) + i - 1
    <3>1. nextId + 1 \in Nat /\ nextId + 1 > 0
      BY <1>1
    <3> QED BY <1>1, <3>1, ReplyRowsAre
  <2>3. m \in RowType /\ m.role = "system" /\ m.id = nextId
    BY <1>1 DEF Row, RowType, Roles
  <2>4. m = Row(nextId, "system", 0, summary)
    OBVIOUS
  <2> HIDE DEF r, m, N
  <2>5. <<m>> \in Seq(RowType) /\ Len(<<m>>) = 1 /\ DOMAIN <<m>> = {1} /\ <<m>>[1] = m
    BY <2>3
  <2>6. Paired(<<m>>)
    BY <2>3, <2>5 DEF Paired
  <2>7. Paired(w) /\ w \in Seq(RowType)
    BY <2>2, <2>5, <2>6, PairedConcat, ConcatProperties
  <2>8. /\ Len(w) = 1 + N
        /\ \A i \in 1..(1 + N) : w[i] = IF i <= 1 THEN <<m>>[i] ELSE r[i - 1]
    BY <2>2, <2>5, ConcatProperties
  <2> HIDE DEF w
  <2>9. N \in Nat /\ 1 \in 1..(1 + N) /\ (1 + N) - N \in Nat /\ 1 + N \in Nat
    BY <1>2 DEF N
  <2>10. w[1] = m
    BY <2>5, <2>8, <2>9
  <2>11. ASSUME NEW i \in 1..(1 + N) PROVE w[i].id = nextId + i - 1
    <3>1. CASE i = 1
      BY <1>1, <2>3, <2>10, <3>1
    <3>2. CASE i # 1
      <4>1. i - 1 \in 1..N /\ ~(i <= 1) /\ (nextId + 1) + (i - 1) - 1 = nextId + i - 1
        BY <1>1, <2>9, <3>2
      <4> QED BY <2>2, <2>8, <4>1
    <3> QED BY <3>1, <3>2
  <2> QED BY <2>1, <2>4, <2>7, <2>8, <2>9, <2>10, <2>11 DEF N
<1> QED BY <1>3, <1>4

LEMMA PersistStep == ConvInv /\ Persist => ConvInv'
<1> SUFFICES ASSUME ConvInv, Persist PROVE ConvInv'
  OBVIOUS
<1> DEFINE n == oldRemoved
           N == Len(rows)
           e == SubSeq(rows, n + 1, N)
           w == Written
<1>1. /\ pc = "persist" /\ pc' = "idle"
      /\ rows' = Keep(rows, Doomed) \o w
      /\ logs' = RemainingLogs(Doomed)
                   \cup {userId : i \in {j \in DOMAIN reply : reply[j] = "call"}}
      /\ nextId' = nextId + Len(w)
      /\ stored' = stored \cup Ids(ReplyRows(nextId + Len(w) - Len(reply)))
      /\ messages' = <<>>
      /\ UNCHANGED <<userId, historyIds, oldRemoved, summary, reply>>
  BY DEF Persist, Written, Doomed
<1>2. /\ rows \in Seq(RowType) /\ N \in Nat /\ DOMAIN rows = 1..N
      /\ \A i \in 1..N : rows[i] \in RowType /\ rows[i].id \in Nat
  BY RowsAre DEF ConvInv, TypeOK
<1>3. /\ Doomed = {rows[i].id : i \in 1..n} /\ n \in Nat /\ n < N
      /\ n > 0 => rows[n + 1].role = "user"
      /\ rows' = e \o w
  BY <1>1, DoomedAre
<1>4. /\ w \in Seq(RowType) /\ Paired(w) /\ Len(w) \in Nat /\ Len(w) - Len(reply) \in Nat
      /\ \A i \in 1..Len(w) : w[i].id = nextId + i - 1
  BY <1>1, WrittenAre
<1>5. n \in 0..N
  BY <1>2, <1>3
<1>6. /\ e \in Seq(RowType) /\ Len(e) = N - n /\ DOMAIN e = 1..Len(e)
      /\ \A i \in 1..Len(e) : n + i \in 1..N /\ e[i] = rows[n + i]
  BY <1>2, <1>5, EndIs
<1>7. Paired(e)
  <2>1. Paired(rows) /\ (0 < n /\ n < N => rows[n + 1].role # "tool")
    BY <1>2, <1>3 DEF ConvInv, RowsPaired
  <2> QED BY <1>2, <1>5, <2>1, PairedEnd
<1>8. nextId \in Nat /\ nextId > 0 /\ reply \in Replies
  BY <1>1 DEF ConvInv, TypeOK, Numbered, ReplyIsOne
<1>9. userId = rows[N].id /\ userId \in Nat
  BY <1>1 DEF ConvInv, TypeOK, UserIsLast
<1> HIDE DEF w, e, N, n
<1>10. rows' \in Seq(RowType) /\ Paired(e \o w) /\ Ids(e \o w) = Ids(e) \cup Ids(w)
  BY <1>3, <1>4, <1>6, <1>7, ConcatProperties, PairedConcat, IdsOfConcat
<1>11. TypeOK'
  <2>1. nextId' \in Nat
    BY <1>1, <1>4, <1>8
  <2>2. logs' \subseteq Nat
    BY <1>1, <1>9 DEF ConvInv, TypeOK, RemainingLogs
  <2>3. stored' \subseteq Nat
    <3> DEFINE k == nextId + Len(w) - Len(reply)
    <3>1. k \in Nat /\ k > 0
      <4>1. Len(reply) \in Nat
        BY <1>8, LenProperties
      <4>2. \A a, b, c \in Nat : b - c \in Nat /\ a > 0 => a + b - c \in Nat /\ a + b - c > 0
        OBVIOUS
      <4> QED BY <1>4, <1>8, <4>1, <4>2
    <3> HIDE DEF k
    <3>2. ReplyRows(k) \in Seq(RowType)
      BY <1>8, <3>1, ReplyRowsAre
    <3>3. Ids(ReplyRows(k)) \subseteq Nat
      <4>1. \A i \in DOMAIN ReplyRows(k) : ReplyRows(k)[i] \in RowType
        BY <3>2, LenProperties, ElementOfSeq
      <4> QED BY <4>1 DEF Ids, RowType
    <3>4. stored' = stored \cup Ids(ReplyRows(k))
      BY <1>1 DEF k
    <3> QED BY <3>3, <3>4 DEF ConvInv, TypeOK
  <2>4. messages' \in Seq(RowType)
    BY <1>1, EmptySeq
  <2> QED BY <1>1, <1>10, <2>1, <2>2, <2>3, <2>4 DEF ConvInv, TypeOK
<1>12. RowsPaired'
  BY <1>3, <1>10 DEF RowsPaired
<1>13. LogsHaveMessage'
  <2>1. \A i \in (n + 1)..N : rows[i].id \in Ids(e)
    <3> SUFFICES ASSUME NEW i \in (n + 1)..N PROVE rows[i].id \in Ids(e)
      OBVIOUS
    <3>1. i - n \in 1..(N - n) /\ n + (i - n) = i
      BY <1>2, <1>3
    <3> QED BY <1>6, <3>1 DEF Ids
  <2>2. userId \in Ids(e)
    <3>1. N \in (n + 1)..N
      BY <1>2, <1>3
    <3> QED BY <1>9, <2>1, <3>1
  <2>3. \A x \in logs \ Doomed : x \in Ids(e)
    <3> SUFFICES ASSUME NEW x \in logs, x \notin Doomed PROVE x \in Ids(e)
      OBVIOUS
    <3>1. PICK i \in 1..N : x = rows[i].id
      BY <1>2 DEF ConvInv, LogsHaveMessage, Ids
    <3>2. i \notin 1..n
      BY <1>3, <3>1
    <3>3. i \in (n + 1)..N
      BY <1>2, <1>3, <3>2
    <3> QED BY <2>1, <3>1, <3>3
  <2>4. logs' \subseteq Ids(e \o w)
    BY <1>1, <1>10, <2>2, <2>3 DEF RemainingLogs
  <2>5. Ids(rows)' = Ids(e \o w)
    BY <1>3 DEF Ids
  <2> QED BY <1>1, <2>4, <2>5 DEF LogsHaveMessage
<1>14. Numbered'
  <2>1. \A i \in 1..Len(e) : e[i].id < nextId
    BY <1>6 DEF ConvInv, Numbered, N
  <2>2. ASSUME NEW i \in 1..Len(e), NEW j \in 1..Len(e), i < j
        PROVE  e[i].id < e[j].id
    <3>1. n + i \in 1..N /\ n + j \in 1..N /\ n + i < n + j
      BY <1>3, <1>6, <2>2
    <3>2. rows[n + i].id < rows[n + j].id
      BY <3>1 DEF ConvInv, Numbered, N
    <3> QED BY <1>6, <3>2
  <2>3. /\ \A i \in 1..Len(e \o w) : (e \o w)[i].id < nextId + Len(w)
        /\ \A i, j \in 1..Len(e \o w) : i < j => (e \o w)[i].id < (e \o w)[j].id
    BY <1>4, <1>6, <1>8, <2>1, <2>2, NumberedConcat
  <2>4. nextId' > 0
    BY <1>1, <1>4, <1>8
  <2> QED BY <1>1, <1>3, <2>3, <2>4 DEF Numbered
<1>15. UserIsLast' /\ OldAreCovered' /\ ReplyIsOne'
  BY <1>1 DEF UserIsLast, OldAreCovered, ReplyIsOne
<1> QED BY <1>11, <1>12, <1>13, <1>14, <1>15 DEF ConvInv

LEMMA ConvStep == ConvInv /\ [Next]_vars => ConvInv'
<1>1. ConvInv /\ UNCHANGED vars => ConvInv'
  BY DEF vars, ConvInv, TypeOK, RowsPaired, Paired, LogsHaveMessage, Ids, Numbered,
         UserIsLast, OldAreCovered, AllIds, ReplyIsOne
<1> QED BY <1>1, ResetStep, LoadStep, CompactStep, TalkStep, PersistStep DEF Next, Full

LEMMA ConvHolds == Spec => []ConvInv
BY InitConv, ConvStep, PTL DEF Spec

\* Whatever fails or is cleared, and whenever: no request will replay half a
\* tool exchange, and no log or running turn refers to a row that is gone.
THEOREM ConversationIsWellFormed == Spec => []WellFormed
<1>1. ConvInv => WellFormed
  BY DEF ConvInv, WellFormed
<1> QED BY <1>1, ConvHolds, PTL

\* What CompactionAtomic allows a step to do to the table.
Atomic ==
  \/ Ids(rows) \subseteq Ids(rows')
  \/ rows' = <<>> /\ logs' = {}
  \/ \E m \in {rows'[i] : i \in DOMAIN rows'} :
       /\ m.id \notin Ids(rows)
       /\ \A i \in DOMAIN rows :
            rows[i].role # "system" /\ rows[i].id \notin Ids(rows')
              => rows[i].id \in m.covers

LEMMA PersistAtomic == ConvInv /\ Persist => Atomic
<1> SUFFICES ASSUME ConvInv, Persist PROVE Atomic
  OBVIOUS
<1> DEFINE n == oldRemoved
           N == Len(rows)
           e == SubSeq(rows, n + 1, N)
           w == Written
<1>1. pc = "persist" /\ rows' = Keep(rows, Doomed) \o w
  BY DEF Persist, Written, Doomed
<1>2. rows \in Seq(RowType) /\ N \in Nat /\ DOMAIN rows = 1..N
  BY RowsAre DEF ConvInv, TypeOK
<1>3. n \in Nat /\ n < N /\ rows' = e \o w
  BY <1>1, DoomedAre
<1>4. /\ w \in Seq(RowType)
      /\ n > 0 => 1 \in 1..Len(w) /\ w[1] = Row(nextId, "system", 0, summary)
  BY <1>1, WrittenAre
<1>5. n \in 0..N
  BY <1>2, <1>3
<1>6. /\ e \in Seq(RowType) /\ Len(e) = N - n /\ DOMAIN e = 1..Len(e)
      /\ \A i \in 1..Len(e) : n + i \in 1..N /\ e[i] = rows[n + i]
  BY <1>2, <1>5, EndIs
<1>7. \A i \in 1..n : rows[i].role # "system" => rows[i].id \in summary
  <2>1. n > 0 \/ 1..n = {}
    BY <1>3
  <2> QED BY <1>1, <2>1 DEF ConvInv, OldAreCovered
<1> HIDE DEF w, e, N, n
<1>8. Ids(rows') = Ids(e) \cup Ids(w)
  BY <1>3, <1>4, <1>6, IdsOfConcat
<1>9. \A i \in 1..N : i \in 1..n \/ rows[i].id \in Ids(rows')
  <2> SUFFICES ASSUME NEW i \in 1..N, i \notin 1..n PROVE rows[i].id \in Ids(e)
    BY <1>8
  <2>1. i - n \in 1..(N - n) /\ n + (i - n) = i
    BY <1>2, <1>3
  <2> QED BY <1>6, <2>1 DEF Ids
<1>10. CASE n = 0
  <2>1. 1..n = {}
    BY <1>10
  <2>2. Ids(rows) \subseteq Ids(rows')
    BY <1>2, <1>9, <2>1 DEF Ids
  <2> QED BY <2>2 DEF Atomic
<1>11. CASE n # 0
  <2> DEFINE m == Row(nextId, "system", 0, summary)
  <2>1. w[1] = m /\ 1 \in 1..Len(w) /\ m.id = nextId /\ m.covers = summary
    BY <1>3, <1>4, <1>11 DEF Row
  <2>2. m \in {rows'[i] : i \in DOMAIN rows'}
    <3>1. Len(e) \in Nat /\ Len(w) \in Nat
      BY <1>4, <1>6, LenProperties
    <3>2. /\ DOMAIN rows' = 1..(Len(e) + Len(w))
          /\ \A i \in 1..(Len(e) + Len(w)) :
               rows'[i] = IF i <= Len(e) THEN e[i] ELSE w[i - Len(e)]
      <4>1. /\ e \o w \in Seq(RowType) /\ Len(e \o w) = Len(e) + Len(w)
            /\ \A i \in 1..(Len(e) + Len(w)) :
                 (e \o w)[i] = IF i <= Len(e) THEN e[i] ELSE w[i - Len(e)]
        BY <1>4, <1>6, ConcatProperties
      <4>2. DOMAIN (e \o w) = 1..Len(e \o w)
        BY <4>1, LenProperties
      <4> QED BY <1>3, <4>1, <4>2
    <3>3. \A a, b \in Nat : 1 \in 1..b =>
             a + 1 \in 1..(a + b) /\ ~(a + 1 <= a) /\ (a + 1) - a = 1
      OBVIOUS
    <3>4. Len(e) + 1 \in DOMAIN rows' /\ rows'[Len(e) + 1] = w[1]
      BY <2>1, <3>1, <3>2, <3>3
    <3> QED BY <2>1, <3>4
  <2>3. m.id \notin Ids(rows)
    <3>1. \A i \in 1..N : rows[i].id # nextId
      <4>1. nextId \in Nat /\ \A i \in 1..N : rows[i].id \in Nat /\ rows[i].id < nextId
        BY RowsAre DEF ConvInv, TypeOK, Numbered, N
      <4> QED BY <4>1
    <3> QED BY <1>2, <2>1, <3>1 DEF Ids
  <2>4. \A i \in DOMAIN rows :
          rows[i].role # "system" /\ rows[i].id \notin Ids(rows') => rows[i].id \in m.covers
    BY <1>2, <1>7, <1>9, <2>1
  <2> HIDE DEF m
  <2> QED BY <2>2, <2>3, <2>4 DEF Atomic
<1> QED BY <1>10, <1>11

LEMMA AtomicStep == ConvInv /\ [Next]_vars => Atomic \/ UNCHANGED vars
<1> SUFFICES ASSUME ConvInv, [Next]_vars PROVE Atomic \/ UNCHANGED vars
  OBVIOUS
<1>1. CASE Reset
  BY <1>1 DEF Reset, Atomic
<1>2. CASE Load
  <2>0. PICK cost \in UserCosts : rows' = Append(rows, UserRow(nextId, cost))
    BY <1>2 DEF Load
  <2> DEFINE m == UserRow(nextId, cost)
  <2>1. rows \in Seq(RowType) /\ Paired(rows) /\ m \in RowType /\ m.role = "user"
    BY UserRowIs DEF ConvInv, TypeOK, RowsPaired
  <2>2. rows' = Append(rows, m)
    BY <2>0
  <2> HIDE DEF m
  <2>3. Ids(Append(rows, m)) = Ids(rows) \cup {m.id}
    BY <2>1, GrownIs
  <2> QED BY <2>2, <2>3 DEF Atomic
<1>3. CASE Compact \/ NothingToCompact \/ Chat \/ Sent \/ Abort
  <2>1. rows' = rows
    BY <1>3 DEF Compact, NothingToCompact, Chat, Sent, Abort
  <2> QED BY <2>1 DEF Atomic
<1>4. CASE Persist
  BY <1>4, PersistAtomic
<1> QED BY <1>1, <1>2, <1>3, <1>4 DEF Next, Full

\* Rows disappear in the transaction that writes the summary that covers
\* them, or by a command; never because a turn failed after summarising.
THEOREM CompactionIsAtomic == Spec => CompactionAtomic
<1>1. ConvInv /\ [Next]_vars => [Atomic]_vars
  BY AtomicStep
<1> QED BY <1>1, ConvHolds, PTL DEF Spec, CompactionAtomic, Atomic

(***************************************************************************)
(* The request                                                             *)
(***************************************************************************)

\* An end of a whole conversation begins with half an exchange at most.
LEMMA EndFromStart ==
  ASSUME NEW s \in Seq(RowType), NEW n \in 0..Len(s), Paired(s)
  PROVE  PairedFromStart(SubSeq(s, n + 1, Len(s)))
<1> DEFINE N == Len(s)
           e == SubSeq(s, n + 1, N)
<1>1. N \in Nat /\ n \in Nat /\ n <= N /\ DOMAIN s = 1..N
  BY LenProperties
<1>2. CASE n < N => s[n + 1].role # "tool"
  <2>1. Paired(e)
    BY <1>2, PairedEnd
  <2> QED BY <2>1 DEF PairedFromStart
<1>3. CASE n < N /\ s[n + 1].role = "tool"
  <2> DEFINE f == SubSeq(s, (n + 1) + 1, N)
             g == SubSeq(e, 1 + 1, Len(e))
  <2>1. /\ e \in Seq(RowType) /\ Len(e) = N - n
        /\ \A i \in 1..(N - n) : e[i] = s[n + i]
    BY EndIs
  <2>2. n + 1 \in 0..N
    BY <1>1, <1>3
  <2>3. /\ f \in Seq(RowType) /\ Len(f) = N - (n + 1)
        /\ \A i \in 1..(N - (n + 1)) : f[i] = s[(n + 1) + i]
    BY <2>2, EndIs
  <2>4. Paired(f)
    <3>1. n + 1 < N => s[(n + 1) + 1].role # "tool"
      <4> SUFFICES ASSUME n + 1 < N, s[(n + 1) + 1].role = "tool" PROVE FALSE
        OBVIOUS
      <4>1. (n + 1) + 1 \in DOMAIN s /\ ((n + 1) + 1) - 1 = n + 1
        BY <1>1
      <4>2. s[n + 1].role = "assistant"
        BY <4>1 DEF Paired
      <4> QED BY <1>3, <4>2
    <3> QED BY <2>2, <3>1, PairedEnd
  <2> HIDE DEF e, f, N
  <2>5. 1 \in 0..Len(e) /\ Len(e) \in Nat
    BY <1>1, <1>3, <2>1
  <2>6. /\ g \in Seq(RowType) /\ Len(g) = Len(e) - 1
        /\ \A i \in 1..(Len(e) - 1) : g[i] = e[1 + i]
    BY <2>1, <2>5, EndIs
  <2> HIDE DEF g
  <2>7. g = f
    <3>1. Len(g) = Len(f) /\ Len(e) - 1 = N - (n + 1)
      BY <1>1, <2>1, <2>3, <2>6
    <3>2. ASSUME NEW i \in 1..Len(g) PROVE g[i] = f[i]
      <4>1. i \in 1..(N - (n + 1)) /\ 1 + i \in 1..(N - n) /\ (n + 1) + i = n + (1 + i)
        BY <1>1, <2>1, <2>6
      <4>2. i \in 1..(Len(e) - 1)
        BY <3>1, <4>1
      <4>3. g[i] = e[1 + i]
        BY <2>6, <4>2
      <4>4. e[1 + i] = s[n + (1 + i)]
        BY <2>1, <4>1
      <4>5. f[i] = s[(n + 1) + i]
        BY <2>3, <4>1
      <4> QED BY <4>1, <4>3, <4>4, <4>5
    <3> QED BY <2>3, <2>6, <3>1, <3>2, SeqEqual
  <2>8. e[1].role = "tool"
    <3>1. 1 \in 1..(N - n)
      BY <1>1, <1>3
    <3> QED BY <1>3, <2>1, <3>1
  <2>9. SubSeq(e, 2, Len(e)) = g
    BY DEF g
  <2>10. PairedFromStart(e)
    BY <2>4, <2>7, <2>8, <2>9 DEF PairedFromStart
  <2> QED BY <2>10 DEF e, N
<1> QED BY <1>2, <1>3

\* What trimming leaves of a whole conversation: its newest message, if that
\* fits the budget, and no exchange in halves but at the start.
LEMMA TrimmedIs ==
  ASSUME NEW s \in Seq(RowType), Len(s) > 0, Paired(s)
  PROVE  /\ s[Len(s)].cost <= Budget => s[Len(s)].id \in Ids(Trim(s))
         /\ PairedFromStart(Trim(s))
<1> DEFINE N == Len(s)
<1>1. N \in Nat /\ N > 0
  BY LenProperties
<1>2. PICK n \in 0..N : /\ Trim(s) = SubSeq(s, N - n + 1, N)
                        /\ N > 0 /\ s[N].cost <= Budget => n > 0
  BY TrimIs
<1> DEFINE k == N - n
           e == SubSeq(s, k + 1, N)
<1>3. k \in 0..N /\ N - k = n /\ k + n = N
  BY <1>1, <1>2
<1>4. Trim(s) = e
  BY <1>2
<1> HIDE DEF k
<1>5. /\ Len(e) = N - k /\ DOMAIN e = 1..Len(e)
      /\ \A i \in 1..Len(e) : e[i] = s[k + i]
  BY <1>3, EndIs
<1>6. PairedFromStart(e)
  BY <1>3, EndFromStart
<1>7. ASSUME s[N].cost <= Budget PROVE s[N].id \in Ids(e)
  <2>1. n \in 1..Len(e)
    BY <1>1, <1>2, <1>3, <1>5, <1>7
  <2>2. e[n] = s[N]
    BY <1>3, <1>5, <2>1
  <2> HIDE DEF e
  <2> QED BY <1>5, <2>1, <2>2 DEF Ids
<1> HIDE DEF e
<1> QED BY <1>4, <1>6, <1>7

\* Whether a turn compacts or not, and whatever is trimmed: the request has
\* the message it is about, unless that message alone is over the budget, and
\* no exchange is in halves but at the start.
THEOREM RequestsHaveTheirMessage == Spec => []RequestHasMessage
<1>1. Init => RequestHasMessage
  BY DEF Init, RequestHasMessage
<1>2. ASSUME ConvInv, ConvInv', RequestHasMessage, [Next]_vars PROVE RequestHasMessage'
  <2>0. /\ rows \in Seq(RowType) /\ Len(rows) \in Nat /\ Paired(rows)
        /\ rows' \in Seq(RowType) /\ Len(rows') \in Nat /\ Paired(rows')
        /\ pc' # "idle" => Len(rows') > 0 /\ rows'[Len(rows')].id = userId'
    <3>1. rows \in Seq(RowType) /\ Paired(rows)
      BY <1>2 DEF ConvInv, TypeOK, RowsPaired
    <3>2. rows' \in Seq(RowType) /\ Paired(rows')
      BY <1>2 DEF ConvInv, TypeOK, RowsPaired, Paired
    <3>3. Len(rows) \in Nat /\ Len(rows') \in Nat
      BY <3>1, <3>2, LenProperties
    <3> QED BY <1>2, <3>1, <3>2, <3>3 DEF ConvInv, UserIsLast
  <2>1. ASSUME NEW s \in Seq(RowType), Len(s) > 0, Paired(s), pc' = "chat",
               s[Len(s)] = rows'[Len(rows')], messages' = Trim(s)
        PROVE  RequestHasMessage'
    <3>1. Len(rows') > 0 /\ rows'[Len(rows')].id = userId'
      BY <2>0, <2>1
    <3>2. rows'[Len(rows')].cost \in Nat
      <4>1. Len(rows') \in 1..Len(rows')
        BY <2>0, <3>1
      <4>2. rows'[Len(rows')] \in RowType
        BY <2>0, <4>1, ElementOfSeq
      <4> QED BY <4>2 DEF RowType
    <3>3. Ids(messages)' = Ids(Trim(s)) /\ PairedFromStart(messages)' = PairedFromStart(Trim(s))
      BY <2>1 DEF Ids, PairedFromStart, Paired
    <3>4. userId' \in Ids(Trim(s)) \/ rows'[Len(rows')].cost > Budget
      BY <2>1, <3>1, <3>2, TrimmedIs
    <3>5. PairedFromStart(Trim(s))
      BY <2>1, TrimmedIs
    <3> QED BY <3>1, <3>3, <3>4, <3>5 DEF RequestHasMessage
  <2>2. CASE Load
    <3>1. pc' = "chat" => messages' = Trim(rows')
      BY <2>2 DEF Load
    <3>2. CASE pc' = "chat"
      BY <2>0, <2>1, <3>1, <3>2
    <3> QED BY <3>2 DEF RequestHasMessage
  <2>3. CASE Compact \/ NothingToCompact
    <3>1. /\ pc = "compact" /\ messages = rows /\ rows' = rows /\ pc' = "chat"
          /\ Len(rows) > 0 /\ rows[Len(rows)].role = "user"
      BY <1>2, <2>3 DEF ConvInv, OldAreCovered, UserIsLast, Compact, NothingToCompact
    <3>2. CASE NothingToCompact
      <4>1. messages' = Trim(rows)
        BY <3>1, <3>2 DEF NothingToCompact
      <4> QED BY <2>0, <2>1, <3>1, <4>1
    <3>3. CASE Compact
      <4> DEFINE n == Split(rows)
                 N == Len(rows)
                 o == SubSeq(rows, 1, n)
                 m == SummaryMessage(summary')
                 e == SubSeq(rows, n + 1, N)
                 s == <<m>> \o e
      <4>1. N > KeepRecent /\ messages' = Trim(s) /\ summary' = Summarised(o)
        BY <3>1, <3>3 DEF Compact
      <4>2. n \in 1..(N - 1) /\ rows[n + 1].role = "user"
        BY <2>0, <3>1, <4>1, SplitIs
      <4>3. m \in RowType /\ m.role = "system"
        <5>1. summary' \subseteq Nat
          BY <1>2 DEF ConvInv, TypeOK
        <5> QED BY <5>1 DEF SummaryMessage, Row, RowType, Roles
      <4> HIDE DEF m, o, n
      <4>4. n \in 0..N /\ N - n > 0
        BY <2>0, <4>2
      <4>5. /\ e \in Seq(RowType) /\ Len(e) = N - n
            /\ \A i \in 1..Len(e) : e[i] = rows[n + i]
        BY <2>0, <4>4, EndIs
      <4>6. e[Len(e)] = rows[N] /\ Len(e) \in Nat /\ Len(e) > 0
        <5>1. N - n \in 1..(N - n) /\ n + (N - n) = N
          BY <2>0, <4>4
        <5>2. Len(e) \in 1..Len(e) /\ n + Len(e) = N
          BY <4>5, <5>1
        <5> HIDE DEF e, N
        <5>3. Len(e) \in Nat
          BY <4>5, LenProperties
        <5> QED BY <4>4, <4>5, <5>2, <5>3
      <4>7. Paired(e)
        BY <2>0, <4>2, <4>4, PairedEnd
      <4>8. Paired(<<m>>) /\ <<m>> \in Seq(RowType) /\ Len(<<m>>) = 1
        <5>1. DOMAIN <<m>> = {1} /\ <<m>>[1] = m
          OBVIOUS
        <5>2. <<m>> \in Seq(RowType) /\ Len(<<m>>) = 1
          BY <4>3
        <5>3. Paired(<<m>>)
          BY <4>3, <5>1 DEF Paired
        <5> QED BY <5>2, <5>3
      <4> HIDE DEF e, N
      <4>9. Paired(s)
        BY <4>5, <4>7, <4>8, PairedConcat
      <4>10. s \in Seq(RowType) /\ Len(s) = 1 + Len(e)
            /\ \A i \in 1..(1 + Len(e)) : s[i] = IF i <= 1 THEN <<m>>[i] ELSE e[i - 1]
        BY <4>5, <4>8, ConcatProperties
      <4>11. \A k \in Nat : k > 0 =>
              1 + k \in 1..(1 + k) /\ ~(1 + k <= 1) /\ (1 + k) - 1 = k /\ 1 + k > 0
        OBVIOUS
      <4> HIDE DEF s
      <4>12. s[Len(s)] = rows[N] /\ Len(s) > 0
        BY <4>6, <4>10, <4>11
      <4>13. s[Len(s)] = rows'[Len(rows')]
        BY <3>1, <4>12 DEF N
      <4> QED BY <2>1, <3>1, <4>1, <4>9, <4>10, <4>12, <4>13
    <3> QED BY <2>3, <3>2, <3>3
  <2>4. CASE UNCHANGED vars \/ Full
    BY <1>2, <2>4 DEF Full, vars, RequestHasMessage, Ids, PairedFromStart, Paired
  <2>5. CASE Reset \/ Chat \/ Sent \/ Persist \/ Abort
    BY <2>5 DEF Reset, Chat, Sent, Persist, Abort, RequestHasMessage
  <2> QED BY <1>2, <2>2, <2>3, <2>4, <2>5 DEF Next
<1> QED BY <1>1, <1>2, ConvHolds, PTL DEF Spec

=============================================================================
