----------------------------- MODULE Workspace -----------------------------
(***************************************************************************)
(* What the application keeps in memory of the files under data_dir: a     *)
(* bootstrap file (bootstrap.py, with its legacy path), the time zone      *)
(* (time.py), and the skills (skills/engine.py).  The user, and commands   *)
(* the agent runs, change the files at any time; the application's code    *)
(* runs between awaits, so of its own actions only one is under way.       *)
(*                                                                         *)
(* Texts are model values.  An mtime is a tick of the clock: files may be  *)
(* written in the same tick, one file not twice.                           *)
(***************************************************************************)
EXTENDS Naturals

CONSTANTS Texts,   \* what a file may say
          Zones,   \* the texts that name a time zone
          MaxTick  \* bound on the clock

Canonical == "SOUL.md"
Legacy    == "soul.md"
ZoneFile  == "timezone"
Paths     == {Canonical, Legacy, ZoneFile}

Missing == [text |-> "missing", mtime |-> 0]

\* The stand-in for the text of a file that is not there is no text.
ASSUME WorkspaceAssumption ==
  /\ Zones \subseteq Texts
  /\ Missing.text \notin Texts
  /\ MaxTick \in Nat \ {0}

NoCache == [text |-> "none", mtime |-> 0, path |-> "none"]

\* SKILL.md: not there, being written or not parseable, complete.
Skill == {"absent", "bad", "good"}

VARIABLES
  tick,      \* the clock
  disk,      \* the files
  cache,     \* _cache of bootstrap.py
  zone,      \* _cached_tz and _cached_mtime of time.py
  reader,    \* the loader under way: its next system call, path and mtime
  current,   \* history: what its file said while it ran
  wrong,     \* history: texts that a loader returned and no file had said
  skill,     \* a skill's SKILL.md
  loaded,    \* SkillsEngine._skills has it
  watch,     \* awatch: "off", "on", or "changed" when it has events to deliver
  missed     \* history: a change between load_all() and the watcher's start

fileVars == <<tick, disk>>
cacheVars == <<cache, zone>>
readVars == <<reader, current, wrong>>
skillVars == <<skill, loaded, watch, missed>>
workVars == <<fileVars, cacheVars, readVars, skillVars>>

Idle == [call |-> "none", path |-> "none", mtime |-> 0]

\* load_all() has just run; what setup.sh and the user write from now on is
\* not seen before the watcher is up.
WorkInit ==
  /\ tick = 1
  /\ disk \in [Paths -> {Missing} \cup [text : Texts, mtime : {1}]]
  /\ cache = NoCache
  /\ zone = NoCache
  /\ reader = Idle
  /\ current = {}
  /\ wrong = {}
  /\ skill \in Skill
  /\ loaded = (skill = "good")
  /\ watch = "off"
  /\ missed = FALSE

-----------------------------------------------------------------------------
(* The bootstrap file *)

Says(paths) == {disk[p].text : p \in paths}

\* A loader that has known the files to say said returns text.
Return(text, said) ==
  /\ wrong' = wrong \cup ({text} \ said)
  /\ current' = {}
  /\ reader' = Idle

\* _resolve_path; a file under neither path is skipped.
Resolve ==
  /\ reader = Idle
  /\ disk[Canonical] # Missing \/ disk[Legacy] # Missing
  /\ reader' = [call |-> "stat", mtime |-> 0,
                path |-> IF disk[Canonical] # Missing THEN Canonical ELSE Legacy]
  /\ current' = Says({Canonical, Legacy})
  /\ UNCHANGED <<fileVars, cacheVars, wrong, skillVars>>

Cached(file) == cache # NoCache /\ cache.mtime = file.mtime /\ cache.path = reader.path

Stat ==
  /\ reader.call = "stat"
  /\ LET file == disk[reader.path] IN
       /\ file # Missing
       /\ IF Cached(file) THEN Return(cache.text, current)
          ELSE /\ reader' = [reader EXCEPT !.call = "read", !.mtime = file.mtime]
               /\ UNCHANGED <<current, wrong>>
  /\ UNCHANGED <<fileVars, cacheVars, skillVars>>

\* Fault: the text is cached under the mtime it has when it has been read.
ReadThenStat ==
  /\ reader.call = "read"
  /\ disk[reader.path] # Missing
  /\ LET text == disk[reader.path].text IN
       /\ cache' = [text |-> text, mtime |-> tick, path |-> reader.path]
       /\ Return(text, current)
  /\ UNCHANGED <<fileVars, zone, skillVars>>

Read ==
  /\ reader.call = "read"
  /\ disk[reader.path] # Missing
  /\ LET text == disk[reader.path].text IN
       /\ cache' = [text |-> text, mtime |-> reader.mtime, path |-> reader.path]
       /\ Return(text, current)
  /\ UNCHANGED <<fileVars, zone, skillVars>>

\* The file was there a moment ago: the exception ends the turn.
Raise ==
  /\ reader.call \in {"stat", "read"}
  /\ disk[reader.path] = Missing
  /\ reader' = Idle
  /\ current' = {}
  /\ UNCHANGED <<fileVars, cacheVars, wrong, skillVars>>

-----------------------------------------------------------------------------
(* The time zone *)

\* A missing file and one that names no zone stand for DEFAULT_TZ.
ZoneOf(text) == IF text \in Zones THEN text ELSE "default"

\* Missing has mtime 0, which is None.
ZoneCached(file) == zone # NoCache /\ zone.mtime = file.mtime

ZoneStat ==
  /\ reader = Idle
  /\ LET file == disk[ZoneFile]
         said == {ZoneOf(file.text)} IN
       IF ZoneCached(file) THEN Return(zone.text, said)
       ELSE /\ reader' = [call |-> "zone", path |-> ZoneFile, mtime |-> file.mtime]
            /\ current' = said
            /\ UNCHANGED wrong
  /\ UNCHANGED <<fileVars, cacheVars, skillVars>>

\* Without an mtime the file is not read; one that cannot be read is default.
ZoneRead ==
  /\ reader.call = "zone"
  /\ LET text == IF reader.mtime = 0 THEN "default" ELSE ZoneOf(disk[ZoneFile].text) IN
       /\ zone' = [text |-> text, mtime |-> reader.mtime, path |-> ZoneFile]
       /\ Return(text, current)
  /\ UNCHANGED <<fileVars, cache, skillVars>>

-----------------------------------------------------------------------------
(* The skills *)

\* create_skill: one step of the application; it refuses a directory that
\* exists, whatever is in it.
CreateSkill ==
  /\ reader = Idle
  /\ skill = "absent"
  /\ skill' = "good"
  /\ watch' = IF watch = "off" THEN "off" ELSE "changed"
  /\ missed' = (missed \/ watch = "off")
  /\ UNCHANGED <<fileVars, cacheVars, readVars, loaded>>

ChangeSkill(s) ==
  /\ s # skill
  /\ skill' = s
  /\ watch' = IF watch = "off" THEN "off" ELSE "changed"
  /\ missed' = (missed \/ watch = "off")
  /\ UNCHANGED <<fileVars, cacheVars, readVars, loaded>>

\* lifespan has created the watcher's task, and awatch begins.
WatchStarts ==
  /\ watch = "off"
  /\ watch' = "on"
  /\ UNCHANGED <<fileVars, cacheVars, readVars, skill, loaded, missed>>

\* Fault: the skills that were loaded before are kept.
ReloadKeeping ==
  /\ watch = "changed"
  /\ reader = Idle
  /\ watch' = "on"
  /\ loaded' = (loaded \/ skill = "good")
  /\ missed' = FALSE
  /\ UNCHANGED <<fileVars, cacheVars, readVars, skill>>

\* load_all() from an empty dictionary: a skill that cannot be parsed is out.
Reload ==
  /\ watch = "changed"
  /\ reader = Idle
  /\ watch' = "on"
  /\ loaded' = (skill = "good")
  /\ missed' = FALSE
  /\ UNCHANGED <<fileVars, cacheVars, readVars, skill>>

-----------------------------------------------------------------------------
(* The user and the tools *)

\* One file is not written twice in a tick.
Change(p, file) ==
  /\ disk' = [disk EXCEPT ![p] = file]
  /\ current' = IF reader = Idle THEN current
                ELSE current \cup (IF p = ZoneFile THEN {ZoneOf(file.text)} ELSE {file.text})
  /\ UNCHANGED <<tick, cacheVars, reader, wrong, skillVars>>

\* Fault: the mtime is rounded up.
WriteAhead(p, text) ==
  /\ disk[p].mtime < tick
  /\ Change(p, [text |-> text, mtime |-> tick + 1])

Write(p, text) ==
  /\ disk[p].mtime < tick
  /\ Change(p, [text |-> text, mtime |-> tick])

Delete(p) ==
  /\ disk[p] # Missing /\ disk[p].mtime < tick
  /\ Change(p, Missing)

Tick ==
  /\ tick < MaxTick
  /\ tick' = tick + 1
  /\ UNCHANGED <<disk, cacheVars, readVars, skillVars>>

Loader == Resolve \/ Stat \/ Read \/ Raise \/ ZoneStat \/ ZoneRead

WorkNext ==
  \/ Loader
  \/ CreateSkill \/ WatchStarts \/ Reload
  \/ \E s \in Skill : ChangeSkill(s)
  \/ \E p \in Paths : Delete(p) \/ \E text \in Texts : Write(p, text)
  \/ Tick

WorkSpec == WorkInit /\ [][WorkNext]_workVars

-----------------------------------------------------------------------------
(* Properties *)

WorkTypeOK ==
  /\ tick \in 1..MaxTick
  /\ disk \in [Paths -> {Missing} \cup [text : Texts, mtime : 1..tick]]
  /\ cache.text \in Texts \cup {"none"} /\ cache.mtime \in 0..tick
  /\ zone.text \in Zones \cup {"default", "none"} /\ zone.mtime \in 0..tick
  /\ reader.call \in {"none", "stat", "read", "zone"}
  /\ skill \in Skill /\ loaded \in BOOLEAN /\ missed \in BOOLEAN
  /\ watch \in {"off", "on", "changed"}

\* "Edits are picked up on next read": a loader returns what the file said at
\* some moment of the call, whatever the cache holds and whoever writes
\* meanwhile.
LoadedIsCurrent == wrong = {}

\* "Skill definitions (hot-reloaded)": once the watcher has delivered its
\* events, the engine has exactly the skills that parse, unless the change came
\* after load_all() and before the watcher's start.
SkillsAreFresh == watch = "on" /\ ~missed => loaded = (skill = "good")

\* Nothing that is served from memory is older than what is on disk.
CachesAreFresh == WorkTypeOK /\ LoadedIsCurrent /\ SkillsAreFresh
=============================================================================
