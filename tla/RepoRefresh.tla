---------------------------- MODULE RepoRefresh ----------------------------
(***************************************************************************)
(* The local clones of the settings and the templates repository, how a    *)
(* refresh changes what configuration is generated from, and which devices *)
(* it marks as unsynchronised (db/git.py, db/settings.py).                 *)
(*                                                                         *)
(* A refresh pulls, rebuilds the settings cache, falls back to the last    *)
(* working commit when the settings have errors, and marks the devices     *)
(* whose files changed. The lock "devices" lets one refresh run at a time, *)
(* and no live sync meanwhile; dry runs take no lock. Commits are numbered *)
(* along the history of the remote; a commit changes one file, and every   *)
(* change of a file changes the configuration of the devices that read it. *)
(* Changes of configuration that do not come from the repositories are     *)
(* left out.                                                               *)
(***************************************************************************)
EXTENDS Naturals, FiniteSets

CONSTANTS
  Devices,
  Type,            \* the device type of each device
  Group,           \* the primary group of each device
  SettingsFiles,   \* the files of the settings repository that may change
  TemplateFiles,   \* those of the templates repository
  Commits,         \* bound on the commits to each repository
  None,            \* no commit
  MaxMishaps       \* bound on failed pulls, dead workers and restarts of Redis

Repos == {"settings", "templates"}

DeviceTypes == {"ACCESS", "DIST", "CORE"}

ASSUME RepoRefreshAssumption ==
  /\ Type \in [Devices -> DeviceTypes]
  /\ \A f \in SettingsFiles : f.dir # "templates"
  /\ \A f \in TemplateFiles : f.dir = "templates"
  /\ Commits \in [Repos -> Nat]
  /\ None \notin Nat
  /\ MaxMishaps \in Nat

VARIABLES
  history,    \* the file each commit changes, and what is wrong with its tree
  upstream,   \* the last commit of the remote
  moved,      \* the repository is configured with another URL or branch
  branch,     \* the last commit pulled to the local branch
  head,       \* the commit checked out; behind branch when it is detached
  base,       \* the commit the present clone was made at
  working,    \* the last known working commit of settings, in Redis
  cached,     \* the commit each device's entry of the settings cache is from
  task,       \* the refresh that holds the lock
  conf,       \* what each device's configuration was generated from
  synced,     \* Device.synchronized
  missed,     \* history variable: devices whose changed files went unmarked
  mishaps     \* failed pulls, dead workers and restarts of Redis so far

remoteVars == <<history, upstream>>
cloneVars  == <<branch, head, base, moved>>
redisVars  == <<working, cached>>
deviceVars == <<conf, synced>>
vars == <<remoteVars, cloneVars, redisVars, task, deviceVars, missed, mishaps>>

-----------------------------------------------------------------------------
(* Files, commits, and what is generated from them *)

Files(r) == IF r = "settings" THEN SettingsFiles ELSE TemplateFiles

\* "caught": a syntax error, a VLAN conflict, a worktree that cannot be made.
\* "uncaught": a missing file or directory, text that is no YAML, a
\* mapping.yml that is missing or incomplete.
Faults(r) == IF r = "settings" THEN {"none", "caught", "uncaught"} ELSE {"none", "uncaught"}

\* get_settings and push_sync_device: the devices whose configuration is
\* generated from a file.
ReadBy(f) == {d \in Devices :
  \/ f.dir = "global"
  \/ f.dir = "fabric"    /\ Type[d] \in {"DIST", "CORE"}
  \/ f.dir = "type"      /\ f.of = Type[d]
  \/ f.dir = "groups"    /\ f.of = Group[d]
  \/ f.dir = "devices"   /\ f.of = d
  \/ f.dir = "templates" /\ f.of = Type[d]}

FileOf(r, c)  == history[r][c].file
FaultOf(r, c) == IF c = 0 THEN "none" ELSE history[r][c].fault

Touched(r, C) == UNION {ReadBy(FileOf(r, c)) : c \in C}

\* Two configurations differ when a commit that touches the device is in one
\* and not in the other.
Seen(r, n, d) == {c \in 1 .. n : d \in ReadBy(FileOf(r, c))}

\* Settings are read through the cache, templates from the files.
Used(r, d) == IF r = "settings" /\ cached[d] # None THEN cached[d] ELSE head[r]

Generated(d) == [r \in Repos |-> Seen(r, Used(r, d), d)]

Idle == [at |-> "idle", repo |-> "settings", changed |-> {}]

\* What the commits to a repository may be.
Histories(r) == [1 .. Commits[r] -> [file : Files(r), fault : Faults(r)]]

TypeOK ==
  /\ \A r \in Repos : history[r] \in Histories(r)
  /\ upstream \in [Repos -> Nat]
  /\ moved \in [Repos -> BOOLEAN]
  /\ branch \in [Repos -> Nat]
  /\ head \in [Repos -> Nat]
  /\ base \in [Repos -> Nat]
  /\ \A r \in Repos : /\ head[r] <= branch[r] /\ base[r] <= branch[r]
                      /\ branch[r] <= upstream[r] /\ upstream[r] <= Commits[r]
  /\ working \in 0 .. branch["settings"] \cup {None}
  /\ cached \in [Devices -> 0 .. branch["settings"] \cup {None}]
  /\ task \in [at : {"idle", "rebuild", "fallback", "mark"}, repo : Repos,
               changed : SUBSET Nat]
  /\ task.changed \subseteq 1 .. branch[task.repo]
  /\ conf \in [Devices -> [Repos -> SUBSET Nat]]
  /\ synced \in [Devices -> BOOLEAN]
  /\ missed \in SUBSET Devices
  /\ mishaps \in 0 .. MaxMishaps

\* Both repositories are cloned, and the devices run what they say.
Init ==
  /\ \E s \in Histories("settings"), t \in Histories("templates") :
       history = [r \in Repos |-> IF r = "settings" THEN s ELSE t]
  /\ upstream = [r \in Repos |-> 0]
  /\ moved = [r \in Repos |-> FALSE]
  /\ branch = [r \in Repos |-> 0]
  /\ head = [r \in Repos |-> 0]
  /\ base = [r \in Repos |-> 0]
  /\ working = 0
  /\ cached = [d \in Devices |-> 0]
  /\ task = Idle
  /\ conf = [d \in Devices |-> [r \in Repos |-> {}]]
  /\ synced = [d \in Devices |-> TRUE]
  /\ missed = {}
  /\ mishaps = 0

-----------------------------------------------------------------------------
(* What happens outside CNaaS-NMS *)

Publish(r) ==
  /\ upstream[r] < Commits[r]
  /\ upstream' = [upstream EXCEPT ![r] = @ + 1]
  /\ UNCHANGED <<history, cloneVars, redisVars, task, deviceVars, missed, mishaps>>

\* The configured URL or branch becomes another one, with other contents.
Relocate(r) ==
  /\ ~moved[r]
  /\ upstream[r] < Commits[r]
  /\ upstream' = [upstream EXCEPT ![r] = @ + 1]
  /\ moved' = [moved EXCEPT ![r] = TRUE]
  /\ UNCHANGED <<history, branch, head, base, redisVars, task, deviceVars, missed, mishaps>>

-----------------------------------------------------------------------------
(* _refresh_repo_task *)

\* Mutant: the previous commit is read after the pull, so nothing changed.
PullComparesLate(r) ==
  /\ task = Idle
  /\ branch' = [branch EXCEPT ![r] = upstream[r]]
  /\ head' = [head EXCEPT ![r] = upstream[r]]
  /\ moved' = [moved EXCEPT ![r] = FALSE]
  /\ base' = [base EXCEPT ![r] = IF moved[r] THEN upstream[r] ELSE @]
  /\ task' = [at |-> IF r = "settings" THEN "rebuild" ELSE "mark", repo |-> r, changed |-> {}]
  /\ missed' = missed \cup Touched(r, (head[r] + 1) .. branch[r])
                      \cup (IF moved[r] THEN Touched(r, (branch[r] + 1) .. upstream[r]) ELSE {})
  /\ UNCHANGED <<remoteVars, redisVars, deviceVars, mishaps>>

\* A detached head is put back to the branch, so that the files that changed
\* are counted from there and not from what was checked out; a repository
\* that has moved is cloned anew, and no file counts as changed.
Pull(r) ==
  /\ task = Idle
  /\ branch' = [branch EXCEPT ![r] = upstream[r]]
  /\ head' = [head EXCEPT ![r] = upstream[r]]
  /\ moved' = [moved EXCEPT ![r] = FALSE]
  /\ base' = [base EXCEPT ![r] = IF moved[r] THEN upstream[r] ELSE @]
  /\ task' = [at      |-> IF r = "settings" THEN "rebuild" ELSE "mark",
              repo    |-> r,
              changed |-> IF moved[r] THEN {} ELSE (branch[r] + 1) .. upstream[r]]
  /\ missed' = missed \cup Touched(r, (head[r] + 1) .. branch[r])
                      \cup (IF moved[r] THEN Touched(r, (branch[r] + 1) .. upstream[r]) ELSE {})
  /\ UNCHANGED <<remoteVars, redisVars, deviceVars, mishaps>>

\* The remote cannot be reached: the head has been put back already. (One
\* that cannot be cloned leaves no repository at all, which is left out.)
PullFails(r) ==
  /\ task = Idle
  /\ ~moved[r]
  /\ mishaps < MaxMishaps
  /\ mishaps' = mishaps + 1
  /\ head' = [head EXCEPT ![r] = branch[r]]
  /\ missed' = missed \cup Touched(r, (head[r] + 1) .. branch[r])
  /\ UNCHANGED <<remoteVars, branch, base, moved, redisVars, task, deviceVars>>

\* The task raises: refresh_repo releases the lock, nothing is marked.
Fail == /\ task' = Idle
        /\ missed' = missed \cup Touched(task.repo, task.changed)

\* Mutant: the commit is saved as working before the cache is rebuilt.
RebuildSavesFirst ==
  /\ task.at = "rebuild"
  /\ working' = head["settings"]
  /\ \/ /\ FaultOf("settings", head["settings"]) = "none"
        /\ cached' = [d \in Devices |-> head["settings"]]
        /\ task' = [task EXCEPT !.at = "mark"]
        /\ UNCHANGED missed
     \/ /\ FaultOf("settings", head["settings"]) = "caught"
        /\ cached' = [d \in Devices |-> None]
        /\ task' = [task EXCEPT !.at = "fallback"]
        /\ UNCHANGED missed
     \/ /\ FaultOf("settings", head["settings"]) = "uncaught"
        /\ cached' = [d \in Devices |-> None]
        /\ Fail
  /\ UNCHANGED <<remoteVars, cloneVars, deviceVars, mishaps>>

\* rebuild_settings_cache clears the cache, and reads all settings again.
Rebuild ==
  LET fault == FaultOf("settings", head["settings"]) IN
  /\ task.at = "rebuild"
  /\ \/ /\ fault = "none"
        /\ cached' = [d \in Devices |-> head["settings"]]
        /\ working' = head["settings"]
        /\ task' = [task EXCEPT !.at = "mark"]
        /\ UNCHANGED missed
     \/ /\ fault = "caught"
        /\ cached' = [d \in Devices |-> None]
        /\ task' = [task EXCEPT !.at = "fallback"]
        /\ UNCHANGED <<working, missed>>
     \/ /\ fault = "uncaught"
        /\ cached' = [d \in Devices |-> None]
        /\ Fail
        /\ UNCHANGED working
  /\ UNCHANGED <<remoteVars, cloneVars, deviceVars, mishaps>>

\* A working commit is known, and this clone has it.
Known == working # None /\ working >= base["settings"]

\* Mutant: the cache is not rebuilt from the commit that was checked out.
FallbackUncached ==
  /\ task.at = "fallback"
  /\ task' = Idle
  /\ UNCHANGED <<cached, head>>
  /\ missed' = missed \cup Touched("settings", task.changed)
  /\ UNCHANGED <<remoteVars, branch, base, moved, working, deviceVars, mishaps>>

\* Mutant: what Redis returns is checked out without looking at it.
FallbackUnknown ==
  /\ task.at = "fallback"
  /\ task' = Idle
  /\ head' = [head EXCEPT !["settings"] = working]
  /\ cached' = [d \in Devices |-> working]
  /\ UNCHANGED <<remoteVars, branch, base, moved, working, deviceVars, missed, mishaps>>

\* repo_chekout_working, the second rebuild, and the exception of the first
\* one raised again.
Fallback ==
  /\ task.at = "fallback"
  /\ task' = Idle
  /\ \/ /\ Known
        /\ head' = [head EXCEPT !["settings"] = working]
        /\ cached' = [d \in Devices |-> working]
        /\ missed' = missed \cup Touched("settings", task.changed)
                            \cup Touched("settings", (working + 1) .. head["settings"])
     \/ /\ ~Known
        /\ missed' = missed \cup Touched("settings", task.changed)
        /\ UNCHANGED <<head, cached>>
  /\ UNCHANGED <<remoteVars, branch, base, moved, working, deviceVars, mishaps>>

\* settings_syncstatus and set_devtype_syncstatus: the devices to be marked.
SettingsSyncstatus(F) == {d \in Devices :
  \/ \E f \in F : f.dir = "global" /\ Type[d] \in DeviceTypes
  \/ \E f \in F : f.dir = "fabric" /\ Type[d] \in {"DIST", "CORE"}
  \/ \E f \in F : f.dir = "type" /\ f.of = Type[d]
  \/ \E f \in F : f.dir = "devices" /\ f.of = d
  \/ \E f \in F : f.dir = "groups" /\ f.of = Group[d]}

TemplateSyncstatus(F) == {d \in Devices : \E f \in F : f.dir = "templates" /\ f.of = Type[d]}

ChangedFiles == {FileOf(task.repo, c) : c \in task.changed}

MarkSettings ==
  /\ task.at = "mark" /\ task.repo = "settings"
  /\ task' = Idle
  /\ synced' = [d \in Devices |-> synced[d] /\ d \notin SettingsSyncstatus(ChangedFiles)]
  /\ UNCHANGED <<remoteVars, cloneVars, redisVars, conf, missed, mishaps>>

\* Templates have no working commit to fall back to.
MarkTemplates ==
  /\ task.at = "mark" /\ task.repo = "templates"
  /\ \/ /\ FaultOf("templates", head["templates"]) = "none"
        /\ task' = Idle
        /\ synced' = [d \in Devices |-> synced[d] /\ d \notin TemplateSyncstatus(ChangedFiles)]
        /\ UNCHANGED missed
     \/ /\ FaultOf("templates", head["templates"]) # "none"
        /\ Fail
        /\ UNCHANGED synced
  /\ UNCHANGED <<remoteVars, cloneVars, redisVars, conf, mishaps>>

-----------------------------------------------------------------------------
(* Processes and Redis *)

\* The API worker that refreshes dies; the one that starts clears its lock.
WorkerDies ==
  /\ task # Idle
  /\ mishaps < MaxMishaps
  /\ mishaps' = mishaps + 1
  /\ Fail
  /\ UNCHANGED <<remoteVars, cloneVars, redisVars, deviceVars>>

RedisRestarts ==
  /\ mishaps < MaxMishaps
  /\ mishaps' = mishaps + 1
  /\ working' = None
  /\ cached' = [d \in Devices |-> None]
  /\ UNCHANGED <<remoteVars, cloneVars, task, deviceVars, missed>>

\* What is in the cache lives for a day; it is read again from the files.
CacheExpires(d) ==
  /\ cached[d] # None
  /\ cached' = [cached EXCEPT ![d] = None]
  /\ UNCHANGED <<remoteVars, cloneVars, working, task, deviceVars, missed, mishaps>>

-----------------------------------------------------------------------------
(* Syncs, each of one device in one step *)

\* Settings that are not in the cache are put there when they are read.
Filled(d) == [cached EXCEPT ![d] = IF @ = None THEN head["settings"] ELSE @]

\* What is in the cache is what is checked out.
Fresh(d) == cached[d] \in {None, head["settings"]}

\* A device that is set to what is generated now makes up for what was missed.
Caught(d) == IF Fresh(d) THEN missed \ {d} ELSE missed

\* A live run has the lock.
Sync(d) ==
  /\ task = Idle
  /\ conf' = [conf EXCEPT ![d] = Generated(d)]
  /\ synced' = [synced EXCEPT ![d] = TRUE]
  /\ missed' = Caught(d)
  /\ cached' = Filled(d)
  /\ UNCHANGED <<remoteVars, cloneVars, working, task, mishaps>>

DryRun(d) ==
  /\ synced' = [synced EXCEPT ![d] = conf[d] = Generated(d)]
  /\ missed' = IF conf[d] = Generated(d) THEN Caught(d) ELSE missed
  /\ cached' = Filled(d)
  /\ UNCHANGED <<remoteVars, cloneVars, working, task, conf, mishaps>>

-----------------------------------------------------------------------------
Remote == \E r \in Repos : Publish(r) \/ Relocate(r)

Refresh == \/ \E r \in Repos : Pull(r) \/ PullFails(r)
           \/ Rebuild \/ Fallback \/ MarkSettings \/ MarkTemplates

Mishaps == WorkerDies \/ RedisRestarts \/ \E d \in Devices : CacheExpires(d)

Syncs == \E d \in Devices : Sync(d) \/ DryRun(d)

Next == Remote \/ Refresh \/ Mishaps \/ Syncs

Spec == Init /\ [][Next]_vars

-----------------------------------------------------------------------------
(* Properties *)

\* The devices the refresh in progress has still to mark.
InProgress == Touched(task.repo, task.changed)

\* A device is flagged as synchronised only if it runs what is generated for
\* it now, except where a refresh did not mark it: one that failed or died
\* after the pull, one that took the settings back to the working commit,
\* the one that leaves that commit again, and one that cloned anew. Files
\* that a refresh does not mark for the devices that read them would be
\* another exception, and so would caches that are rebuilt too early or late.
FlagIsTrue ==
  \A d \in Devices :
    synced[d] /\ d \notin missed /\ d \notin InProgress => conf[d] = Generated(d)

\* The commit to fall back to has no errors, whatever became of the refresh
\* that saved it.
WorkingIsGood == working # None => FaultOf("settings", working) = "none"

\* As long as nothing fails but the settings themselves, a commit with an
\* error that the refresh catches is not used once a working one is known.
CaughtIsNotUsed ==
  mishaps = 0 /\ task = Idle /\ Known =>
    \A d \in Devices : FaultOf("settings", Used("settings", d)) # "caught"

\* "The last commit to the settings repository that did not encounter any
\* errors will be cached and used instead of a commit with errors. This cache
\* is cleared if redis is restarted." (docs/apiref/repository.rst)
ErrorsAreNotUsed ==
  mishaps = 0 /\ task = Idle /\ Known =>
    \A d \in Devices : FaultOf("settings", Used("settings", d)) = "none"

\* "If after refreshing settings for example NMS detects that settings files
\* for one device was changed, that device will be marked as unsynchronized."
\* (docs/tutorials/sync-status/index.rst): with nothing failing but the
\* settings, whose errors are caught, and no repository moved.
RefreshMarks ==
  /\ mishaps = 0 /\ task = Idle
  /\ \A r \in Repos : /\ branch[r] = head[r] /\ base[r] = 0
                      /\ \A c \in 1 .. upstream[r] : FaultOf(r, c) # "uncaught"
  => \A d \in Devices : synced[d] => conf[d] = Generated(d)
=============================================================================
