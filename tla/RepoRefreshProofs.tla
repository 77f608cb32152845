------------------------- MODULE RepoRefreshProofs -------------------------
(***************************************************************************)
(* Proofs about RepoRefresh: the flag of a device is true but for the      *)
(* exceptions that FlagIsTrue lists, and what the fall-back guarantees.    *)
(***************************************************************************)
EXTENDS RepoRefresh, TLAPS

-----------------------------------------------------------------------------
(* Files and commits *)

LEMMA TouchedBy ==
  ASSUME NEW r, NEW C, NEW d
  PROVE  d \in Touched(r, C) <=> \E c \in C : d \in ReadBy(FileOf(r, c))
BY DEF Touched

\* Commits that do not touch a device make no difference to what it sees.
LEMMA SeenSame ==
  ASSUME NEW r, NEW d, NEW m \in Nat, NEW n \in Nat, m <= n,
         d \notin Touched(r, (m + 1) .. n)
  PROVE  Seen(r, m, d) = Seen(r, n, d)
<1>1. \A c \in (m + 1) .. n : d \notin ReadBy(FileOf(r, c))
  BY TouchedBy
<1>2. \A c : c \in 1 .. n => c \in 1 .. m \/ c \in (m + 1) .. n
  OBVIOUS
<1>3. \A c : c \in 1 .. m => c \in 1 .. n
  OBVIOUS
<1> QED BY <1>1, <1>2, <1>3 DEF Seen

\* settings_syncstatus marks every device that reads one of the files.
LEMMA SettingsMarked ==
  ASSUME NEW F, \A f \in F : f.dir # "templates",
         NEW f \in F, NEW d \in ReadBy(f)
  PROVE  d \in SettingsSyncstatus(F)
BY RepoRefreshAssumption DEF SettingsSyncstatus, ReadBy

\* So does template_syncstatus.
LEMMA TemplatesMarked ==
  ASSUME NEW F, \A f \in F : f.dir = "templates",
         NEW f \in F, NEW d \in ReadBy(f)
  PROVE  d \in TemplateSyncstatus(F)
BY DEF TemplateSyncstatus, ReadBy

-----------------------------------------------------------------------------
(* Types *)

\* Where a refresh is tells which repository it refreshes and what is checked
\* out there.
Phase ==
  /\ task.at = "idle" => task = Idle
  /\ task.at \in {"rebuild", "fallback"} =>
       task.repo = "settings" /\ head["settings"] = branch["settings"]
  /\ task.at = "mark" /\ task.repo = "settings" =>
       \A d \in Devices : cached[d] \in {None, head["settings"]}

TypeInv == TypeOK /\ Phase

LEMMA TypeInit == Init => TypeInv
<1> SUFFICES ASSUME Init PROVE TypeInv
  OBVIOUS
<1>1. \A r \in Repos : history[r] \in Histories(r)
  BY DEF Init, Repos
<1> QED BY <1>1, RepoRefreshAssumption DEF Init, TypeInv, TypeOK, Phase, Idle, Repos

LEMMA TouchedDevices ==
  ASSUME NEW r, NEW C
  PROVE  Touched(r, C) \subseteq Devices
BY DEF Touched, ReadBy

LEMMA SeenNat ==
  ASSUME NEW r, NEW n, NEW d
  PROVE  Seen(r, n, d) \in SUBSET Nat
BY DEF Seen

LEMMA TypeStep == TypeInv /\ [Next]_vars => TypeInv'
<1> SUFFICES ASSUME TypeInv, [Next]_vars PROVE TypeInv'
  OBVIOUS
<1> USE RepoRefreshAssumption DEF TypeInv
<1>0. CASE UNCHANGED vars
  BY <1>0 DEF vars, remoteVars, cloneVars, redisVars, deviceVars, TypeOK, Phase, Histories, Files, Faults
<1>1. ASSUME NEW r \in Repos, Publish(r) PROVE TypeInv'
  BY <1>1 DEF Publish, cloneVars, redisVars, deviceVars, TypeOK, Phase
<1>2. ASSUME NEW r \in Repos, Relocate(r) PROVE TypeInv'
  BY <1>2 DEF Relocate, redisVars, deviceVars, TypeOK, Phase
<1>3. ASSUME NEW r \in Repos, Pull(r) PROVE TypeInv'
  BY <1>3, TouchedDevices DEF Pull, remoteVars, redisVars, deviceVars, TypeOK, Phase, Idle, Repos
<1>4. ASSUME NEW r \in Repos, PullFails(r) PROVE TypeInv'
  BY <1>4, TouchedDevices DEF PullFails, remoteVars, redisVars, deviceVars, TypeOK, Phase, Idle, Repos
<1>5. CASE Rebuild
  BY <1>5, TouchedDevices DEF Rebuild, Fail, remoteVars, cloneVars, deviceVars, TypeOK, Phase, Idle, Repos
<1>6. CASE Fallback
  BY <1>6, TouchedDevices DEF Fallback, Known, remoteVars, deviceVars, TypeOK, Phase, Idle, Repos
<1>7. CASE MarkSettings
  BY <1>7 DEF MarkSettings, remoteVars, cloneVars, redisVars, TypeOK, Phase, Idle, Repos
<1>8. CASE MarkTemplates
  <2>1. task' = Idle /\ missed' \in SUBSET Devices
    BY <1>8, TouchedDevices DEF MarkTemplates, Fail, TypeOK
  <2>2. synced' \in [Devices -> BOOLEAN]
    BY <1>8 DEF MarkTemplates, TypeOK
  <2> QED BY <1>8, <2>1, <2>2
          DEF MarkTemplates, remoteVars, cloneVars, redisVars, TypeOK, Phase, Idle, Repos
<1>9. CASE WorkerDies
  BY <1>9, TouchedDevices DEF WorkerDies, Fail, remoteVars, cloneVars, redisVars, deviceVars, TypeOK, Phase, Idle, Repos
<1>10. CASE RedisRestarts
  BY <1>10 DEF RedisRestarts, remoteVars, cloneVars, deviceVars, TypeOK, Phase, Idle, Repos
<1>11. ASSUME NEW d \in Devices, CacheExpires(d) PROVE TypeInv'
  BY <1>11 DEF CacheExpires, remoteVars, cloneVars, deviceVars, TypeOK, Phase, Idle, Repos
<1>12. ASSUME NEW d \in Devices, Sync(d) PROVE TypeInv'
  <2>1. Generated(d) \in [Repos -> SUBSET Nat]
    BY SeenNat DEF Generated
  <2> QED BY <1>12, <2>1 DEF Sync, Caught, Filled, remoteVars, cloneVars, TypeOK, Phase, Idle, Repos
<1>13. ASSUME NEW d \in Devices, DryRun(d) PROVE TypeInv'
  <2>1. (conf[d] = Generated(d)) \in BOOLEAN
    OBVIOUS
  <2> QED BY <1>13, <2>1 DEF DryRun, Caught, Filled, remoteVars, cloneVars, TypeOK, Phase, Idle, Repos
<1> QED
  BY <1>0, <1>1, <1>2, <1>3, <1>4, <1>5, <1>6, <1>7, <1>8, <1>9, <1>10, <1>11, <1>12, <1>13
     DEF Next, Remote, Refresh, Mishaps, Syncs

\* Every variable keeps its type: a head is never ahead of its branch, nor
\* what is saved or cached.
THEOREM TypeCorrect == Spec => []TypeOK
<1>1. TypeInv => TypeOK
  BY DEF TypeInv
<1> QED BY <1>1, TypeInit, TypeStep, PTL DEF Spec

LEMMA HistorySame == [Next]_vars => history' = history
<1> SUFFICES ASSUME [Next]_vars PROVE history' = history
  OBVIOUS
<1>1. CASE UNCHANGED vars
  BY <1>1 DEF vars, remoteVars
<1>2. CASE Remote
  BY <1>2 DEF Remote, Publish, Relocate
<1>3. CASE Refresh
  <2>1. ASSUME NEW r \in Repos, Pull(r) \/ PullFails(r) PROVE remoteVars' = remoteVars
    BY <2>1 DEF Pull, PullFails
  <2>2. CASE Rebuild \/ Fallback
    BY <2>2 DEF Rebuild, Fallback, remoteVars
  <2>3. CASE MarkSettings \/ MarkTemplates
    BY <2>3 DEF MarkSettings, MarkTemplates, remoteVars
  <2> QED BY <1>3, <2>1, <2>2, <2>3 DEF Refresh, remoteVars
<1>4. CASE Mishaps
  BY <1>4 DEF Mishaps, WorkerDies, RedisRestarts, CacheExpires, remoteVars
<1>5. CASE Syncs
  BY <1>5 DEF Syncs, Sync, DryRun, remoteVars
<1> QED BY <1>1, <1>2, <1>3, <1>4, <1>5 DEF Next

-----------------------------------------------------------------------------
(* The working commit, and what is read when nothing fails but the settings *)

\* Outside of a refresh of the settings, a commit with an error that is
\* caught is checked out only if there is none to fall back to.
HeadIsGood ==
  mishaps = 0 /\ Known /\ task.at \notin {"rebuild", "fallback"} =>
    FaultOf("settings", head["settings"]) # "caught"

\* Nor is it in the cache.
CachedIsGood ==
  mishaps = 0 /\ Known /\ task.at \notin {"rebuild", "fallback"} =>
    \A d \in Devices : cached[d] # None => FaultOf("settings", cached[d]) # "caught"

GoodInv == WorkingIsGood /\ CachedIsGood /\ HeadIsGood

LEMMA GoodInit == Init => GoodInv
BY DEF Init, GoodInv, WorkingIsGood, CachedIsGood, HeadIsGood, FaultOf, Repos

LEMMA GoodStep == TypeInv /\ GoodInv /\ [Next]_vars => GoodInv'
<1> SUFFICES ASSUME TypeInv, GoodInv, [Next]_vars PROVE GoodInv'
  OBVIOUS
<1>h. history' = history
  BY HistorySame
<1>a. mishaps \in Nat /\ working \in Nat \cup {None} /\ head \in [Repos -> Nat]
  BY RepoRefreshAssumption DEF TypeInv, TypeOK, Repos
<1>1. CASE UNCHANGED <<redisVars, task, mishaps, head, base>>
  BY <1>1, <1>h DEF GoodInv, WorkingIsGood, CachedIsGood, HeadIsGood, FaultOf, Known, redisVars
<1>2. ASSUME NEW r \in Repos, Pull(r) PROVE GoodInv'
  <2>1. CASE r = "settings"
    BY <1>2, <2>1, <1>h
       DEF Pull, redisVars, GoodInv, WorkingIsGood, CachedIsGood, HeadIsGood, FaultOf
  <2>2. CASE r = "templates"
    <3>1. head'["settings"] = head["settings"] /\ base'["settings"] = base["settings"]
      BY <1>2, <2>2 DEF Pull, TypeInv, TypeOK, Repos
    <3>2. task = Idle /\ task.at = "idle" /\ UNCHANGED <<redisVars, mishaps>>
      BY <1>2 DEF Pull, Idle
    <3> QED BY <3>1, <3>2, <1>h
            DEF redisVars, GoodInv, WorkingIsGood, CachedIsGood, HeadIsGood, FaultOf, Known
  <2> QED BY <1>2, <2>1, <2>2 DEF Repos
<1>3. ASSUME NEW r \in Repos, PullFails(r) PROVE GoodInv'
  <2>1. mishaps' # 0
    BY <1>3, <1>a DEF PullFails
  <2> QED BY <1>3, <2>1, <1>h
          DEF PullFails, redisVars, GoodInv, WorkingIsGood, CachedIsGood, HeadIsGood, FaultOf
<1>4. CASE Rebuild
  <2>1. UNCHANGED <<head, base, mishaps>>
    BY <1>4 DEF Rebuild, cloneVars
  <2>2. CASE FaultOf("settings", head["settings"]) = "none"
    BY <1>4, <2>1, <2>2, <1>h
       DEF Rebuild, GoodInv, WorkingIsGood, CachedIsGood, HeadIsGood, FaultOf
  <2>3. CASE FaultOf("settings", head["settings"]) = "caught"
    <3>1. working' = working /\ task'.at = "fallback"
      BY <1>4, <2>3 DEF Rebuild, TypeInv, TypeOK
    <3> QED BY <3>1, <2>1, <1>h DEF GoodInv, WorkingIsGood, CachedIsGood, HeadIsGood, FaultOf
  <2>4. CASE FaultOf("settings", head["settings"]) = "uncaught"
    BY <1>4, <2>1, <2>4, <1>h
       DEF Rebuild, GoodInv, WorkingIsGood, CachedIsGood, HeadIsGood, FaultOf
  <2> QED BY <1>4, <2>2, <2>3, <2>4 DEF Rebuild
<1>5. CASE Fallback
  <2>1. CASE Known
    <3>1. working # None /\ working' = working /\ cached' = [d \in Devices |-> working]
      BY <1>5, <2>1 DEF Fallback, Known
    <3>2. head'["settings"] = working
      BY <1>5, <2>1, <1>a DEF Fallback, Repos
    <3> QED BY <3>1, <3>2, <1>h DEF GoodInv, WorkingIsGood, CachedIsGood, HeadIsGood, FaultOf
  <2>2. CASE ~Known
    BY <1>5, <2>2, <1>h
       DEF Fallback, Known, GoodInv, WorkingIsGood, CachedIsGood, HeadIsGood, FaultOf
  <2> QED BY <2>1, <2>2
<1>6. CASE MarkSettings \/ MarkTemplates
  <2>1. task.at = "mark" /\ UNCHANGED <<redisVars, head, base, mishaps>>
    BY <1>6 DEF MarkSettings, MarkTemplates, cloneVars
  <2> QED BY <2>1, <1>h
          DEF redisVars, GoodInv, WorkingIsGood, CachedIsGood, HeadIsGood, FaultOf, Known
<1>7. CASE WorkerDies \/ RedisRestarts
  <2>1. mishaps' # 0
    BY <1>7, <1>a DEF WorkerDies, RedisRestarts
  <2> QED BY <1>7, <2>1, <1>h
          DEF WorkerDies, RedisRestarts, redisVars, GoodInv, WorkingIsGood, CachedIsGood,
              HeadIsGood, FaultOf
<1>8. ASSUME NEW d \in Devices, CacheExpires(d) \/ Sync(d) \/ DryRun(d) PROVE GoodInv'
  <2>1. UNCHANGED <<working, head, base, task, mishaps>>
    BY <1>8 DEF CacheExpires, Sync, DryRun, cloneVars
  <2>2. \A e \in Devices : cached'[e] \in {None, cached[e], head["settings"]}
    BY <1>8 DEF CacheExpires, Sync, DryRun, Filled, TypeInv, TypeOK
  <2> QED BY <2>1, <2>2, <1>h
          DEF GoodInv, WorkingIsGood, CachedIsGood, HeadIsGood, FaultOf, Known
<1>9. Next \/ UNCHANGED vars
  OBVIOUS
<1> QED
  <2>1. CASE UNCHANGED vars
    BY <1>1, <2>1 DEF vars, cloneVars
  <2>2. CASE Remote
    BY <1>1, <2>2 DEF Remote, Publish, Relocate, cloneVars
  <2>3. CASE Syncs
    BY <1>8, <2>3 DEF Syncs
  <2>4. CASE Refresh
    BY <2>4, <1>2, <1>3, <1>4, <1>5, <1>6 DEF Refresh
  <2>5. CASE Mishaps
    BY <2>5, <1>7, <1>8 DEF Mishaps
  <2> QED BY <1>9, <2>1, <2>2, <2>3, <2>4, <2>5 DEF Next

\* Whatever fails, the commit that is fallen back to has no errors.
THEOREM WorkingAlwaysGood == Spec => []WorkingIsGood
<1>1. GoodInv => WorkingIsGood
  BY DEF GoodInv
<1> QED BY <1>1, TypeInit, TypeStep, GoodInit, GoodStep, PTL DEF Spec

\* As long as nothing fails but the settings, an error that is caught is not
\* used once a working commit is known.
THEOREM CaughtNeverUsed == Spec => []CaughtIsNotUsed
<1>1. GoodInv => CaughtIsNotUsed
  BY DEF GoodInv, CachedIsGood, HeadIsGood, CaughtIsNotUsed, Used, Idle
<1> QED BY <1>1, TypeInit, TypeStep, GoodInit, GoodStep, PTL DEF Spec

-----------------------------------------------------------------------------
(* The flag *)

\* What is generated from what is checked out.
HeadSeen(d) == [r \in Repos |-> Seen(r, head[r], d)]

\* The devices a refresh of the settings has still to mark.
SettingsInProgress == IF task.repo = "settings" THEN InProgress ELSE {}

\* The settings cache differs from what is checked out only for devices that
\* are to be marked, or that were missed.
CacheLags ==
  \A d \in Devices \ (missed \cup SettingsInProgress) :
    cached[d] # None => Seen("settings", cached[d], d) = Seen("settings", head["settings"], d)

\* So does the configuration of a device that is flagged.
FlagFollowsHead ==
  \A d \in Devices \ (missed \cup InProgress) : synced[d] => conf[d] = HeadSeen(d)

FlagInv == CacheLags /\ FlagFollowsHead

\* With both, the flag tells the truth.
LEMMA GeneratedIsSeen ==
  ASSUME TypeInv, CacheLags, NEW d \in Devices,
         d \notin missed, d \notin SettingsInProgress
  PROVE  Generated(d) = HeadSeen(d)
<1>1. \A r \in Repos : Seen(r, Used(r, d), d) = Seen(r, head[r], d)
  BY DEF CacheLags, Used
<1> QED BY <1>1 DEF Generated, HeadSeen

LEMMA FlagInit == Init => FlagInv
<1> SUFFICES ASSUME Init PROVE FlagInv
  OBVIOUS
<1>1. \A r \in Repos, d \in Devices : Seen(r, head[r], d) = {}
  <2>1. \A r \in Repos : 1 .. head[r] = {}
    BY DEF Init
  <2> QED BY <2>1 DEF Seen
<1>2. \A d \in Devices : conf[d] = HeadSeen(d)
  BY <1>1 DEF Init, HeadSeen
<1>3. \A d \in Devices : cached[d] = head["settings"]
  BY DEF Init, Repos
<1> QED BY <1>2, <1>3 DEF FlagInv, CacheLags, FlagFollowsHead

LEMMA InProgressNext ==
  ASSUME history' = history
  PROVE  InProgress' = Touched(task'.repo, task'.changed)
BY DEF InProgress, Touched, FileOf

LEMMA HeadSeenNext ==
  ASSUME history' = history, NEW d
  PROVE  HeadSeen(d)' = [r \in Repos |-> Seen(r, head'[r], d)]
BY DEF HeadSeen, Seen, FileOf

LEMMA NothingInProgress ==
  ASSUME task = Idle
  PROVE  InProgress = {} /\ SettingsInProgress = {}
BY DEF InProgress, SettingsInProgress, Touched, Idle

\* The devices a step may not disturb: flagged, and neither missed nor to be
\* marked.
Flagged == {d \in Devices \ (missed \cup InProgress) : synced[d]}

\* A step that changes neither what is checked out nor the devices'
\* configurations, flags no more devices, and either keeps the cache and those
\* it may lag for or makes it what is checked out.
LEMMA FlagKept ==
  ASSUME FlagInv, UNCHANGED <<history, head, conf>>, Flagged' \subseteq Flagged,
         \/ /\ cached' = cached
            /\ missed \cup SettingsInProgress \subseteq (missed \cup SettingsInProgress)'
         \/ \A d \in Devices : cached'[d] \in {None, head["settings"]}
  PROVE  FlagInv'
<1>1. ASSUME NEW d \in Flagged' PROVE conf'[d] = HeadSeen(d)'
  <2>1. conf[d] = HeadSeen(d)
    BY <1>1 DEF FlagInv, FlagFollowsHead, Flagged
  <2>2. HeadSeen(d)' = HeadSeen(d)
    BY HeadSeenNext DEF HeadSeen
  <2> QED BY <2>1, <2>2
<1>2. FlagFollowsHead'
  BY <1>1 DEF FlagFollowsHead, Flagged
<1>3. ASSUME NEW d \in (Devices \ (missed \cup SettingsInProgress))', cached'[d] # None
      PROVE  Seen("settings", cached[d], d)' = Seen("settings", head["settings"], d)'
  <2>1. CASE cached'[d] = head["settings"]
    BY <2>1
  <2>2. CASE cached' = cached /\ d \notin missed \cup SettingsInProgress
    <3>1. Seen("settings", cached[d], d) = Seen("settings", head["settings"], d)
      BY <1>3, <2>2 DEF FlagInv, CacheLags
    <3>2. Seen("settings", cached[d], d)' = Seen("settings", cached[d], d)
      BY <2>2 DEF Seen, FileOf
    <3>3. Seen("settings", head["settings"], d)' = Seen("settings", head["settings"], d)
      BY DEF Seen, FileOf
    <3> QED BY <3>1, <3>2, <3>3
  <2> QED BY <1>3, <2>1, <2>2
<1>4. CacheLags'
  BY <1>3 DEF CacheLags
<1> QED BY <1>2, <1>4 DEF FlagInv

\* A pull, or the reset before one that fails: whoever is neither missed nor
\* to be marked sees no difference.
LEMMA PullKeepsHead ==
  ASSUME TypeInv, FlagInv, NEW r \in Repos, Pull(r) \/ PullFails(r),
         NEW d \in Devices, d \notin missed', d \notin InProgress'
  PROVE  /\ d \notin missed
         /\ HeadSeen(d)' = HeadSeen(d)
         /\ d \notin SettingsInProgress'
         /\ Seen("settings", head["settings"], d)' = Seen("settings", head["settings"], d)
<1>0. history' = history /\ task = Idle
  BY DEF Pull, PullFails, remoteVars
<1>1. d \notin missed /\ d \notin SettingsInProgress'
  BY DEF Pull, PullFails, SettingsInProgress
<1>2. /\ head \in [Repos -> Nat] /\ branch \in [Repos -> Nat] /\ upstream \in [Repos -> Nat]
      /\ head[r] <= branch[r] /\ branch[r] <= upstream[r]
  BY DEF TypeInv, TypeOK
<1>3. Seen(r, head[r], d) = Seen(r, branch[r], d)
  <2>1. d \notin Touched(r, (head[r] + 1) .. branch[r])
    BY DEF Pull, PullFails
  <2> QED BY <1>2, <2>1, SeenSame
<1>4. Seen(r, head'[r], d) = Seen(r, head[r], d)
  <2>1. CASE PullFails(r)
    BY <2>1, <1>2, <1>3 DEF PullFails
  <2>2. CASE Pull(r)
    <3>1. d \notin Touched(r, (branch[r] + 1) .. upstream[r])
      <4>1. CASE moved[r]
        BY <2>2, <4>1 DEF Pull
      <4>2. CASE ~moved[r]
        <5>1. task'.repo = r /\ task'.changed = (branch[r] + 1) .. upstream[r]
          BY <2>2, <4>2 DEF Pull
        <5> QED BY <5>1, <1>0, InProgressNext
      <4> QED BY <4>1, <4>2
    <3>2. Seen(r, branch[r], d) = Seen(r, upstream[r], d)
      BY <1>2, <3>1, SeenSame
    <3>3. head'[r] = upstream[r]
      BY <2>2, <1>2 DEF Pull
    <3> QED BY <3>2, <3>3, <1>3
  <2> QED BY <2>1, <2>2
<1>5. \A q \in Repos : Seen(q, head'[q], d) = Seen(q, head[q], d)
  <2>1. \A q \in Repos \ {r} : head'[q] = head[q]
    BY <1>2 DEF Pull, PullFails
  <2> QED BY <2>1, <1>4
<1>6. HeadSeen(d)' = HeadSeen(d)
  BY <1>0, <1>5, HeadSeenNext DEF HeadSeen
<1>7. Seen("settings", head["settings"], d)' = Seen("settings", head'["settings"], d)
  BY <1>0 DEF Seen, FileOf
<1> QED BY <1>1, <1>5, <1>6, <1>7 DEF Repos

LEMMA PullKeepsFlag ==
  ASSUME TypeInv, FlagInv, NEW r \in Repos, Pull(r) \/ PullFails(r)
  PROVE  FlagInv'
<1>1. history' = history /\ task = Idle /\ UNCHANGED <<redisVars, conf, synced>>
  BY DEF Pull, PullFails, remoteVars, deviceVars
<1>2. InProgress = {} /\ SettingsInProgress = {}
  BY <1>1, NothingInProgress
<1>3. FlagFollowsHead'
  <2> SUFFICES ASSUME NEW d \in Devices, d \notin missed', d \notin InProgress', synced'[d]
               PROVE  conf'[d] = HeadSeen(d)'
    BY DEF FlagFollowsHead
  <2>1. d \notin missed /\ HeadSeen(d)' = HeadSeen(d)
    BY PullKeepsHead
  <2> QED BY <2>1, <1>1, <1>2 DEF FlagInv, FlagFollowsHead
<1>4. ASSUME NEW d \in Devices, d \notin missed', d \notin SettingsInProgress'
      PROVE  /\ d \notin missed
             /\ Seen("settings", head["settings"], d)' = Seen("settings", head["settings"], d)
  <2>1. CASE r = "settings"
    <3>1. task'.repo = "settings"
      BY <1>1, <2>1 DEF Pull, PullFails, Idle
    <3>2. d \notin InProgress'
      BY <1>4, <3>1 DEF SettingsInProgress
    <3> QED BY <1>4, <3>2, PullKeepsHead
  <2>2. CASE r = "templates"
    <3>1. head'["settings"] = head["settings"] /\ missed \subseteq missed'
      BY <2>2 DEF Pull, PullFails, TypeInv, TypeOK, Repos
    <3> QED BY <1>1, <1>4, <3>1 DEF Seen, FileOf
  <2> QED BY <2>1, <2>2 DEF Repos
<1>5. CacheLags'
  <2> SUFFICES ASSUME NEW d \in Devices, d \notin missed', d \notin SettingsInProgress', cached'[d] # None
               PROVE  Seen("settings", cached[d], d)' = Seen("settings", head["settings"], d)'
    BY DEF CacheLags
  <2>1. Seen("settings", cached[d], d) = Seen("settings", head["settings"], d)
    BY <1>1, <1>2, <1>4 DEF FlagInv, CacheLags, redisVars
  <2>2. Seen("settings", cached[d], d)' = Seen("settings", cached[d], d)
    BY <1>1 DEF Seen, FileOf, redisVars
  <2> QED BY <1>4, <2>1, <2>2
<1> QED BY <1>3, <1>5 DEF FlagInv

\* Falling back: so do the devices whose settings no commit in between touched.
LEMMA FallbackKeepsFlag ==
  ASSUME TypeInv, FlagInv, Fallback
  PROVE  FlagInv'
<1>1. /\ task.at = "fallback" /\ task.repo = "settings" /\ task' = Idle
      /\ history' = history /\ UNCHANGED <<conf, synced>>
      /\ InProgress \subseteq missed' /\ missed \subseteq missed'
      /\ InProgress' = {} /\ SettingsInProgress = InProgress
  <2>1. task' = Idle /\ history' = history /\ task.at = "fallback"
    BY DEF Fallback, remoteVars
  <2>2. task.repo = "settings"
    BY <2>1 DEF TypeInv, Phase
  <2>3. InProgress' = {}
    BY <2>1, InProgressNext DEF Idle, Touched
  <2> QED BY <2>1, <2>2, <2>3 DEF Fallback, InProgress, SettingsInProgress, deviceVars
<1>2. CASE ~Known
  <2>1. UNCHANGED <<head, cached>>
    BY <1>2 DEF Fallback
  <2>2. missed \cup SettingsInProgress \subseteq (missed \cup SettingsInProgress)'
    BY <1>1
  <2>3. Flagged' \subseteq Flagged
    BY <1>1 DEF Flagged
  <2> QED BY <1>1, <2>1, <2>2, <2>3, FlagKept
<1>3. CASE Known
  <2>1. /\ cached' = [d \in Devices |-> working] /\ head'["settings"] = working
        /\ head'["templates"] = head["templates"]
    BY <1>3 DEF Fallback, TypeInv, TypeOK, Repos
  <2>2. working \in Nat /\ head["settings"] \in Nat /\ working <= head["settings"]
    BY <1>1, <1>3 DEF Known, TypeInv, TypeOK, Phase, Repos
  <2>3. ASSUME NEW d \in Flagged' PROVE conf'[d] = HeadSeen(d)'
    <3>1. d \notin Touched("settings", (working + 1) .. head["settings"])
      BY <1>3, <2>3 DEF Fallback, Flagged
    <3>2. Seen("settings", working, d) = Seen("settings", head["settings"], d)
      BY <2>2, <3>1, SeenSame
    <3>3. \A q \in Repos : Seen(q, head'[q], d) = Seen(q, head[q], d)
      BY <2>1, <3>2 DEF Repos
    <3>4. HeadSeen(d)' = HeadSeen(d)
      BY <1>1, <3>3, HeadSeenNext DEF HeadSeen
    <3>5. conf[d] = HeadSeen(d)
      BY <1>1, <2>3 DEF Flagged, FlagInv, FlagFollowsHead
    <3> QED BY <1>1, <3>4, <3>5
  <2>4. FlagFollowsHead'
    BY <2>3 DEF FlagFollowsHead, Flagged
  <2>5. CacheLags'
    BY <2>1 DEF CacheLags, Seen
  <2> QED BY <2>4, <2>5 DEF FlagInv
<1> QED BY <1>2, <1>3

\* The files a refresh counts as changed are files of its repository.
LEMMA ChangedAreFiles ==
  ASSUME TypeInv
  PROVE  ChangedFiles \subseteq Files(task.repo)
<1>1. task.repo \in Repos /\ task.changed \subseteq 1 .. branch[task.repo]
  BY DEF TypeInv, TypeOK
<1>2. branch[task.repo] \in Nat /\ Commits[task.repo] \in Nat /\ branch[task.repo] <= Commits[task.repo]
  <2>1. /\ branch[task.repo] <= upstream[task.repo]
        /\ upstream[task.repo] <= Commits[task.repo]
    BY <1>1 DEF TypeInv, TypeOK
  <2>2. branch[task.repo] \in Nat /\ upstream[task.repo] \in Nat /\ Commits[task.repo] \in Nat
    BY <1>1, RepoRefreshAssumption DEF TypeInv, TypeOK
  <2> QED BY <2>1, <2>2
<1>3. \A c \in task.changed : c \in 1 .. Commits[task.repo]
  BY <1>1, <1>2
<1>4. history[task.repo] \in Histories(task.repo)
  BY <1>1 DEF TypeInv, TypeOK
<1>5. \A c \in task.changed : FileOf(task.repo, c) \in Files(task.repo)
  BY <1>3, <1>4 DEF Histories, FileOf
<1> QED BY <1>5 DEF ChangedFiles

\* The devices a refresh marks are all those it had to mark.
LEMMA AllAreMarked ==
  ASSUME TypeInv, NEW d \in InProgress
  PROVE  /\ task.repo = "settings" => d \in SettingsSyncstatus(ChangedFiles)
         /\ task.repo = "templates" => d \in TemplateSyncstatus(ChangedFiles)
<1>1. PICK f \in ChangedFiles : d \in ReadBy(f)
  BY TouchedBy DEF InProgress, ChangedFiles
<1>2. CASE task.repo = "settings"
  <2>1. \A g \in ChangedFiles : g.dir # "templates"
    BY <1>2, ChangedAreFiles, RepoRefreshAssumption DEF Files
  <2> QED BY <1>1, <1>2, <2>1, SettingsMarked
<1>3. CASE task.repo = "templates"
  <2>1. \A g \in ChangedFiles : g.dir = "templates"
    BY <1>3, ChangedAreFiles, RepoRefreshAssumption DEF Files
  <2> QED BY <1>1, <1>3, <2>1, TemplatesMarked
<1> QED BY <1>2, <1>3

\* A refresh that ends, however it does.
LEMMA EndKeepsFlag ==
  ASSUME TypeInv, FlagInv, UNCHANGED <<history, head, conf>>, task' = Idle,
         missed \subseteq missed',
         \A d \in Devices : synced'[d] => synced[d] /\ d \notin InProgress \ missed',
         \/ cached' = cached /\ SettingsInProgress \subseteq missed'
         \/ \A d \in Devices : cached'[d] \in {None, head["settings"]}
  PROVE  FlagInv'
<1>1. InProgress' = {}
  BY InProgressNext DEF Touched, Idle
<1>2. Flagged' \subseteq Flagged
  BY <1>1 DEF Flagged
<1>3. missed \cup SettingsInProgress \subseteq missed' => missed \cup SettingsInProgress \subseteq (missed \cup SettingsInProgress)'
  OBVIOUS
<1> QED BY <1>2, <1>3, FlagKept

LEMMA MarkKeepsFlag ==
  ASSUME TypeInv, FlagInv, MarkSettings \/ MarkTemplates
  PROVE  FlagInv'
<1>1. UNCHANGED <<history, head, conf, cached>> /\ task' = Idle /\ missed \subseteq missed'
  BY DEF MarkSettings, MarkTemplates, Fail, remoteVars, cloneVars, redisVars
<1>2. CASE MarkSettings
  <2>1. \A d \in Devices : cached'[d] \in {None, head["settings"]}
    BY <1>1, <1>2 DEF MarkSettings, TypeInv, Phase
  <2>2. \A d \in Devices : synced'[d] => synced[d] /\ d \notin InProgress
    BY <1>2, AllAreMarked DEF MarkSettings
  <2> QED BY <1>1, <2>1, <2>2, EndKeepsFlag
<1>3. CASE MarkTemplates
  <2>1. SettingsInProgress = {}
    BY <1>3 DEF MarkTemplates, SettingsInProgress
  <2>2. \A d \in Devices : synced'[d] => synced[d] /\ d \notin InProgress \ missed'
    <3>1. CASE Fail /\ UNCHANGED synced
      BY <3>1 DEF Fail, InProgress
    <3>2. CASE synced' = [d \in Devices |-> synced[d] /\ d \notin TemplateSyncstatus(ChangedFiles)]
      BY <1>3, <3>2, AllAreMarked DEF MarkTemplates
    <3> QED BY <1>3, <3>1, <3>2 DEF MarkTemplates
  <2> QED BY <1>1, <2>1, <2>2, EndKeepsFlag
<1> QED BY <1>2, <1>3

LEMMA RebuildKeepsFlag ==
  ASSUME TypeInv, FlagInv, Rebuild
  PROVE  FlagInv'
<1>1. /\ UNCHANGED <<history, head, conf, synced>>
      /\ \A d \in Devices : cached'[d] \in {None, head["settings"]}
  BY DEF Rebuild, remoteVars, cloneVars, deviceVars
<1>2. CASE Fail
  BY <1>1, <1>2, EndKeepsFlag DEF Fail, InProgress
<1>3. CASE ~Fail
  <2>1. \/ missed' = missed /\ task' = [task EXCEPT !.at = "mark"]
        \/ missed' = missed /\ task' = [task EXCEPT !.at = "fallback"]
    BY <1>3 DEF Rebuild
  <2>2. task'.repo = task.repo /\ task'.changed = task.changed
    BY <2>1 DEF TypeInv, TypeOK
  <2>3. InProgress' = InProgress
    BY <1>1, <2>2, InProgressNext DEF InProgress
  <2>4. Flagged' \subseteq Flagged
    BY <1>1, <2>1, <2>3 DEF Flagged
  <2> QED BY <1>1, <2>4, FlagKept
<1> QED BY <1>2, <1>3

\* A device that is set to what is generated now, or found to run it.
LEMMA SyncKeepsFlag ==
  ASSUME TypeInv, FlagInv, NEW d \in Devices, Sync(d) \/ DryRun(d)
  PROVE  FlagInv'
<1>1. /\ UNCHANGED <<history, head, task>> /\ missed' \in {missed, Caught(d)}
      /\ cached' = Filled(d)
  BY DEF Sync, DryRun, remoteVars, cloneVars
<1>2. InProgress' = InProgress /\ SettingsInProgress' = SettingsInProgress
  BY <1>1, InProgressNext DEF InProgress, SettingsInProgress
<1>3. \A e \in Devices : HeadSeen(e)' = HeadSeen(e)
  BY <1>1, HeadSeenNext DEF HeadSeen
<1>4. ASSUME NEW e \in Devices, e \notin missed', e \notin SettingsInProgress
      PROVE  cached[e] # None => Seen("settings", cached[e], e) = Seen("settings", head["settings"], e)
  <2>1. CASE e = d /\ Fresh(d)
    BY <2>1 DEF Fresh
  <2>2. CASE e \notin missed
    BY <1>4, <2>2 DEF FlagInv, CacheLags
  <2> QED BY <1>1, <1>4, <2>1, <2>2 DEF Caught
<1>5. CacheLags'
  <2> SUFFICES ASSUME NEW e \in Devices, e \notin missed', e \notin SettingsInProgress', cached'[e] # None
               PROVE  Seen("settings", cached[e], e)' = Seen("settings", head["settings"], e)'
    BY DEF CacheLags
  <2>1. cached'[e] \in {cached[e], head["settings"]} /\ (cached[e] = None => cached'[e] = head["settings"])
    BY <1>1 DEF Filled, TypeInv, TypeOK
  <2>2. Seen("settings", cached'[e], e) = Seen("settings", head["settings"], e)
    BY <1>2, <1>4, <2>1
  <2>3. /\ Seen("settings", cached[e], e)' = Seen("settings", cached'[e], e)
        /\ Seen("settings", head["settings"], e)' = Seen("settings", head["settings"], e)
    BY <1>1 DEF Seen, FileOf
  <2> QED BY <2>2, <2>3
<1>6. ASSUME NEW e \in Devices, e \notin missed', e \notin InProgress', synced'[e]
      PROVE  conf'[e] = HeadSeen(e)
  <2>1. CASE e = d
    <3>1. conf'[d] = Generated(d)
      BY <1>6, <2>1 DEF Sync, DryRun, TypeInv, TypeOK
    <3>2. \A r \in Repos : Seen(r, Used(r, d), d) = Seen(r, head[r], d)
      BY <1>2, <1>4, <1>6, <2>1 DEF Used, SettingsInProgress
    <3> QED BY <2>1, <3>1, <3>2 DEF Generated, HeadSeen
  <2>2. CASE e # d
    <3>1. synced[e] /\ conf'[e] = conf[e]
      BY <1>6, <2>2 DEF Sync, DryRun, TypeInv, TypeOK
    <3>2. e \notin missed
      BY <1>1, <1>6, <2>2 DEF Caught
    <3> QED BY <1>2, <1>6, <3>1, <3>2 DEF FlagInv, FlagFollowsHead
  <2> QED BY <2>1, <2>2
<1>7. FlagFollowsHead'
  BY <1>3, <1>6 DEF FlagFollowsHead
<1> QED BY <1>5, <1>7 DEF FlagInv

LEMMA ExpiryKeepsFlag ==
  ASSUME TypeInv, FlagInv, NEW d \in Devices, CacheExpires(d)
  PROVE  FlagInv'
<1>1. UNCHANGED <<history, head, conf, synced, missed, task>>
  BY DEF CacheExpires, remoteVars, cloneVars, deviceVars
<1>2. InProgress' = InProgress /\ SettingsInProgress' = SettingsInProgress
  BY <1>1, InProgressNext DEF InProgress, SettingsInProgress
<1>3. FlagFollowsHead'
  <2>1. \A e \in Devices : HeadSeen(e)' = HeadSeen(e)
    BY <1>1, HeadSeenNext DEF HeadSeen
  <2> QED BY <1>1, <1>2, <2>1 DEF FlagInv, FlagFollowsHead
<1>4. CacheLags'
  <2> SUFFICES ASSUME NEW e \in Devices, e \notin missed, e \notin SettingsInProgress, cached'[e] # None
               PROVE  Seen("settings", cached[e], e)' = Seen("settings", head["settings"], e)'
    BY <1>1, <1>2 DEF CacheLags
  <2>1. cached'[e] = cached[e]
    BY DEF CacheExpires, TypeInv, TypeOK
  <2>2. Seen("settings", cached[e], e) = Seen("settings", head["settings"], e)
    BY <2>1 DEF FlagInv, CacheLags
  <2>3. /\ Seen("settings", cached[e], e)' = Seen("settings", cached[e], e)
        /\ Seen("settings", head["settings"], e)' = Seen("settings", head["settings"], e)
    BY <1>1, <2>1 DEF Seen, FileOf
  <2> QED BY <2>2, <2>3
<1> QED BY <1>3, <1>4 DEF FlagInv

LEMMA FlagStep == TypeInv /\ FlagInv /\ [Next]_vars => FlagInv'
<1> SUFFICES ASSUME TypeInv, FlagInv, [Next]_vars PROVE FlagInv'
  OBVIOUS
<1>1. CASE /\ UNCHANGED <<history, head, conf, synced, missed, task>>
           /\ cached' = cached \/ \A d \in Devices : cached'[d] = None
  <2>1. InProgress' = InProgress /\ SettingsInProgress' = SettingsInProgress
    BY <1>1, InProgressNext DEF InProgress, SettingsInProgress
  <2>2. Flagged' \subseteq Flagged
    BY <1>1, <2>1 DEF Flagged
  <2> QED BY <1>1, <2>1, <2>2, FlagKept
<1>2. CASE UNCHANGED vars
  BY <1>1, <1>2 DEF vars, remoteVars, cloneVars, redisVars, deviceVars
<1>3. CASE Remote
  BY <1>1, <1>3 DEF Remote, Publish, Relocate, cloneVars, redisVars, deviceVars
<1>4. CASE Refresh
  BY <1>4, PullKeepsFlag, RebuildKeepsFlag, FallbackKeepsFlag, MarkKeepsFlag DEF Refresh
<1>5. CASE WorkerDies
  <2>1. UNCHANGED <<history, head, conf, synced, cached>> /\ Fail
    BY <1>5 DEF WorkerDies, remoteVars, cloneVars, redisVars, deviceVars
  <2> QED BY <2>1, EndKeepsFlag DEF Fail, InProgress, SettingsInProgress
<1>6. CASE RedisRestarts
  BY <1>1, <1>6 DEF RedisRestarts, remoteVars, cloneVars, deviceVars
<1>8. ASSUME NEW d \in Devices, CacheExpires(d) PROVE FlagInv'
  BY <1>8, ExpiryKeepsFlag
<1>7. CASE Syncs
  BY <1>7, SyncKeepsFlag DEF Syncs
<1> QED BY <1>2, <1>3, <1>4, <1>5, <1>6, <1>7, <1>8 DEF Next, Mishaps

\* A device that is flagged as synchronised runs what is generated for it,
\* but for those a refresh did not mark in one of the known ways, whatever
\* the files, the commits, their faults and the devices are.
THEOREM FlagsAreTrue == Spec => []FlagIsTrue
<1>1. TypeInv /\ FlagInv => FlagIsTrue
  <2> SUFFICES ASSUME TypeInv, FlagInv, NEW d \in Devices, synced[d], d \notin missed, d \notin InProgress
               PROVE  conf[d] = Generated(d)
    BY DEF FlagIsTrue
  <2>1. conf[d] = HeadSeen(d)
    BY DEF FlagInv, FlagFollowsHead
  <2>2. d \notin SettingsInProgress
    BY DEF SettingsInProgress
  <2> QED BY <2>1, <2>2, GeneratedIsSeen DEF FlagInv
<1> QED BY <1>1, TypeInit, TypeStep, FlagInit, FlagStep, PTL DEF Spec
=============================================================================
