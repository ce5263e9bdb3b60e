-------------------------- MODULE BrowserCacheProofs --------------------------
(***************************************************************************)
(* Proofs about BrowserCache for every set of versions, addons and files,  *)
(* and whatever is listed.  What the cache promises it promises to         *)
(* processes that use it one after another (OneAtATime).                   *)
(***************************************************************************)
EXTENDS BrowserCache, TLAPS

(* What is under a place is an entry of that place. *)
LEMMA EntryOfPlace ==
  ASSUME TypeOK, NEW place \in Dirs, NEW e \in Entries(place)
  PROVE  e[3] \in Marks /\ e = In(place, e[3])
<1> USE DEF Dirs, Inst, Tmp, Addon, In
<1>1. e \in disk /\ e[1] = place[1] /\ e[2] = place[2]
  BY DEF Entries
<1>2. place[1] \in {"inst", "tmp", "addon"}
  OBVIOUS
<1>3. PICK d \in Dirs, f \in Marks : e = In(d, f)
  BY <1>1, <1>2 DEF TypeOK, Flag, FlagMark, MMDB, Configs, Config
<1>4. QED
  BY <1>1, <1>3

LEMMA PlaceIsEmpty ==
  ASSUME TypeOK, NEW place \in Dirs
  PROVE  Entries(place) = {} <=> \A f \in Marks : ~Has(place, f)
<1>1. \A f : Has(place, f) => In(place, f) \in Entries(place)
  BY DEF Has, In, Entries
<1>2. ASSUME NEW e \in Entries(place) PROVE e[3] \in Marks /\ Has(place, e[3])
  <2>1. e[3] \in Marks /\ e = In(place, e[3])
    BY EntryOfPlace
  <2>2. QED
    BY <2>1 DEF Entries, Has
<1>3. QED
  BY <1>1, <1>2

(* What a step may do with a process's local variables. *)
LEMMA JobUpdates ==
  /\ \A j \in FetchJobs :
       /\ \A r \in Repos :
            [j EXCEPT !.repo = r] \in FetchJobs /\ [j EXCEPT !.repo = r].v = j.v
       /\ \A w \in SUBSET Files :
            [j EXCEPT !.wrote = w] \in FetchJobs /\ [j EXCEPT !.wrote = w].v = j.v
  /\ \A j \in AddonsJobs :
       /\ \A t \in SUBSET Addons : [j EXCEPT !.todo = t] \in AddonsJobs
       /\ \A w \in SUBSET Files :
            [j EXCEPT !.wrote = w] \in AddonsJobs /\ [j EXCEPT !.wrote = w].now = j.now
  /\ \A j \in GeoIPJobs : \A r \in Repos : [j EXCEPT !.url = r] \in GeoIPJobs
BY DEF FetchJobs, AddonsJobs, GeoIPJobs

(* The parts of TypeOK. *)
ControlOK ==
  /\ pc \in [Procs -> Steps] /\ job \in [Procs -> Jobs \cup {None}]
  /\ JobOfStep
DiskOK ==
  disk \subseteq {In(d, f) : d \in Dirs, f \in Marks}
                  \cup {Flag, In(MMDB, "torn"), In(MMDB, "whole")} \cup Configs
HistoryOK ==
  /\ result \in [Procs -> Versions \cup {None, "ok", "error"}]
  /\ cut \subseteq Places /\ served \subseteq Versions /\ hurt \subseteq Procs

LEMMA Parts == TypeOK /\ JobOfStep <=> ControlOK /\ DiskOK /\ HistoryOK
BY DEF TypeOK, ControlOK, DiskOK, HistoryOK

LEMMA ControlStep == ControlOK /\ [Next]_vars => ControlOK'
<1> SUFFICES ASSUME ControlOK, [Next]_vars PROVE ControlOK'
  OBVIOUS
<1> USE CacheAssumption
<1> USE DEF JobOfStep, OfVersion, Installing, Installed, Goto, Return
<1>0. /\ pc \in [Procs -> Steps] /\ job \in [Procs -> Jobs \cup {None}]
      /\ FetchJobs \subseteq Jobs /\ RemoveJobs \subseteq Jobs
      /\ AddonsJobs \subseteq Jobs /\ GeoIPJobs \subseteq Jobs
      /\ JobOfStep
  BY DEF ControlOK, Jobs
<1>1. ASSUME NEW p \in Procs, NEW replace \in BOOLEAN, NEW pre \in BOOLEAN,
             BeginFetch(p, replace, pre)
      PROVE  ControlOK'
  <2>1. [op |-> "fetch", replace |-> replace, repo |-> 1, v |-> Finds[pre],
          wrote |-> {}]
          \in FetchJobs
    BY DEF FetchJobs, Repos
  <2>2. QED
    BY <1>0, <1>1, <2>1 DEF BeginFetch, Begin, ControlOK, Steps
<1>2. ASSUME NEW p \in Procs, CheckCompat(p) PROVE ControlOK'
  BY <1>0, <1>2 DEF CheckCompat, ControlOK, Steps
<1>3. ASSUME NEW p \in Procs, Wipe(p) PROVE ControlOK'
  BY <1>0, <1>3 DEF Wipe, Unlink, ControlOK, Steps
<1>4. ASSUME NEW p \in Procs, RepoFails(p) PROVE ControlOK'
  <2> DEFINE j == [job[p] EXCEPT !.repo = job[p].repo + 1]
  <2>1. job[p] \in FetchJobs
    BY <1>0, <1>4 DEF RepoFails
  <2>2. CASE job[p].repo + 1 \in Repos /\ job' = [job EXCEPT ![p] = j]
             /\ pc' = [pc EXCEPT ![p] = "scan"]
    <3>1. j \in FetchJobs
      BY <2>1, <2>2, JobUpdates
    <3> HIDE DEF j
    <3>2. QED
      BY <1>0, <2>2, <3>1 DEF ControlOK, Steps
  <2>3. CASE job' = [job EXCEPT ![p] = None] /\ pc' = [pc EXCEPT ![p] = "returned"]
    BY <1>0, <2>3 DEF ControlOK, Steps
  <2>4. CASE UNCHANGED <<pc, job>>
    BY <1>0, <2>4 DEF ControlOK
  <2>5. QED
    BY <1>4, <2>2, <2>3, <2>4 DEF RepoFails, NextRepo
<1>5. ASSUME NEW p \in Procs, FindInstalled(p) PROVE ControlOK'
  BY <1>0, <1>5 DEF FindInstalled, ControlOK, Steps
<1>6. ASSUME NEW p \in Procs, FindNew(p) PROVE ControlOK'
  <2> DEFINE j == [job[p] EXCEPT !.wrote = {}]
  <2>1. job[p] \in FetchJobs /\ job[p].v \in Versions
    BY <1>0, <1>6 DEF FindNew, FetchJobs
  <2>2. j \in FetchJobs /\ j.v = job[p].v /\ j.replace = job[p].replace
    BY <2>1, JobUpdates DEF FetchJobs
  <2>3. job' = [job EXCEPT ![p] = j] /\ \E s \in {"unlink", "clear"} :
          pc' = [pc EXCEPT ![p] = s] /\ (s = "unlink" => job[p].replace)
    BY <1>6 DEF FindNew
  <2> HIDE DEF j
  <2>4. QED
    BY <1>0, <2>1, <2>2, <2>3 DEF ControlOK, Steps
<1>7. ASSUME NEW p \in Procs, RemoveOld(p) PROVE ControlOK'
  BY <1>0, <1>7 DEF RemoveOld, Repaired, Unlink, ControlOK, Steps
<1>8. ASSUME NEW p \in Procs, ClearTmp(p) PROVE ControlOK'
  BY <1>0, <1>8 DEF ClearTmp, Unlink, ControlOK, Steps
<1>9. ASSUME NEW p \in Procs, Extract(p) PROVE ControlOK'
  <2>1. pc[p] = "extract" /\ job[p] \in FetchJobs /\ job[p].v \in Versions
    BY <1>0, <1>9 DEF Extract
  <2>2. ASSUME NEW f \in Files, job' = [job EXCEPT ![p].wrote = @ \cup {f}], pc' = pc
        PROVE  ControlOK'
    <3> DEFINE j == [job[p] EXCEPT !.wrote = job[p].wrote \cup {f}]
    <3>1. job[p].wrote \cup {f} \in SUBSET Files
      BY <2>1 DEF FetchJobs
    <3>2. j \in FetchJobs /\ j.v = job[p].v
      BY <2>1, <3>1, JobUpdates
    <3>3. job' = [job EXCEPT ![p] = j] /\ pc' = pc
      BY <2>2
    <3> HIDE DEF j
    <3>4. QED
      BY <1>0, <2>1, <3>2, <3>3 DEF ControlOK
  <2>3. CASE job' = job /\ pc' = [pc EXCEPT ![p] = "version"]
    BY <1>0, <2>1, <2>3 DEF ControlOK, Steps
  <2>4. QED
    BY <1>9, <2>2, <2>3 DEF Extract, WriteEntry
<1>10. ASSUME NEW p \in Procs, InstallFails(p) PROVE ControlOK'
  BY <1>0, <1>10 DEF InstallFails, ControlOK, Steps
<1>11. ASSUME NEW p \in Procs, WriteVersionJSON(p) PROVE ControlOK'
  BY <1>0, <1>11 DEF WriteVersionJSON, ControlOK, Steps
<1>12. ASSUME NEW p \in Procs, Rename(p) PROVE ControlOK'
  BY <1>0, <1>12 DEF Rename, Repaired, ControlOK, Steps
<1>13. ASSUME NEW p \in Procs, Abandon(p) PROVE ControlOK'
  <2> DEFINE j == [job[p] EXCEPT !.repo = job[p].repo + 1]
  <2>1. job[p] \in FetchJobs
    BY <1>0, <1>13 DEF Abandon
  <2>2. CASE job[p].repo + 1 \in Repos /\ job' = [job EXCEPT ![p] = j]
             /\ pc' = [pc EXCEPT ![p] = "scan"]
    <3>1. j \in FetchJobs
      BY <2>1, <2>2, JobUpdates
    <3> HIDE DEF j
    <3>2. QED
      BY <1>0, <2>2, <3>1 DEF ControlOK, Steps
  <2>3. CASE job' = [job EXCEPT ![p] = None] /\ pc' = [pc EXCEPT ![p] = "returned"]
    BY <1>0, <2>3 DEF ControlOK, Steps
  <2>4. CASE UNCHANGED <<pc, job>>
    BY <1>0, <2>4 DEF ControlOK
  <2>5. QED
    BY <1>13, <2>2, <2>3, <2>4 DEF Abandon, NextRepo
<1>14. ASSUME NEW p \in Procs, ChmodExec(p) PROVE ControlOK'
  BY <1>0, <1>14 DEF ChmodExec, ControlOK, Steps
<1>15. ASSUME NEW p \in Procs, TouchFlag(p) PROVE ControlOK'
  BY <1>0, <1>15 DEF TouchFlag, ControlOK, Steps
<1>16. ASSUME NEW p \in Procs, TruncateConfig(p) PROVE ControlOK'
  BY <1>0, <1>16 DEF TruncateConfig, ControlOK, Steps
<1>17. ASSUME NEW p \in Procs, WriteConfigJSON(p) PROVE ControlOK'
  BY <1>0, <1>17 DEF WriteConfigJSON, ControlOK, Steps
<1>18. ASSUME NEW p \in Procs, NEW v \in Versions, BeginRemove(p, v) PROVE ControlOK'
  <2>1. [op |-> "remove", v |-> v] \in RemoveJobs
    BY DEF RemoveJobs
  <2>2. QED
    BY <1>0, <1>18, <2>1 DEF BeginRemove, Begin, ControlOK, Steps
<1>19. ASSUME NEW p \in Procs, Remove(p) PROVE ControlOK'
  BY <1>0, <1>19 DEF Remove, Repaired, Unlink, ControlOK, Steps
<1>20. ASSUME NEW p \in Procs, NEW todo \in SUBSET Addons, BeginAddons(p, todo)
      PROVE  ControlOK'
  <2>1. [op |-> "addons", todo |-> todo, now |-> None, wrote |-> {}] \in AddonsJobs
    BY DEF AddonsJobs
  <2>2. QED
    BY <1>0, <1>20, <2>1 DEF BeginAddons, Begin, ControlOK, Steps
<1>21. ASSUME NEW p \in Procs, NEW a \in Addons, NextAddon(p, a) PROVE ControlOK'
  <2>1. job[p] \in AddonsJobs /\ job[p].todo \ {a} \in SUBSET Addons
    BY <1>0, <1>21 DEF NextAddon, AddonsJobs
  <2>2. CASE Has(Addon(a), "dir")
    <3> DEFINE j == [job[p] EXCEPT !.todo = job[p].todo \ {a}]
    <3>1. j \in AddonsJobs
      BY <2>1, JobUpdates
    <3>2. job' = [job EXCEPT ![p] = j] /\ pc' = pc
      BY <1>21, <2>2 DEF NextAddon
    <3> HIDE DEF j
    <3>3. QED
      BY <1>0, <1>21, <3>1, <3>2 DEF ControlOK, NextAddon
  <2>3. CASE ~Has(Addon(a), "dir")
    <3> DEFINE j == [job[p] EXCEPT !.todo = job[p].todo \ {a}, !.now = a, !.wrote = {}]
    <3>1. j \in AddonsJobs /\ j.now = a
      BY <2>1 DEF AddonsJobs
    <3>2. job' = [job EXCEPT ![p] = j] /\ pc' = [pc EXCEPT ![p] = "unpack"]
      BY <1>21, <2>3 DEF NextAddon
    <3> HIDE DEF j
    <3>3. QED
      BY <1>0, <3>1, <3>2 DEF ControlOK, Steps
  <2>4. QED
    BY <2>2, <2>3
<1>22. ASSUME NEW p \in Procs, Unpack(p) PROVE ControlOK'
  <2>1. pc[p] = "unpack" /\ job[p] \in AddonsJobs /\ job[p].now \in Addons
    BY <1>0, <1>22 DEF Unpack
  <2>2. ASSUME NEW f \in Files, job' = [job EXCEPT ![p].wrote = @ \cup {f}], pc' = pc
        PROVE  ControlOK'
    <3> DEFINE j == [job[p] EXCEPT !.wrote = job[p].wrote \cup {f}]
    <3>1. job[p].wrote \cup {f} \in SUBSET Files
      BY <2>1 DEF AddonsJobs
    <3>2. j \in AddonsJobs /\ j.now = job[p].now
      BY <2>1, <3>1, JobUpdates
    <3>3. job' = [job EXCEPT ![p] = j] /\ pc' = pc
      BY <2>2
    <3> HIDE DEF j
    <3>4. QED
      BY <1>0, <2>1, <3>2, <3>3 DEF ControlOK
  <2>3. CASE job' = job /\ pc' = [pc EXCEPT ![p] = "addon"]
    BY <1>0, <2>1, <2>3 DEF ControlOK, Steps
  <2>4. QED
    BY <1>22, <2>2, <2>3 DEF Unpack, WriteEntry
<1>23. ASSUME NEW p \in Procs, UnpackFails(p) PROVE ControlOK'
  BY <1>0, <1>23 DEF UnpackFails, ControlOK, Steps
<1>24. ASSUME NEW p \in Procs, UndoAddon(p) PROVE ControlOK'
  BY <1>0, <1>24 DEF UndoAddon, Unlink, ControlOK, Steps
<1>25. ASSUME NEW p \in Procs, ReturnAddons(p) PROVE ControlOK'
  BY <1>0, <1>25 DEF ReturnAddons, ControlOK, Steps
<1>26. ASSUME NEW p \in Procs, BeginGeoIP(p) PROVE ControlOK'
  <2>1. [op |-> "geoip", url |-> 1] \in GeoIPJobs
    BY DEF GeoIPJobs, Repos
  <2>2. QED
    BY <1>0, <1>26, <2>1 DEF BeginGeoIP, Begin, ControlOK, Steps
<1>27. ASSUME NEW p \in Procs, NeedsUpdate(p) PROVE ControlOK'
  BY <1>0, <1>27 DEF NeedsUpdate, ControlOK, Steps
<1>28. ASSUME NEW p \in Procs, DownloadOne(p) PROVE ControlOK'
  BY <1>0, <1>28 DEF DownloadOne, Put, ControlOK, Steps
<1>29. ASSUME NEW p \in Procs, CopyFile(p) PROVE ControlOK'
  BY <1>0, <1>29 DEF CopyFile, Put, ControlOK, Steps
<1>30. ASSUME NEW p \in Procs, DownloadFails(p) PROVE ControlOK'
  <2> DEFINE j == [job[p] EXCEPT !.url = job[p].url + 1]
  <2>1. job[p] \in GeoIPJobs
    BY <1>0, <1>30 DEF DownloadFails
  <2>2. CASE job[p].url + 1 \in Repos
    <3>1. j \in GeoIPJobs
      BY <2>1, <2>2, JobUpdates
    <3>2. job' = [job EXCEPT ![p] = j] /\ pc' = [pc EXCEPT ![p] = "download"]
      BY <1>30, <2>2 DEF DownloadFails
    <3> HIDE DEF j
    <3>3. QED
      BY <1>0, <3>1, <3>2 DEF ControlOK, Steps
  <2>3. CASE job[p].url + 1 \notin Repos
    BY <1>0, <1>30, <2>3 DEF DownloadFails, ControlOK, Steps
  <2>4. QED
    BY <2>2, <2>3
<1>31. ASSUME NEW p \in Procs, OpenMMDB(p) PROVE ControlOK'
  BY <1>0, <1>31 DEF OpenMMDB, ControlOK, Steps
<1>32. ASSUME NEW p \in Procs, Crash(p) PROVE ControlOK'
  BY <1>0, <1>32 DEF Crash, ControlOK, Steps
<1>33. ASSUME NEW p \in Procs, WipeGivesUp(p) PROVE ControlOK'
  BY <1>0, <1>33 DEF WipeGivesUp, Drops, ControlOK, Steps
<1>34. ASSUME NEW p \in Procs, FindUnreadable(p) PROVE ControlOK'
  <2> DEFINE j == [job[p] EXCEPT !.wrote = {}]
  <2>1. job[p] \in FetchJobs /\ job[p].v \in Versions
    BY <1>0, <1>34 DEF FindUnreadable, FetchJobs
  <2>2. j \in FetchJobs /\ j.v = job[p].v
    BY <2>1, JobUpdates DEF FetchJobs
  <2>3. job' = [job EXCEPT ![p] = j] /\ pc' = [pc EXCEPT ![p] = "clear"]
    BY <1>34 DEF FindUnreadable
  <2> HIDE DEF j
  <2>4. QED
    BY <1>0, <2>1, <2>2, <2>3 DEF ControlOK, Steps
<1>35. ASSUME NEW p \in Procs, RemoveOldGivesUp(p) PROVE ControlOK'
  BY <1>0, <1>35 DEF RemoveOldGivesUp, Drops, ControlOK, Steps
<1>36. ASSUME NEW p \in Procs, ClearTmpGivesUp(p) PROVE ControlOK'
  BY <1>0, <1>36 DEF ClearTmpGivesUp, ControlOK, Steps
<1>37. ASSUME NEW p \in Procs, ChmodExecFails(p) PROVE ControlOK'
  BY <1>0, <1>37 DEF ChmodExecFails, Drops, ControlOK, Steps
<1>38. ASSUME NEW p \in Procs, TouchFlagFails(p) PROVE ControlOK'
  BY <1>0, <1>38 DEF TouchFlagFails, Drops, ControlOK, Steps
<1>39. ASSUME NEW p \in Procs, WriteConfigFails(p) PROVE ControlOK'
  BY <1>0, <1>39 DEF WriteConfigFails, ControlOK, Steps
<1>40. ASSUME NEW p \in Procs, RemoveFails(p) PROVE ControlOK'
  BY <1>0, <1>40 DEF RemoveFails, ControlOK, Steps
<1>41. ASSUME NEW p \in Procs, NEW a \in Addons, NextAddonFails(p, a) PROVE ControlOK'
  <2> DEFINE j == [job[p] EXCEPT !.todo = job[p].todo \ {a}]
  <2>1. job[p] \in AddonsJobs /\ job[p].todo \ {a} \in SUBSET Addons
    BY <1>0, <1>41 DEF NextAddonFails, AddonsJobs
  <2>2. j \in AddonsJobs
    BY <2>1, JobUpdates
  <2>3. job' = [job EXCEPT ![p] = j] /\ pc' = pc
    BY <1>41 DEF NextAddonFails
  <2> HIDE DEF j
  <2>4. QED
    BY <1>0, <1>41, <2>2, <2>3 DEF ControlOK, NextAddonFails
<1>42. ASSUME NEW p \in Procs, UndoAddonGivesUp(p) PROVE ControlOK'
  BY <1>0, <1>42 DEF UndoAddonGivesUp, ControlOK, Steps
<1>43. CASE UNCHANGED vars
  BY <1>0, <1>43 DEF vars, ControlOK
<1>44. QED
  BY <1>1, <1>2, <1>3, <1>4, <1>5, <1>6, <1>7, <1>8, <1>9, <1>10, <1>11, <1>12,
     <1>13, <1>14, <1>15, <1>16, <1>17, <1>18, <1>19, <1>20, <1>21, <1>22, <1>23,
     <1>24, <1>25, <1>26, <1>27, <1>28, <1>29, <1>30, <1>31, <1>32, <1>33, <1>34,
     <1>35, <1>36, <1>37, <1>38, <1>39, <1>40, <1>41, <1>42, <1>43
  DEF Next, FetchStep, RemoveStep, AddonsStep, GeoIPStep

LEMMA DiskStep == TypeOK /\ JobOfStep /\ [Next]_vars => DiskOK'
<1> SUFFICES ASSUME TypeOK, JobOfStep, [Next]_vars PROVE DiskOK'
  OBVIOUS
<1> USE CacheAssumption
<1> DEFINE All == {In(d, f) : d \in Dirs, f \in Marks}
                    \cup {Flag, In(MMDB, "torn"), In(MMDB, "whole")} \cup Configs
<1>0. /\ disk \subseteq All
      /\ disk' \subseteq All => DiskOK'
  BY DEF TypeOK, DiskOK
<1>a. /\ \A v \in Versions, f \in Marks : In(Inst(v), f) \in All
        /\ In(Tmp(v), f) \in All
      /\ \A v \in Versions \cup {None} : Config(v) \in All
  BY DEF Dirs, Configs
<1>b. \A a \in Addons, f \in Marks : In(Addon(a), f) \in All
  BY DEF Dirs
<1>c. Flag \in All /\ In(MMDB, "torn") \in All /\ In(MMDB, "whole") \in All
  OBVIOUS
<1>d. {"dir", "ver", "mode"} \subseteq Marks /\ Files \subseteq Marks
  BY DEF Marks
<1>e. \A p \in Procs :
        /\ pc[p] \in OfVersion => job[p].v \in Versions
        /\ pc[p] \in {"unpack", "undo"} => job[p].now \in Addons
  BY DEF JobOfStep
<1> HIDE DEF All
<1>1. ASSUME NEW p \in Procs, NEW replace \in BOOLEAN, NEW pre \in BOOLEAN,
             BeginFetch(p, replace, pre)
      PROVE  DiskOK'
  BY <1>0, <1>a, <1>b, <1>c, <1>d, <1>e, <1>1 DEF BeginFetch, Begin
<1>2. ASSUME NEW p \in Procs, CheckCompat(p) PROVE DiskOK'
  BY <1>0, <1>a, <1>b, <1>c, <1>d, <1>e, <1>2 DEF CheckCompat
<1>3. ASSUME NEW p \in Procs, Wipe(p) PROVE DiskOK'
  BY <1>0, <1>a, <1>b, <1>c, <1>d, <1>e, <1>3 DEF Wipe, Unlink
<1>4. ASSUME NEW p \in Procs, RepoFails(p) PROVE DiskOK'
  BY <1>0, <1>a, <1>b, <1>c, <1>d, <1>e, <1>4 DEF RepoFails, NextRepo
<1>5. ASSUME NEW p \in Procs, FindInstalled(p) PROVE DiskOK'
  BY <1>0, <1>a, <1>b, <1>c, <1>d, <1>e, <1>5 DEF FindInstalled
<1>6. ASSUME NEW p \in Procs, FindNew(p) PROVE DiskOK'
  BY <1>0, <1>a, <1>b, <1>c, <1>d, <1>e, <1>6 DEF FindNew
<1>7. ASSUME NEW p \in Procs, RemoveOld(p) PROVE DiskOK'
  BY <1>0, <1>a, <1>b, <1>c, <1>d, <1>e, <1>7 DEF RemoveOld, Repaired, Unlink
<1>8. ASSUME NEW p \in Procs, ClearTmp(p) PROVE DiskOK'
  <2>1. job[p].v \in Versions
    BY <1>e, <1>8 DEF ClearTmp, OfVersion, Installing
  <2>2. disk' \subseteq disk \/ disk' = disk \cup {In(Tmp(job[p].v), "dir")}
    BY <1>8 DEF ClearTmp, Unlink
  <2>3. QED
    BY <1>0, <1>a, <1>d, <2>1, <2>2
<1>9. ASSUME NEW p \in Procs, Extract(p) PROVE DiskOK'
  BY <1>0, <1>a, <1>b, <1>c, <1>d, <1>e,
     <1>9 DEF Extract, WriteEntry, OfVersion, Installing, Installed
<1>10. ASSUME NEW p \in Procs, InstallFails(p) PROVE DiskOK'
  BY <1>0, <1>a, <1>b, <1>c, <1>d, <1>e, <1>10 DEF InstallFails
<1>11. ASSUME NEW p \in Procs, WriteVersionJSON(p) PROVE DiskOK'
  BY <1>0, <1>a, <1>b, <1>c, <1>d, <1>e,
     <1>11 DEF WriteVersionJSON, OfVersion, Installing, Installed
<1>12. ASSUME NEW p \in Procs, Rename(p) PROVE DiskOK'
  <2>1. job[p].v \in Versions
    BY <1>e, <1>12 DEF Rename, OfVersion, Installing
  <2>2. \A e \in Entries(Tmp(job[p].v)) : e[3] \in Marks
    BY <2>1, EntryOfPlace DEF Dirs
  <2>3. CASE disk' = disk
    BY <1>0, <2>3
  <2>4. CASE disk' = (disk \ Entries(Tmp(job[p].v)))
                       \cup {In(Inst(job[p].v), e[3]) : e \in Entries(Tmp(job[p].v))}
    BY <1>0, <1>a, <2>1, <2>2, <2>4
  <2>5. QED
    BY <1>12, <2>3, <2>4 DEF Rename
<1>13. ASSUME NEW p \in Procs, Abandon(p) PROVE DiskOK'
  BY <1>0, <1>a, <1>b, <1>c, <1>d, <1>e, <1>13 DEF Abandon, NextRepo, Unlink
<1>14. ASSUME NEW p \in Procs, ChmodExec(p) PROVE DiskOK'
  BY <1>0, <1>a, <1>b, <1>c, <1>d, <1>e,
     <1>14 DEF ChmodExec, OfVersion, Installing, Installed
<1>15. ASSUME NEW p \in Procs, TouchFlag(p) PROVE DiskOK'
  BY <1>0, <1>a, <1>b, <1>c, <1>d, <1>e, <1>15 DEF TouchFlag
<1>16. ASSUME NEW p \in Procs, TruncateConfig(p) PROVE DiskOK'
  BY <1>0, <1>a, <1>b, <1>c, <1>d, <1>e, <1>16 DEF TruncateConfig
<1>17. ASSUME NEW p \in Procs, WriteConfigJSON(p) PROVE DiskOK'
  BY <1>0, <1>a, <1>b, <1>c, <1>d, <1>e,
     <1>17 DEF WriteConfigJSON, OfVersion, Installing, Installed
<1>18. ASSUME NEW p \in Procs, NEW v \in Versions, BeginRemove(p, v) PROVE DiskOK'
  BY <1>0, <1>a, <1>b, <1>c, <1>d, <1>e, <1>18 DEF BeginRemove, Begin
<1>19. ASSUME NEW p \in Procs, Remove(p) PROVE DiskOK'
  BY <1>0, <1>a, <1>b, <1>c, <1>d, <1>e, <1>19 DEF Remove, Repaired, Unlink
<1>20. ASSUME NEW p \in Procs, NEW todo \in SUBSET Addons, BeginAddons(p, todo)
      PROVE  DiskOK'
  BY <1>0, <1>a, <1>b, <1>c, <1>d, <1>e, <1>20 DEF BeginAddons, Begin
<1>21. ASSUME NEW p \in Procs, NEW a \in Addons, NextAddon(p, a) PROVE DiskOK'
  BY <1>0, <1>a, <1>b, <1>c, <1>d, <1>e, <1>21 DEF NextAddon
<1>22. ASSUME NEW p \in Procs, Unpack(p) PROVE DiskOK'
  BY <1>0, <1>a, <1>b, <1>c, <1>d, <1>e, <1>22 DEF Unpack, WriteEntry
<1>23. ASSUME NEW p \in Procs, UnpackFails(p) PROVE DiskOK'
  BY <1>0, <1>a, <1>b, <1>c, <1>d, <1>e, <1>23 DEF UnpackFails
<1>24. ASSUME NEW p \in Procs, UndoAddon(p) PROVE DiskOK'
  BY <1>0, <1>a, <1>b, <1>c, <1>d, <1>e, <1>24 DEF UndoAddon, Unlink
<1>25. ASSUME NEW p \in Procs, ReturnAddons(p) PROVE DiskOK'
  BY <1>0, <1>a, <1>b, <1>c, <1>d, <1>e, <1>25 DEF ReturnAddons
<1>26. ASSUME NEW p \in Procs, BeginGeoIP(p) PROVE DiskOK'
  BY <1>0, <1>a, <1>b, <1>c, <1>d, <1>e, <1>26 DEF BeginGeoIP, Begin
<1>27. ASSUME NEW p \in Procs, NeedsUpdate(p) PROVE DiskOK'
  BY <1>0, <1>a, <1>b, <1>c, <1>d, <1>e, <1>27 DEF NeedsUpdate
<1>28. ASSUME NEW p \in Procs, DownloadOne(p) PROVE DiskOK'
  BY <1>0, <1>a, <1>b, <1>c, <1>d, <1>e, <1>28 DEF DownloadOne, Put
<1>29. ASSUME NEW p \in Procs, CopyFile(p) PROVE DiskOK'
  BY <1>0, <1>a, <1>b, <1>c, <1>d, <1>e, <1>29 DEF CopyFile, Put
<1>30. ASSUME NEW p \in Procs, DownloadFails(p) PROVE DiskOK'
  BY <1>0, <1>a, <1>b, <1>c, <1>d, <1>e, <1>30 DEF DownloadFails
<1>31. ASSUME NEW p \in Procs, OpenMMDB(p) PROVE DiskOK'
  BY <1>0, <1>a, <1>b, <1>c, <1>d, <1>e, <1>31 DEF OpenMMDB
<1>32. ASSUME NEW p \in Procs, Crash(p) PROVE DiskOK'
  BY <1>0, <1>a, <1>b, <1>c, <1>d, <1>e, <1>32 DEF Crash
<1>33. ASSUME NEW p \in Procs, WipeGivesUp(p) PROVE DiskOK'
  BY <1>0, <1>33 DEF WipeGivesUp, Drops
<1>34. ASSUME NEW p \in Procs, FindUnreadable(p) PROVE DiskOK'
  BY <1>0, <1>34 DEF FindUnreadable
<1>35. ASSUME NEW p \in Procs, RemoveOldGivesUp(p) PROVE DiskOK'
  BY <1>0, <1>35 DEF RemoveOldGivesUp, Drops
<1>36. ASSUME NEW p \in Procs, ClearTmpGivesUp(p) PROVE DiskOK'
  <2>1. job[p].v \in Versions
    BY <1>e, <1>36 DEF ClearTmpGivesUp, OfVersion, Installing
  <2>2. QED
    BY <1>0, <1>a, <1>d, <1>36, <2>1 DEF ClearTmpGivesUp
<1>37. ASSUME NEW p \in Procs, ChmodExecFails(p) PROVE DiskOK'
  BY <1>0, <1>37 DEF ChmodExecFails, Drops
<1>38. ASSUME NEW p \in Procs, TouchFlagFails(p) PROVE DiskOK'
  BY <1>0, <1>38 DEF TouchFlagFails, Drops
<1>39. ASSUME NEW p \in Procs, WriteConfigFails(p) PROVE DiskOK'
  BY <1>0, <1>39 DEF WriteConfigFails
<1>40. ASSUME NEW p \in Procs, RemoveFails(p) PROVE DiskOK'
  BY <1>0, <1>40 DEF RemoveFails
<1>41. ASSUME NEW p \in Procs, NEW a \in Addons, NextAddonFails(p, a) PROVE DiskOK'
  BY <1>0, <1>41 DEF NextAddonFails
<1>42. ASSUME NEW p \in Procs, UndoAddonGivesUp(p) PROVE DiskOK'
  BY <1>0, <1>42 DEF UndoAddonGivesUp
<1>43. CASE UNCHANGED vars
  BY <1>0, <1>a, <1>b, <1>c, <1>d, <1>e, <1>43 DEF vars
<1>44. QED
  BY <1>1, <1>2, <1>3, <1>4, <1>5, <1>6, <1>7, <1>8, <1>9, <1>10, <1>11, <1>12,
     <1>13, <1>14, <1>15, <1>16, <1>17, <1>18, <1>19, <1>20, <1>21, <1>22, <1>23,
     <1>24, <1>25, <1>26, <1>27, <1>28, <1>29, <1>30, <1>31, <1>32, <1>33, <1>34,
     <1>35, <1>36, <1>37, <1>38, <1>39, <1>40, <1>41, <1>42, <1>43
  DEF Next, FetchStep, RemoveStep, AddonsStep, GeoIPStep

LEMMA HistoryStep == TypeOK /\ JobOfStep /\ [Next]_vars => HistoryOK'
<1> SUFFICES ASSUME TypeOK, JobOfStep, [Next]_vars PROVE HistoryOK'
  OBVIOUS
<1> USE CacheAssumption DEF Goto, Return, HistoryOK
<1>0. HistoryOK
  BY DEF TypeOK
<1>a. \A p \in Procs :
        /\ pc[p] \in OfVersion => job[p].v \in Versions
        /\ pc[p] \in {"unpack", "undo"} => job[p].now \in Addons
  BY DEF JobOfStep
<1>b. /\ \A v \in Versions : {Inst(v), Mode(v), Active(v)} \subseteq Places
      /\ {MMDB, FlagMark} \subseteq Places /\ \A a \in Addons : Addon(a) \in Places
      /\ \A places \in SUBSET Dirs : Used(places) \subseteq Places
  BY DEF Places, Dirs, Used
<1>1. ASSUME NEW p \in Procs, NEW replace \in BOOLEAN, NEW pre \in BOOLEAN,
             BeginFetch(p, replace, pre)
      PROVE  HistoryOK'
  BY <1>0, <1>1 DEF BeginFetch, Begin
<1>2. ASSUME NEW p \in Procs, CheckCompat(p) PROVE HistoryOK'
  BY <1>0, <1>2 DEF CheckCompat
<1>3. ASSUME NEW p \in Procs, Wipe(p) PROVE HistoryOK'
  BY <1>0, <1>3 DEF Wipe, Unlink
<1>4. ASSUME NEW p \in Procs, RepoFails(p) PROVE HistoryOK'
  BY <1>0, <1>4 DEF RepoFails, NextRepo
<1>5. ASSUME NEW p \in Procs, FindInstalled(p) PROVE HistoryOK'
  <2>1. job[p].v \in Versions
    BY <1>5 DEF FindInstalled, JobOfStep, FetchJobs
  <2>2. QED
    BY <1>0, <1>5, <2>1 DEF FindInstalled
<1>6. ASSUME NEW p \in Procs, FindNew(p) PROVE HistoryOK'
  BY <1>0, <1>6 DEF FindNew
<1>7. ASSUME NEW p \in Procs, RemoveOld(p) PROVE HistoryOK'
  BY <1>0, <1>7 DEF RemoveOld, Repaired, Unlink
<1>8. ASSUME NEW p \in Procs, ClearTmp(p) PROVE HistoryOK'
  BY <1>0, <1>8 DEF ClearTmp, Unlink
<1>9. ASSUME NEW p \in Procs, Extract(p) PROVE HistoryOK'
  BY <1>0, <1>9 DEF Extract, WriteEntry
<1>10. ASSUME NEW p \in Procs, InstallFails(p) PROVE HistoryOK'
  BY <1>0, <1>10 DEF InstallFails
<1>11. ASSUME NEW p \in Procs, WriteVersionJSON(p) PROVE HistoryOK'
  BY <1>0, <1>11 DEF WriteVersionJSON
<1>12. ASSUME NEW p \in Procs, Rename(p) PROVE HistoryOK'
  BY <1>0, <1>12 DEF Rename, Repaired
<1>13. ASSUME NEW p \in Procs, Abandon(p) PROVE HistoryOK'
  BY <1>0, <1>13 DEF Abandon, NextRepo, Unlink
<1>14. ASSUME NEW p \in Procs, ChmodExec(p) PROVE HistoryOK'
  BY <1>0, <1>14 DEF ChmodExec
<1>15. ASSUME NEW p \in Procs, TouchFlag(p) PROVE HistoryOK'
  BY <1>0, <1>15 DEF TouchFlag
<1>16. ASSUME NEW p \in Procs, TruncateConfig(p) PROVE HistoryOK'
  BY <1>0, <1>16 DEF TruncateConfig
<1>17. ASSUME NEW p \in Procs, WriteConfigJSON(p) PROVE HistoryOK'
  <2>1. job[p].v \in Versions
    BY <1>a, <1>17 DEF WriteConfigJSON, OfVersion, Installed
  <2>2. QED
    BY <1>0, <1>17, <2>1 DEF WriteConfigJSON
<1>18. ASSUME NEW p \in Procs, NEW v \in Versions, BeginRemove(p, v) PROVE HistoryOK'
  BY <1>0, <1>18 DEF BeginRemove, Begin
<1>19. ASSUME NEW p \in Procs, Remove(p) PROVE HistoryOK'
  BY <1>0, <1>19 DEF Remove, Repaired, Unlink
<1>20. ASSUME NEW p \in Procs, NEW todo \in SUBSET Addons, BeginAddons(p, todo)
      PROVE  HistoryOK'
  BY <1>0, <1>20 DEF BeginAddons, Begin
<1>21. ASSUME NEW p \in Procs, NEW a \in Addons, NextAddon(p, a) PROVE HistoryOK'
  BY <1>0, <1>21 DEF NextAddon
<1>22. ASSUME NEW p \in Procs, Unpack(p) PROVE HistoryOK'
  BY <1>0, <1>22 DEF Unpack, WriteEntry
<1>23. ASSUME NEW p \in Procs, UnpackFails(p) PROVE HistoryOK'
  BY <1>0, <1>23 DEF UnpackFails
<1>24. ASSUME NEW p \in Procs, UndoAddon(p) PROVE HistoryOK'
  BY <1>0, <1>24 DEF UndoAddon, Unlink
<1>25. ASSUME NEW p \in Procs, ReturnAddons(p) PROVE HistoryOK'
  BY <1>0, <1>25 DEF ReturnAddons
<1>26. ASSUME NEW p \in Procs, BeginGeoIP(p) PROVE HistoryOK'
  BY <1>0, <1>26 DEF BeginGeoIP, Begin
<1>27. ASSUME NEW p \in Procs, NeedsUpdate(p) PROVE HistoryOK'
  BY <1>0, <1>27 DEF NeedsUpdate
<1>28. ASSUME NEW p \in Procs, DownloadOne(p) PROVE HistoryOK'
  BY <1>0, <1>28 DEF DownloadOne, Put
<1>29. ASSUME NEW p \in Procs, CopyFile(p) PROVE HistoryOK'
  BY <1>0, <1>29 DEF CopyFile, Put
<1>30. ASSUME NEW p \in Procs, DownloadFails(p) PROVE HistoryOK'
  <2>1. cut' \subseteq Places
    BY <1>0, <1>b, <1>30 DEF DownloadFails
  <2>2. result' = result \/ result' = [result EXCEPT ![p] = "error"]
    BY <1>30 DEF DownloadFails
  <2>3. QED
    BY <1>0, <1>30, <2>1, <2>2 DEF DownloadFails
<1>31. ASSUME NEW p \in Procs, OpenMMDB(p) PROVE HistoryOK'
  BY <1>0, <1>31 DEF OpenMMDB
<1>32. ASSUME NEW p \in Procs, Crash(p) PROVE HistoryOK'
  <2>1. CASE cut' \subseteq Places
    BY <1>0, <1>32, <2>1 DEF Crash
  <2>2. CASE pc[p] \in {"unlink", "remove"}
    <3>1. Used({Inst(job[p].v)}) \subseteq Places
      <4>1. job[p].v \in Versions
        BY <1>a, <2>2 DEF OfVersion, JobOfStep, RemoveJobs
      <4>2. QED
        BY <4>1, <1>b DEF Used
    <3>2. QED
      BY <1>0, <1>32, <2>1, <2>2, <3>1 DEF Crash
  <2>3. CASE pc[p] \in Installed
    <3>1. job[p].v \in Versions
      BY <1>a, <2>3 DEF OfVersion
    <3>2. cut' \subseteq cut \cup {Mode(job[p].v), Active(job[p].v)}
            \cup {Active(v) : v \in Versions}
      BY <1>32, <2>3 DEF Crash, Installed
    <3>3. QED
      BY <1>0, <1>b, <2>1, <3>1, <3>2
  <2>4. CASE pc[p] \in {"unpack", "undo"}
    <3>1. Used({Addon(job[p].now)}) \subseteq Places
      BY <1>a, <1>b, <2>4 DEF Used
    <3>2. QED
      BY <1>0, <1>32, <2>1, <2>4, <3>1 DEF Crash
  <2>5. CASE pc[p] \notin OfVersion \cup {"remove", "unpack", "undo"}
          \/ pc[p] \in Installing \cup {"abandon"}
    <3>1. cut' \in {cut, cut \cup Used(Dirs), cut \cup {MMDB}}
      BY <1>32, <2>5 DEF Crash, OfVersion, Installed, Installing
    <3>2. QED
      BY <1>0, <1>b, <2>1, <3>1
  <2>6. QED
    BY <2>2, <2>3, <2>4, <2>5 DEF OfVersion
<1>33. ASSUME NEW p \in Procs, WipeGivesUp(p) PROVE HistoryOK'
  BY <1>0, <1>b, <1>33 DEF WipeGivesUp, Drops
<1>34. ASSUME NEW p \in Procs, FindUnreadable(p) PROVE HistoryOK'
  BY <1>0, <1>34 DEF FindUnreadable
<1>35. ASSUME NEW p \in Procs, RemoveOldGivesUp(p) PROVE HistoryOK'
  <2>1. job[p].v \in Versions
    BY <1>a, <1>35 DEF RemoveOldGivesUp, Drops, OfVersion, Installing, Installed
  <2>2. QED
    BY <1>0, <1>b, <1>35, <2>1 DEF RemoveOldGivesUp, Drops, Used
<1>36. ASSUME NEW p \in Procs, ClearTmpGivesUp(p) PROVE HistoryOK'
  BY <1>0, <1>36 DEF ClearTmpGivesUp
<1>37. ASSUME NEW p \in Procs, ChmodExecFails(p) PROVE HistoryOK'
  <2>1. job[p].v \in Versions
    BY <1>a, <1>37 DEF ChmodExecFails, Drops, OfVersion, Installing, Installed
  <2>2. QED
    BY <1>0, <1>b, <1>37, <2>1 DEF ChmodExecFails, Drops, Used
<1>38. ASSUME NEW p \in Procs, TouchFlagFails(p) PROVE HistoryOK'
  BY <1>0, <1>b, <1>38 DEF TouchFlagFails, Drops
<1>39. ASSUME NEW p \in Procs, WriteConfigFails(p) PROVE HistoryOK'
  <2>1. job[p].v \in Versions
    BY <1>a, <1>39 DEF WriteConfigFails, OfVersion, Installed
  <2>2. cut' \subseteq Places
    <3>1. cut' \subseteq cut \cup {Active(v) : v \in Versions}
      BY <1>39, <2>1 DEF WriteConfigFails
    <3>2. QED
      BY <1>0, <1>b, <3>1
  <2>3. QED
    BY <1>0, <1>39, <2>1, <2>2 DEF WriteConfigFails
<1>40. ASSUME NEW p \in Procs, RemoveFails(p) PROVE HistoryOK'
  <2>1. job[p].v \in Versions
    BY <1>40 DEF RemoveFails, JobOfStep, RemoveJobs
  <2>2. QED
    BY <1>0, <1>b, <1>40, <2>1 DEF RemoveFails, Used
<1>41. ASSUME NEW p \in Procs, NEW a \in Addons, NextAddonFails(p, a) PROVE HistoryOK'
  BY <1>0, <1>41 DEF NextAddonFails
<1>42. ASSUME NEW p \in Procs, UndoAddonGivesUp(p) PROVE HistoryOK'
  <2>1. Used({Addon(job[p].now)}) \subseteq Places
    BY <1>a, <1>b, <1>42 DEF UndoAddonGivesUp, Used
  <2>2. QED
    BY <1>0, <1>42, <2>1 DEF UndoAddonGivesUp
<1>43. CASE UNCHANGED vars
  BY <1>0, <1>43 DEF vars
<1>44. QED
  BY <1>1, <1>2, <1>3, <1>4, <1>5, <1>6, <1>7, <1>8, <1>9, <1>10, <1>11, <1>12,
     <1>13, <1>14, <1>15, <1>16, <1>17, <1>18, <1>19, <1>20, <1>21, <1>22, <1>23,
     <1>24, <1>25, <1>26, <1>27, <1>28, <1>29, <1>30, <1>31, <1>32, <1>33, <1>34,
     <1>35, <1>36, <1>37, <1>38, <1>39, <1>40, <1>41, <1>42, <1>43
  DEF Next, FetchStep, RemoveStep, AddonsStep, GeoIPStep

LEMMA InitControl == Init => TypeOK /\ JobOfStep
<1> SUFFICES ASSUME Init PROVE TypeOK /\ JobOfStep
  OBVIOUS
<1>1. DiskOK
  BY DEF Init, DiskOK
<1>2. HistoryOK
  BY DEF Init, HistoryOK
<1>3. pc \in [Procs -> Steps] /\ job \in [Procs -> Jobs \cup {None}]
  BY DEF Init, Steps
<1>4. \A p \in Procs : pc[p] = "idle"
  BY DEF Init
<1>5. JobOfStep
  BY <1>4 DEF JobOfStep, OfVersion, Installing, Installed
<1>6. QED
  BY <1>1, <1>2, <1>3, <1>5 DEF TypeOK, DiskOK, HistoryOK

LEMMA NextControl == TypeOK /\ JobOfStep /\ [Next]_vars => (TypeOK /\ JobOfStep)'
<1> SUFFICES ASSUME TypeOK, JobOfStep, [Next]_vars PROVE (TypeOK /\ JobOfStep)'
  OBVIOUS
<1>1. ControlOK
  BY Parts
<1>2. ControlOK' /\ DiskOK' /\ HistoryOK'
  BY <1>1, ControlStep, DiskStep, HistoryStep
<1>3. QED
  BY <1>2 DEF TypeOK, ControlOK, DiskOK, HistoryOK

(* The cache holds entries of the kinds the code makes, and a process has   *)
(* the variables of the step it is at, however many overlap.               *)
THEOREM CacheTypeCorrect == Spec => []TypeOK
BY InitControl, NextControl, PTL DEF Spec

-----------------------------------------------------------------------------
(* What the steps do to the entries of the places. *)

LEMMA PlaceFacts ==
  /\ \A v \in Versions : Inst(v) \in Dirs /\ Tmp(v) \in Dirs
  /\ \A a \in Addons : Addon(a) \in Dirs
  /\ \A v, w \in Versions : Inst(v) # Tmp(w) /\ (Inst(v) = Inst(w) => v = w)
  /\ \A a \in Addons, v \in Versions : Addon(a) # Inst(v) /\ Addon(a) # Tmp(v)
  /\ \A a, b \in Addons : Addon(a) = Addon(b) => a = b
  /\ MMDB \notin Dirs
BY DEF Dirs, Inst, Tmp, Addon, MMDB

LEMMA DistinctEntries ==
  /\ \A p1, p2 \in Dirs \cup {MMDB} : \A f, g :
       In(p1, f) = In(p2, g) <=> p1 = p2 /\ f = g
  /\ \A p1 \in Dirs \cup {MMDB} : \A f : In(p1, f) # Flag /\ In(p1, f) \notin Configs
  /\ Flag \notin Configs /\ \A v, w : Config(v) = Config(w) => v = w
BY DEF In, Dirs, MMDB, Flag, FlagMark, Configs, Config, Inst, Tmp, Addon

(* Nothing but the files of the place, the flag, config.json changes. *)
Same(place) == \A f : Has(place, f)' <=> Has(place, f)
SameSettings == \A e \in Configs \cup {Flag} : e \in disk' <=> e \in disk
SameBut(place) ==
  SameSettings /\ \A other \in (Dirs \cup {MMDB}) \ {place} : Same(other)
SamePlaces == \A place \in Dirs \cup {MMDB} : Same(place)

(* RemoveAll of a place touches no other, and removes the directory last. *)
LEMMA UnlinkStep ==
  ASSUME TypeOK, DirInv, NEW place \in Dirs, Unlink(Entries(place))
  PROVE  /\ SameBut(place)
         /\ \A f : Has(place, f)' => Has(place, f)
         /\ \A f \in Marks : Has(place, f)' => Has(place, "dir")'
<1>1. PICK e \in Entries(place) : /\ e[3] = "dir" => Entries(<<e[1], e[2]>>) = {e}
                                  /\ disk' = disk \ {e}
  BY DEF Unlink
<1>2. e[3] \in Marks /\ e = In(place, e[3]) /\ e[1] = place[1] /\ e[2] = place[2]
  BY EntryOfPlace DEF Entries
<1>3. SameBut(place)
  BY <1>1, <1>2, DistinctEntries DEF SameBut, SameSettings, Same, Has
<1>4. \A f : Has(place, f)' => Has(place, f)
  BY <1>1 DEF Has
<1>5. ASSUME NEW f \in Marks, Has(place, f)' PROVE Has(place, "dir")'
  <2>1. Has(place, f) /\ Has(place, "dir")
    BY <1>4, <1>5 DEF DirInv
  <2>2. CASE e[3] # "dir"
    BY <2>1, <2>2, <1>1, <1>2, DistinctEntries DEF Has
  <2>3. CASE e[3] = "dir"
    <3>1. Entries(place) = {e}
      BY <1>1, <1>2, <2>3 DEF Entries
    <3>2. In(place, f) \in Entries(place)
      BY <2>1 DEF Has, In, Entries
    <3>3. QED
      BY <3>1, <3>2, <1>1, <1>5 DEF Has
  <2>4. QED
    BY <2>2, <2>3
<1>6. QED
  BY <1>3, <1>4, <1>5

(* Writing below a place makes the directory with the file. *)
LEMMA AddStep ==
  ASSUME NEW place \in Dirs, NEW files \in SUBSET Marks,
         disk' = disk \cup {In(place, f) : f \in files}
  PROVE  /\ SameBut(place)
         /\ \A f : Has(place, f)' <=> Has(place, f) \/ f \in files
BY DistinctEntries DEF SameBut, SameSettings, Same, Has

LEMMA PutStep ==
  ASSUME TypeOK, NEW data \in {"torn", "whole"}, Put(data)
  PROVE  SameBut(MMDB) /\ \A f : Has(MMDB, f)' <=> f = data
<1>0. MMDB \notin Dirs /\ disk' = (disk \ Entries(MMDB)) \cup {In(MMDB, data)}
  BY PlaceFacts DEF Put
<1>1. \A other \in Dirs : \A f : In(other, f) \notin Entries(MMDB)
  BY DEF Entries, In, Dirs, MMDB, Inst, Tmp, Addon
<1>2. \A e \in Configs \cup {Flag} : e \notin Entries(MMDB)
  BY DEF Entries, MMDB, Configs, Config, Flag, FlagMark, In
<1>3. \A f : In(MMDB, f) \in disk => In(MMDB, f) \in Entries(MMDB)
  BY DEF Entries, In
<1>4. QED
  <2>1. SameSettings
    BY <1>0, <1>2, DistinctEntries DEF SameSettings
  <2>2. \A other \in Dirs : Same(other)
    BY <1>0, <1>1, DistinctEntries DEF Same, Has
  <2>3. \A f : Has(MMDB, f)' <=> f = data
    BY <1>0, <1>3, DistinctEntries DEF Has
  <2>4. QED
    BY <1>0, <2>1, <2>2, <2>3 DEF SameBut

(* rename(2) *)
LEMMA RenameStep ==
  ASSUME TypeOK, NEW v \in Versions, Entries(Inst(v)) = {},
         disk' = (disk \ Entries(Tmp(v)))
                 \cup {In(Inst(v), e[3]) : e \in Entries(Tmp(v))},
         Has(Tmp(v), "dir")
  PROVE  /\ SameSettings
         /\ \A other \in (Dirs \cup {MMDB}) \ {Tmp(v), Inst(v)} : Same(other)
         /\ \A f : ~Has(Tmp(v), f)'
         /\ \A f : Has(Inst(v), f)' <=> Has(Tmp(v), f)
<1> USE PlaceFacts, DistinctEntries
<1>1. \A e \in Entries(Tmp(v)) : e = In(Tmp(v), e[3])
  BY EntryOfPlace
<1>2. \A f : In(Tmp(v), f) \in disk <=> In(Tmp(v), f) \in Entries(Tmp(v))
  BY DEF Entries, In
<1>3. \A f : In(Inst(v), f) \notin disk
  BY DEF Entries, In
<1>4. SameSettings
  BY <1>1 DEF SameSettings
<1>5. \A other \in (Dirs \cup {MMDB}) \ {Tmp(v), Inst(v)} : Same(other)
  BY <1>1 DEF Same, Has
<1>6. \A f : ~Has(Tmp(v), f)'
  BY <1>2 DEF Has
<1>7. ASSUME NEW f PROVE Has(Inst(v), f)' <=> Has(Tmp(v), f)
  <2>1. In(Tmp(v), f)[3] = f
    BY DEF In
  <2>2. In(Inst(v), f) \in {In(Inst(v), e[3]) : e \in Entries(Tmp(v))}
          <=> Has(Tmp(v), f)
    BY <1>1, <1>2, <2>1 DEF Has
  <2>3. QED
    BY <2>2, <1>1, <1>3 DEF Has
<1>8. QED
  BY <1>4, <1>5, <1>6, <1>7

LEMMA DirStep == TypeOK /\ JobOfStep /\ DirInv /\ [Next]_vars => DirInv'
<1> SUFFICES ASSUME TypeOK, JobOfStep, DirInv, [Next]_vars PROVE DirInv'
  OBVIOUS
<1>0. /\ DirInv
      /\ (\A place \in Dirs : Same(place)) => DirInv'
      /\ disk' = disk => DirInv'
  BY DEF DirInv, Same, Has
<1>a. \A p \in Procs :
        /\ pc[p] \in OfVersion \cup {"remove"} => job[p].v \in Versions
        /\ pc[p] \in {"unpack", "undo"} => job[p].now \in Addons
  BY DEF JobOfStep, RemoveJobs
<1>b. ASSUME NEW place \in Dirs, Unlink(Entries(place)) PROVE DirInv'
  <2>1. SameBut(place) /\ \A f \in Marks : Has(place, f)' => Has(place, "dir")'
    BY <1>b, UnlinkStep
  <2>2. QED
    BY <2>1 DEF SameBut, Same, DirInv
<1>c. ASSUME NEW place \in Dirs, NEW files \in SUBSET Marks,
             disk' = disk \cup {In(place, f) : f \in files},
             "dir" \in files \/ Has(place, "dir")
      PROVE  DirInv'
  <2>1. SameBut(place) /\ \A f : Has(place, f)' <=> Has(place, f) \/ f \in files
    BY <1>c, AddStep
  <2>2. QED
    BY <1>c, <2>1 DEF SameBut, Same, DirInv
<1>d. \A place \in Dirs : \A files \in SUBSET {"dir", "ver", "mode"} :
        files \in SUBSET Marks
  BY DEF Marks
<1>1. ASSUME NEW p \in Procs, NEW replace \in BOOLEAN, NEW pre \in BOOLEAN,
             BeginFetch(p, replace, pre)
      PROVE  DirInv'
  BY <1>0, <1>1 DEF BeginFetch, Begin
<1>2. ASSUME NEW p \in Procs, CheckCompat(p) PROVE DirInv'
  BY <1>0, <1>2 DEF CheckCompat
<1>3. ASSUME NEW p \in Procs, Wipe(p) PROVE DirInv'
  <2>1. CASE disk' = disk
    BY <1>0, <2>1
  <2>2. ASSUME NEW e \in disk, disk' = disk \ {e},
               e[3] = "dir" => Entries(<<e[1], e[2]>>) = {e}
        PROVE  DirInv'
    <3> SUFFICES ASSUME NEW place \in Dirs, NEW f \in Marks, Has(place, f)',
                        ~Has(place, "dir")'
                 PROVE  FALSE
      BY DEF DirInv
    <3>1. Has(place, f) /\ Has(place, "dir")
      BY <2>2 DEF Has, DirInv
    <3>2. e = In(place, "dir")
      BY <2>2, <3>1 DEF Has
    <3>3. Entries(place) = {e}
      BY <2>2, <3>2 DEF In, Entries
    <3>4. In(place, f) \in Entries(place)
      BY <3>1 DEF Has, In, Entries
    <3>5. QED
      BY <2>2, <3>3, <3>4 DEF Has
  <2>3. QED
    BY <1>3, <2>1, <2>2 DEF Wipe, Unlink
<1>4. ASSUME NEW p \in Procs, RepoFails(p) PROVE DirInv'
  BY <1>0, <1>4 DEF RepoFails, NextRepo
<1>5. ASSUME NEW p \in Procs, FindInstalled(p) PROVE DirInv'
  BY <1>0, <1>5 DEF FindInstalled
<1>6. ASSUME NEW p \in Procs, FindNew(p) PROVE DirInv'
  BY <1>0, <1>6 DEF FindNew
<1>7. ASSUME NEW p \in Procs, RemoveOld(p) PROVE DirInv'
  <2>1. Inst(job[p].v) \in Dirs
    BY <1>a, <1>7, PlaceFacts DEF RemoveOld, OfVersion, Installing
  <2>2. CASE Unlink(Entries(Inst(job[p].v)))
    BY <2>1, <2>2, <1>b
  <2>3. CASE disk' = disk
    BY <1>0, <2>3
  <2>4. QED
    BY <1>7, <2>2, <2>3 DEF RemoveOld
<1>8. ASSUME NEW p \in Procs, ClearTmp(p) PROVE DirInv'
  <2>1. Tmp(job[p].v) \in Dirs
    BY <1>a, <1>8, PlaceFacts DEF ClearTmp, OfVersion, Installing
  <2>2. CASE Unlink(Entries(Tmp(job[p].v)))
    BY <2>1, <2>2, <1>b
  <2>3. CASE disk' = disk
    BY <1>0, <2>3
  <2>4. CASE disk' = disk \cup {In(Tmp(job[p].v), "dir")}
    <3>1. disk' = disk \cup {In(Tmp(job[p].v), f) : f \in {"dir"}}
      BY <2>4
    <3>2. QED
      BY <2>1, <3>1, <1>c, <1>d
  <2>5. QED
    BY <1>8, <2>2, <2>4 DEF ClearTmp
<1>9. ASSUME NEW p \in Procs, Extract(p) PROVE DirInv'
  <2>1. Tmp(job[p].v) \in Dirs
    BY <1>a, <1>9, PlaceFacts DEF Extract, OfVersion, Installing
  <2>2. ASSUME NEW f \in Files, disk' = disk
               \cup {In(Tmp(job[p].v), f), In(Tmp(job[p].v), "dir")}
        PROVE  DirInv'
    <3>1. disk' = disk \cup {In(Tmp(job[p].v), g) : g \in {f, "dir"}}
      BY <2>2
    <3>2. {f, "dir"} \in SUBSET Marks
      BY DEF Marks
    <3>3. QED
      BY <2>1, <3>1, <3>2, <1>c
  <2>3. QED
    BY <1>0, <1>9, <2>2 DEF Extract, WriteEntry
<1>10. ASSUME NEW p \in Procs, InstallFails(p) PROVE DirInv'
  BY <1>0, <1>10 DEF InstallFails
<1>11. ASSUME NEW p \in Procs, WriteVersionJSON(p) PROVE DirInv'
  <2>1. Tmp(job[p].v) \in Dirs
    BY <1>a, <1>11, PlaceFacts DEF WriteVersionJSON, OfVersion, Installing, Installed
  <2>2. CASE disk' = disk \cup {In(Tmp(job[p].v), "ver")} /\ Has(Tmp(job[p].v), "dir")
    <3>1. disk' = disk \cup {In(Tmp(job[p].v), f) : f \in {"ver"}}
      BY <2>2
    <3>2. QED
      BY <2>1, <2>2, <3>1, <1>c, <1>d
  <2>3. QED
    BY <1>0, <1>11, <2>2 DEF WriteVersionJSON
<1>12. ASSUME NEW p \in Procs, Rename(p) PROVE DirInv'
  <2>1. PICK v \in Versions : v = job[p].v
    BY <1>a, <1>12 DEF Rename, OfVersion, Installing
  <2>2. CASE disk' = disk
    BY <1>0, <2>2
  <2>3. CASE /\ Has(Tmp(v), "dir") /\ Entries(Inst(v)) = {}
             /\ disk' = (disk \ Entries(Tmp(v)))
                          \cup {In(Inst(v), e[3]) : e \in Entries(Tmp(v))}
    <3>1. /\ \A other \in Dirs \ {Tmp(v), Inst(v)} : Same(other)
          /\ \A f : ~Has(Tmp(v), f)'
          /\ \A f : Has(Inst(v), f)' <=> Has(Tmp(v), f)
      BY <2>3, RenameStep
    <3>2. QED
      BY <2>3, <3>1, PlaceFacts DEF Same, DirInv
  <2>4. QED
    BY <1>12, <2>1, <2>2, <2>3 DEF Rename
<1>13. ASSUME NEW p \in Procs, Abandon(p) PROVE DirInv'
  <2>1. Tmp(job[p].v) \in Dirs
    BY <1>a, <1>13, PlaceFacts DEF Abandon, OfVersion, Installing
  <2>2. CASE Unlink(Entries(Tmp(job[p].v)))
    BY <2>1, <2>2, <1>b
  <2>3. CASE disk' = disk
    BY <1>0, <2>3
  <2>4. QED
    BY <1>13, <2>2, <2>3 DEF Abandon
<1>14. ASSUME NEW p \in Procs, ChmodExec(p) PROVE DirInv'
  <2>1. Inst(job[p].v) \in Dirs
    BY <1>a, <1>14, PlaceFacts DEF ChmodExec, OfVersion, Installing, Installed
  <2>2. CASE disk' = disk \cup {In(Inst(job[p].v), "mode")}
          /\ Has(Inst(job[p].v), "dir")
    <3>1. disk' = disk \cup {In(Inst(job[p].v), f) : f \in {"mode"}}
      BY <2>2
    <3>2. QED
      BY <2>1, <2>2, <3>1, <1>c, <1>d
  <2>3. QED
    BY <1>0, <1>14, <2>2 DEF ChmodExec
<1>15. ASSUME NEW p \in Procs, TouchFlag(p) PROVE DirInv'
  <2>1. \A place \in Dirs : Same(place)
    BY <1>15, DistinctEntries DEF TouchFlag, Same, Has, Configs
  <2>2. QED
    BY <1>0, <2>1
<1>16. ASSUME NEW p \in Procs, TruncateConfig(p) PROVE DirInv'
  <2>1. ASSUME NEW c \in Configs, disk' = (disk \ Configs) \cup {c} PROVE DirInv'
    <3>1. \A place \in Dirs : Same(place)
      BY <2>1, DistinctEntries DEF Same, Has
    <3>2. QED
      BY <1>0, <3>1
  <2>2. QED
    BY <1>a, <1>16, <2>1 DEF TruncateConfig, Configs, OfVersion, Installed
<1>17. ASSUME NEW p \in Procs, WriteConfigJSON(p) PROVE DirInv'
  <2>1. ASSUME NEW c \in Configs, disk' = (disk \ Configs) \cup {c} PROVE DirInv'
    <3>1. \A place \in Dirs : Same(place)
      BY <2>1, DistinctEntries DEF Same, Has
    <3>2. QED
      BY <1>0, <3>1
  <2>2. QED
    BY <1>a, <1>17, <2>1 DEF WriteConfigJSON, Configs, OfVersion, Installed
<1>18. ASSUME NEW p \in Procs, NEW v \in Versions, BeginRemove(p, v) PROVE DirInv'
  BY <1>0, <1>18 DEF BeginRemove, Begin
<1>19. ASSUME NEW p \in Procs, Remove(p) PROVE DirInv'
  <2>1. Inst(job[p].v) \in Dirs
    BY <1>a, <1>19, PlaceFacts DEF Remove, OfVersion, Installing
  <2>2. CASE Unlink(Entries(Inst(job[p].v)))
    BY <2>1, <2>2, <1>b
  <2>3. CASE disk' = disk
    BY <1>0, <2>3
  <2>4. QED
    BY <1>19, <2>2, <2>3 DEF Remove
<1>20. ASSUME NEW p \in Procs, NEW todo \in SUBSET Addons, BeginAddons(p, todo)
      PROVE  DirInv'
  BY <1>0, <1>20 DEF BeginAddons, Begin
<1>21. ASSUME NEW p \in Procs, NEW a \in Addons, NextAddon(p, a) PROVE DirInv'
  <2>1. Addon(a) \in Dirs
    BY <1>a, <1>21, PlaceFacts DEF NextAddon, OfVersion, Installing, Installed
  <2>2. CASE disk' = disk \cup {In(Addon(a), "dir")}
    <3>1. disk' = disk \cup {In(Addon(a), f) : f \in {"dir"}}
      BY <2>2
    <3>2. QED
      BY <2>1, <2>2, <3>1, <1>c, <1>d
  <2>3. QED
    BY <1>0, <1>21, <2>2 DEF NextAddon
<1>22. ASSUME NEW p \in Procs, Unpack(p) PROVE DirInv'
  <2>1. Addon(job[p].now) \in Dirs
    BY <1>a, <1>22, PlaceFacts DEF Unpack, OfVersion, Installing
  <2>2. ASSUME NEW f \in Files, disk' = disk
               \cup {In(Addon(job[p].now), f), In(Addon(job[p].now), "dir")}
        PROVE  DirInv'
    <3>1. disk' = disk \cup {In(Addon(job[p].now), g) : g \in {f, "dir"}}
      BY <2>2
    <3>2. {f, "dir"} \in SUBSET Marks
      BY DEF Marks
    <3>3. QED
      BY <2>1, <3>1, <3>2, <1>c
  <2>3. QED
    BY <1>0, <1>22, <2>2 DEF Unpack, WriteEntry
<1>23. ASSUME NEW p \in Procs, UnpackFails(p) PROVE DirInv'
  BY <1>0, <1>23 DEF UnpackFails
<1>24. ASSUME NEW p \in Procs, UndoAddon(p) PROVE DirInv'
  <2>1. Addon(job[p].now) \in Dirs
    BY <1>a, <1>24, PlaceFacts DEF UndoAddon, OfVersion, Installing
  <2>2. CASE Unlink(Entries(Addon(job[p].now)))
    BY <2>1, <2>2, <1>b
  <2>3. CASE disk' = disk
    BY <1>0, <2>3
  <2>4. QED
    BY <1>24, <2>2, <2>3 DEF UndoAddon
<1>25. ASSUME NEW p \in Procs, ReturnAddons(p) PROVE DirInv'
  BY <1>0, <1>25 DEF ReturnAddons
<1>26. ASSUME NEW p \in Procs, BeginGeoIP(p) PROVE DirInv'
  BY <1>0, <1>26 DEF BeginGeoIP, Begin
<1>27. ASSUME NEW p \in Procs, NeedsUpdate(p) PROVE DirInv'
  BY <1>0, <1>27 DEF NeedsUpdate
<1>28. ASSUME NEW p \in Procs, DownloadOne(p) PROVE DirInv'
  <2>1. \A place \in Dirs : Same(place)
    BY <1>28, PutStep, PlaceFacts DEF DownloadOne, SameBut
  <2>2. QED
    BY <1>0, <2>1
<1>29. ASSUME NEW p \in Procs, CopyFile(p) PROVE DirInv'
  <2>1. \A place \in Dirs : Same(place)
    BY <1>29, PutStep, PlaceFacts DEF CopyFile, SameBut
  <2>2. QED
    BY <1>0, <2>1
<1>30. ASSUME NEW p \in Procs, DownloadFails(p) PROVE DirInv'
  BY <1>0, <1>30 DEF DownloadFails
<1>31. ASSUME NEW p \in Procs, OpenMMDB(p) PROVE DirInv'
  BY <1>0, <1>31 DEF OpenMMDB
<1>32. ASSUME NEW p \in Procs, Crash(p) PROVE DirInv'
  BY <1>0, <1>32 DEF Crash
<1>33. ASSUME NEW p \in Procs, WipeGivesUp(p) PROVE DirInv'
  BY <1>0, <1>33 DEF WipeGivesUp, Drops
<1>34. ASSUME NEW p \in Procs, FindUnreadable(p) PROVE DirInv'
  BY <1>0, <1>34 DEF FindUnreadable
<1>35. ASSUME NEW p \in Procs, RemoveOldGivesUp(p) PROVE DirInv'
  BY <1>0, <1>35 DEF RemoveOldGivesUp, Drops
<1>36. ASSUME NEW p \in Procs, ClearTmpGivesUp(p) PROVE DirInv'
  <2>1. Tmp(job[p].v) \in Dirs
    BY <1>a, <1>36, PlaceFacts DEF ClearTmpGivesUp, OfVersion, Installing
  <2>2. disk' = disk \cup {In(Tmp(job[p].v), f) : f \in {"dir"}}
    BY <1>36 DEF ClearTmpGivesUp
  <2>3. QED
    BY <2>1, <2>2, <1>c, <1>d
<1>37. ASSUME NEW p \in Procs, ChmodExecFails(p) PROVE DirInv'
  BY <1>0, <1>37 DEF ChmodExecFails, Drops
<1>38. ASSUME NEW p \in Procs, TouchFlagFails(p) PROVE DirInv'
  BY <1>0, <1>38 DEF TouchFlagFails, Drops
<1>39. ASSUME NEW p \in Procs, WriteConfigFails(p) PROVE DirInv'
  BY <1>0, <1>39 DEF WriteConfigFails
<1>40. ASSUME NEW p \in Procs, RemoveFails(p) PROVE DirInv'
  BY <1>0, <1>40 DEF RemoveFails
<1>41. ASSUME NEW p \in Procs, NEW a \in Addons, NextAddonFails(p, a) PROVE DirInv'
  BY <1>0, <1>41 DEF NextAddonFails
<1>42. ASSUME NEW p \in Procs, UndoAddonGivesUp(p) PROVE DirInv'
  BY <1>0, <1>42 DEF UndoAddonGivesUp
<1>43. CASE UNCHANGED vars
  BY <1>0, <1>43 DEF vars
<1>44. QED
  BY <1>1, <1>2, <1>3, <1>4, <1>5, <1>6, <1>7, <1>8, <1>9, <1>10, <1>11, <1>12,
     <1>13, <1>14, <1>15, <1>16, <1>17, <1>18, <1>19, <1>20, <1>21, <1>22, <1>23,
     <1>24, <1>25, <1>26, <1>27, <1>28, <1>29, <1>30, <1>31, <1>32, <1>33, <1>34,
     <1>35, <1>36, <1>37, <1>38, <1>39, <1>40, <1>41, <1>42, <1>43
  DEF Next, FetchStep, RemoveStep, AddonsStep, GeoIPStep

(* Where each step leaves its mark, and what it leaves alone. *)

LEMMA InstSteps ==
  ASSUME TypeOK, DirInv, NEW p \in Procs, NEW v \in Versions, job[p].v = v,
         RemoveOld(p) \/ ChmodExec(p) \/ Remove(p)
  PROVE  SameBut(Inst(v))
<1>1. Inst(v) \in Dirs
  BY PlaceFacts
<1>2. disk' = disk => SameBut(Inst(v))
  BY DEF SameBut, SameSettings, Same, Has
<1>3. CASE Unlink(Entries(Inst(v)))
  BY <1>1, <1>3, UnlinkStep
<1>4. CASE disk' = disk \cup {In(Inst(v), f) : f \in {"mode"}}
  BY <1>1, <1>4, AddStep DEF Marks
<1>5. QED
  BY <1>2, <1>3, <1>4 DEF RemoveOld, ChmodExec, Remove

LEMMA TmpSteps ==
  ASSUME TypeOK, DirInv, NEW p \in Procs, NEW v \in Versions, job[p].v = v,
         \/ ClearTmp(p) \/ ClearTmpGivesUp(p) \/ Extract(p) \/ WriteVersionJSON(p)
         \/ Abandon(p)
  PROVE  SameBut(Tmp(v))
<1>1. Tmp(v) \in Dirs
  BY PlaceFacts
<1>2. disk' = disk => SameBut(Tmp(v))
  BY DEF SameBut, SameSettings, Same, Has
<1>3. CASE Unlink(Entries(Tmp(v)))
  BY <1>1, <1>3, UnlinkStep
<1>4. ASSUME NEW files \in SUBSET Marks, disk' = disk \cup {In(Tmp(v), f) : f \in files}
      PROVE  SameBut(Tmp(v))
  BY <1>1, <1>4, AddStep
<1>5. CASE disk' = disk \cup {In(Tmp(v), "dir")}
        \/ disk' = disk \cup {In(Tmp(v), "ver")}
  <2>1. PICK g \in {"dir", "ver"} : disk' = disk \cup {In(Tmp(v), f) : f \in {g}}
    BY <1>5
  <2>2. QED
    BY <2>1, <1>4 DEF Marks
<1>6. CASE \E f \in Files : disk' = disk \cup {In(Tmp(v), f), In(Tmp(v), "dir")}
  <2>1. PICK f \in Files : disk' = disk \cup {In(Tmp(v), g) : g \in {f, "dir"}}
    BY <1>6
  <2>2. {f, "dir"} \in SUBSET Marks
    BY DEF Marks
  <2>3. QED
    BY <2>1, <2>2, <1>4
<1>7. QED
  BY <1>2, <1>3, <1>5, <1>6
  DEF ClearTmp, ClearTmpGivesUp, Extract, WriteEntry, WriteVersionJSON, Abandon

LEMMA AddonSteps ==
  ASSUME TypeOK, DirInv, NEW p \in Procs, NEW a \in Addons,
         NextAddon(p, a) \/ (job[p].now = a /\ (Unpack(p) \/ UndoAddon(p)))
  PROVE  SameBut(Addon(a))
<1>1. Addon(a) \in Dirs
  BY PlaceFacts
<1>2. disk' = disk => SameBut(Addon(a))
  BY DEF SameBut, SameSettings, Same, Has
<1>3. CASE Unlink(Entries(Addon(a)))
  BY <1>1, <1>3, UnlinkStep
<1>4. CASE disk' = disk \cup {In(Addon(a), f) : f \in {"dir"}}
  BY <1>1, <1>4, AddStep DEF Marks
<1>5. CASE \E f \in Files : disk' = disk \cup {In(Addon(a), f), In(Addon(a), "dir")}
  <2>1. PICK f \in Files : disk' = disk \cup {In(Addon(a), g) : g \in {f, "dir"}}
    BY <1>5
  <2>2. {f, "dir"} \in SUBSET Marks
    BY DEF Marks
  <2>3. QED
    BY <1>1, <2>1, <2>2, AddStep
<1>6. QED
  BY <1>2, <1>3, <1>4, <1>5 DEF NextAddon, Unpack, WriteEntry, UndoAddon

LEMMA SettingsSteps ==
  ASSUME TypeOK, JobOfStep, NEW p \in Procs,
         TouchFlag(p) \/ TruncateConfig(p) \/ WriteConfigJSON(p)
  PROVE  SamePlaces
<1>1. CASE TouchFlag(p)
  BY <1>1, DistinctEntries DEF TouchFlag, SamePlaces, Same, Has
<1>2. ASSUME NEW c \in Configs, disk' = (disk \ Configs) \cup {c} PROVE SamePlaces
  BY <1>2, DistinctEntries DEF SamePlaces, Same, Has
<1>3. CASE TruncateConfig(p)
  BY <1>2, <1>3 DEF TruncateConfig, Configs
<1>4. CASE WriteConfigJSON(p)
  <2>1. job[p].v \in Versions
    BY <1>4 DEF WriteConfigJSON, JobOfStep, OfVersion, Installed
  <2>2. QED
    BY <2>1, <1>2, <1>4 DEF WriteConfigJSON, Configs
<1>5. QED
  BY <1>1, <1>3, <1>4

LEMMA MMDBSteps ==
  ASSUME TypeOK, NEW p \in Procs, DownloadOne(p) \/ CopyFile(p)
  PROVE  SameBut(MMDB)
BY PutStep DEF DownloadOne, CopyFile

-----------------------------------------------------------------------------
(* One process after another. *)

LEMMA MadeStep ==
  ASSUME OneAtATime
  PROVE  TypeOK /\ JobOfStep /\ DirInv /\ MadeInv /\ [Next]_vars => MadeInv'
<1> SUFFICES ASSUME TypeOK, JobOfStep, DirInv, MadeInv, [Next]_vars PROVE MadeInv'
  OBVIOUS
<1> USE DEF At, Goto, Return
<1>0. /\ \A p, q \in Procs : p = q
      /\ pc \in [Procs -> Steps] /\ job \in [Procs -> Jobs \cup {None}]
  BY DEF OneAtATime, TypeOK
<1>a. \A p \in Procs :
        /\ pc[p] \in {"unlink", "clear"} => job[p].wrote = {}
        /\ pc[p] = "extract" => \A f \in job[p].wrote \cup {"dir"} :
             Has(Tmp(job[p].v), f)
        /\ pc[p] \in {"version", "rename"} =>
             Whole(Tmp(job[p].v)) /\ Has(Tmp(job[p].v), "dir")
        /\ pc[p] = "rename" => Has(Tmp(job[p].v), "ver")
        /\ pc[p] \in Installed => Whole(Inst(job[p].v)) /\ Has(Inst(job[p].v), "ver")
        /\ pc[p] \in Installed \ {"chmod"} =>
             Has(Inst(job[p].v), "mode") \/ Mode(job[p].v) \in cut
  BY DEF MadeInv
<1>b. ASSUME NEW p \in Procs, pc'[p] \notin Installing \cup Installed \cup {"unlink"}
      PROVE  MadeInv'
  BY <1>0, <1>b DEF MadeInv, Installing, Installed
<1>1. ASSUME NEW p \in Procs, NEW replace \in BOOLEAN, NEW pre \in BOOLEAN,
             BeginFetch(p, replace, pre)
      PROVE  MadeInv'
  BY <1>0, <1>b, <1>1 DEF BeginFetch, Begin, Installing, Installed
<1>2. ASSUME NEW p \in Procs, CheckCompat(p) PROVE MadeInv'
  BY <1>0, <1>b, <1>2 DEF CheckCompat, Installing, Installed
<1>3. ASSUME NEW p \in Procs, Wipe(p) PROVE MadeInv'
  BY <1>0, <1>b, <1>3 DEF Wipe, Unlink, Installing, Installed
<1>4. ASSUME NEW p \in Procs, RepoFails(p) PROVE MadeInv'
  BY <1>0, <1>b, <1>4 DEF RepoFails, NextRepo, Installing, Installed
<1>5. ASSUME NEW p \in Procs, FindInstalled(p) PROVE MadeInv'
  BY <1>0, <1>b, <1>5 DEF FindInstalled, Installing, Installed
<1>6. ASSUME NEW p \in Procs, FindNew(p) PROVE MadeInv'
  <2>1. job[p] \in FetchJobs /\ [job[p] EXCEPT !.wrote = {}].wrote = {}
    BY <1>6 DEF FindNew, JobOfStep, FetchJobs
  <2>2. job'[p].wrote = {} /\ pc'[p] \in {"unlink", "clear"}
    BY <1>0, <1>6, <2>1 DEF FindNew
  <2>3. QED
    BY <1>0, <2>2 DEF MadeInv, Installed
<1>7. ASSUME NEW p \in Procs, RemoveOld(p) PROVE MadeInv'
  <2>1. job' = job /\ pc[p] = "unlink" /\ pc'[p] \in {"unlink", "clear"}
    BY <1>0, <1>7 DEF RemoveOld
  <2>2. QED
    BY <1>0, <1>a, <2>1 DEF MadeInv, Installed
<1>8. ASSUME NEW p \in Procs, ClearTmp(p) PROVE MadeInv'
  <2>1. PICK v \in Versions : v = job[p].v
    BY <1>8 DEF ClearTmp, JobOfStep, OfVersion, Installing, Installed
  <2>2. job' = job /\ job[p].wrote = {}
    BY <1>a, <1>8 DEF ClearTmp
  <2>3. CASE pc' = pc
    BY <1>0, <1>a, <1>8, <2>2, <2>3 DEF ClearTmp, MadeInv, Installed
  <2>4. CASE pc' = [pc EXCEPT ![p] = "extract"] /\ disk' = disk \cup {In(Tmp(v), "dir")}
    <3>1. Has(Tmp(v), "dir")'
      BY <2>4 DEF Has
    <3>2. QED
      BY <1>0, <2>1, <2>2, <2>4, <3>1 DEF MadeInv, Installed
  <2>5. QED
    BY <1>8, <2>1, <2>3, <2>4 DEF ClearTmp
<1>9. ASSUME NEW p \in Procs, Extract(p) PROVE MadeInv'
  <2>1. PICK v \in Versions : v = job[p].v
    BY <1>9 DEF Extract, JobOfStep, OfVersion, Installing, Installed
  <2>2. /\ job[p] \in FetchJobs
        /\ \A f \in job[p].wrote \cup {"dir"} : Has(Tmp(v), f)
    BY <1>a, <1>9, <2>1 DEF Extract, JobOfStep, OfVersion, Installing
  <2>3. ASSUME NEW f \in Files, disk' = disk \cup {In(Tmp(v), f), In(Tmp(v), "dir")},
               job' = [job EXCEPT ![p].wrote = @ \cup {f}], pc' = pc
        PROVE  MadeInv'
    <3> DEFINE w == job[p].wrote \cup {f}
    <3>1. w \in SUBSET Files
      BY <2>2 DEF FetchJobs
    <3> DEFINE j == [job[p] EXCEPT !.wrote = w]
    <3>2. j.v = v /\ j.wrote = w
      BY <2>1, <2>2, <3>1, JobUpdates DEF FetchJobs
    <3>3. job' = [job EXCEPT ![p] = j]
      BY <2>3
    <3>4. \A g \in w \cup {"dir"} : Has(Tmp(v), g)'
      BY <2>2, <2>3 DEF Has
    <3> HIDE DEF w, j
    <3>5. pc'[p] = "extract" /\ job'[p] = j
      BY <1>0, <1>9, <2>3, <3>3 DEF Extract
    <3>6. QED
      BY <1>0, <3>2, <3>4, <3>5 DEF MadeInv, Installed
  <2>4. CASE job[p].wrote = Files /\ pc' = [pc EXCEPT ![p] = "version"]
             /\ UNCHANGED <<disk, job>>
    <3>1. Whole(Tmp(v))' /\ Has(Tmp(v), "dir")'
      BY <2>2, <2>4 DEF Whole, Has
    <3>2. QED
      BY <1>0, <2>1, <2>4, <3>1 DEF MadeInv, Installed
  <2>5. QED
    BY <1>9, <2>1, <2>3, <2>4 DEF Extract, WriteEntry
<1>10. ASSUME NEW p \in Procs, InstallFails(p) PROVE MadeInv'
  BY <1>0, <1>b, <1>10 DEF InstallFails, Installing, Installed
<1>11. ASSUME NEW p \in Procs, WriteVersionJSON(p) PROVE MadeInv'
  <2>1. PICK v \in Versions : v = job[p].v
    BY <1>11 DEF WriteVersionJSON, JobOfStep, OfVersion, Installing, Installed
  <2>2. Whole(Tmp(v)) /\ Has(Tmp(v), "dir") /\ job' = job
    BY <1>a, <1>11, <2>1 DEF WriteVersionJSON
  <2>3. pc' = [pc EXCEPT ![p] = "rename"] /\ disk' = disk \cup {In(Tmp(v), "ver")}
    BY <1>11, <2>1, <2>2 DEF WriteVersionJSON
  <2>4. Whole(Tmp(v))' /\ Has(Tmp(v), "dir")' /\ Has(Tmp(v), "ver")'
    BY <2>2, <2>3 DEF Whole, Has
  <2>5. QED
    BY <1>0, <2>1, <2>2, <2>3, <2>4 DEF MadeInv, Installed
<1>12. ASSUME NEW p \in Procs, Rename(p) PROVE MadeInv'
  <2>1. PICK v \in Versions : v = job[p].v
    BY <1>12 DEF Rename, JobOfStep, OfVersion, Installing, Installed
  <2>2. Whole(Tmp(v)) /\ Has(Tmp(v), "dir") /\ Has(Tmp(v), "ver") /\ job' = job
    BY <1>a, <1>12, <2>1 DEF Rename
  <2>3. CASE pc' = [pc EXCEPT ![p] = "abandon"]
    BY <1>0, <1>b, <2>3 DEF Installing, Installed
  <2>4. CASE /\ Entries(Inst(v)) = {}
             /\ disk' = (disk \ Entries(Tmp(v)))
                          \cup {In(Inst(v), e[3]) : e \in Entries(Tmp(v))}
             /\ pc' = [pc EXCEPT ![p] = "chmod"]
    <3>1. \A f : Has(Inst(v), f)' <=> Has(Tmp(v), f)
      BY <2>2, <2>4, RenameStep
    <3>2. Whole(Inst(v))' /\ Has(Inst(v), "ver")'
      BY <2>2, <3>1 DEF Whole
    <3>3. QED
      BY <1>0, <2>1, <2>2, <2>4, <3>2 DEF MadeInv
  <2>5. QED
    BY <1>12, <2>1, <2>3, <2>4 DEF Rename
<1>13. ASSUME NEW p \in Procs, Abandon(p) PROVE MadeInv'
  BY <1>0, <1>b, <1>13 DEF Abandon, NextRepo, Unlink, Installing, Installed
<1>14. ASSUME NEW p \in Procs, ChmodExec(p) PROVE MadeInv'
  <2>1. PICK v \in Versions : v = job[p].v
    BY <1>14 DEF ChmodExec, JobOfStep, OfVersion, Installing, Installed
  <2>2. Whole(Inst(v)) /\ Has(Inst(v), "ver") /\ job' = job /\ pc'[p] = "flag"
    BY <1>0, <1>a, <1>14, <2>1 DEF ChmodExec, Installed
  <2>3. disk' = disk \cup {In(Inst(v), "mode")}
    BY <2>1, <2>2, <1>14, PlaceFacts DEF ChmodExec, DirInv, Marks
  <2>4. Whole(Inst(v))' /\ Has(Inst(v), "ver")' /\ Has(Inst(v), "mode")'
    BY <2>2, <2>3 DEF Whole, Has
  <2>5. QED
    BY <1>0, <2>1, <2>2, <2>4 DEF MadeInv, Installed
<1>15. ASSUME NEW p \in Procs, TouchFlag(p) PROVE MadeInv'
  <2>1. PICK v \in Versions : v = job[p].v
    BY <1>15 DEF TouchFlag, JobOfStep, OfVersion, Installing, Installed
  <2>2. Whole(Inst(v)) /\ Has(Inst(v), "ver") /\ job' = job /\ pc'[p] = "truncate"
    BY <1>0, <1>a, <1>15, <2>1 DEF TouchFlag, Installed
  <2>3. Same(Inst(v)) /\ (Has(Inst(v), "mode") \/ Mode(v) \in cut')
    <3>1. Has(Inst(v), "mode") \/ Mode(v) \in cut
      BY <1>a, <1>15, <2>1 DEF TouchFlag, Installed
    <3>2. Mode(v) # FlagMark
      BY DEF Mode, FlagMark
    <3>3. QED
      BY <1>15, <3>1, <3>2, SettingsSteps, PlaceFacts DEF TouchFlag, SamePlaces
  <2>4. /\ Whole(Inst(v))' /\ Has(Inst(v), "ver")'
        /\ Has(Inst(v), "mode")' \/ Mode(v) \in cut'
    BY <2>2, <2>3 DEF Whole, Same
  <2>5. QED
    BY <1>0, <2>1, <2>2, <2>4 DEF MadeInv, Installed
<1>16. ASSUME NEW p \in Procs, TruncateConfig(p) PROVE MadeInv'
  <2>1. PICK v \in Versions : v = job[p].v
    BY <1>16 DEF TruncateConfig, JobOfStep, OfVersion, Installing, Installed
  <2>2. Whole(Inst(v)) /\ Has(Inst(v), "ver") /\ job' = job /\ pc'[p] = "config"
    BY <1>0, <1>a, <1>16, <2>1 DEF TruncateConfig, Installed
  <2>3. Same(Inst(v)) /\ (Has(Inst(v), "mode") \/ Mode(v) \in cut')
    BY <1>a, <1>16, <2>1, SettingsSteps, PlaceFacts DEF TruncateConfig, Installed,
       SamePlaces
  <2>4. /\ Whole(Inst(v))' /\ Has(Inst(v), "ver")'
        /\ Has(Inst(v), "mode")' \/ Mode(v) \in cut'
    BY <2>2, <2>3 DEF Whole, Same
  <2>5. QED
    BY <1>0, <2>1, <2>2, <2>4 DEF MadeInv, Installed
<1>17. ASSUME NEW p \in Procs, WriteConfigJSON(p) PROVE MadeInv'
  BY <1>0, <1>b, <1>17 DEF WriteConfigJSON, Installing, Installed
<1>18. ASSUME NEW p \in Procs, NEW v \in Versions, BeginRemove(p, v) PROVE MadeInv'
  BY <1>0, <1>b, <1>18 DEF BeginRemove, Begin, Installing, Installed
<1>19. ASSUME NEW p \in Procs, Remove(p) PROVE MadeInv'
  BY <1>0, <1>b, <1>19 DEF Remove, Repaired, Unlink, Installing, Installed
<1>20. ASSUME NEW p \in Procs, NEW todo \in SUBSET Addons, BeginAddons(p, todo)
      PROVE  MadeInv'
  BY <1>0, <1>b, <1>20 DEF BeginAddons, Begin, Installing, Installed
<1>21. ASSUME NEW p \in Procs, NEW a \in Addons, NextAddon(p, a) PROVE MadeInv'
  BY <1>0, <1>b, <1>21 DEF NextAddon, Installing, Installed
<1>22. ASSUME NEW p \in Procs, Unpack(p) PROVE MadeInv'
  BY <1>0, <1>b, <1>22 DEF Unpack, WriteEntry, Installing, Installed
<1>23. ASSUME NEW p \in Procs, UnpackFails(p) PROVE MadeInv'
  BY <1>0, <1>b, <1>23 DEF UnpackFails, Installing, Installed
<1>24. ASSUME NEW p \in Procs, UndoAddon(p) PROVE MadeInv'
  BY <1>0, <1>b, <1>24 DEF UndoAddon, Unlink, Installing, Installed
<1>25. ASSUME NEW p \in Procs, ReturnAddons(p) PROVE MadeInv'
  BY <1>0, <1>b, <1>25 DEF ReturnAddons, Installing, Installed
<1>26. ASSUME NEW p \in Procs, BeginGeoIP(p) PROVE MadeInv'
  BY <1>0, <1>b, <1>26 DEF BeginGeoIP, Begin, Installing, Installed
<1>27. ASSUME NEW p \in Procs, NeedsUpdate(p) PROVE MadeInv'
  BY <1>0, <1>b, <1>27 DEF NeedsUpdate, Installing, Installed
<1>28. ASSUME NEW p \in Procs, DownloadOne(p) PROVE MadeInv'
  BY <1>0, <1>b, <1>28 DEF DownloadOne, Put, Installing, Installed
<1>29. ASSUME NEW p \in Procs, CopyFile(p) PROVE MadeInv'
  BY <1>0, <1>b, <1>29 DEF CopyFile, Put, Installing, Installed
<1>30. ASSUME NEW p \in Procs, DownloadFails(p) PROVE MadeInv'
  BY <1>0, <1>b, <1>30 DEF DownloadFails, Installing, Installed
<1>31. ASSUME NEW p \in Procs, OpenMMDB(p) PROVE MadeInv'
  BY <1>0, <1>b, <1>31 DEF OpenMMDB, Installing, Installed
<1>32. ASSUME NEW p \in Procs, Crash(p) PROVE MadeInv'
  BY <1>0, <1>b, <1>32 DEF Crash, Installing, Installed
<1>33. ASSUME NEW p \in Procs, WipeGivesUp(p) PROVE MadeInv'
  BY <1>0, <1>b, <1>33 DEF WipeGivesUp, Drops, Installing, Installed
<1>34. ASSUME NEW p \in Procs, FindUnreadable(p) PROVE MadeInv'
  <2>1. job[p] \in FetchJobs /\ [job[p] EXCEPT !.wrote = {}].wrote = {}
    BY <1>34 DEF FindUnreadable, JobOfStep, FetchJobs
  <2>2. job'[p].wrote = {} /\ pc'[p] = "clear"
    BY <1>0, <1>34, <2>1 DEF FindUnreadable
  <2>3. QED
    BY <1>0, <2>2 DEF MadeInv, Installed
<1>35. ASSUME NEW p \in Procs, RemoveOldGivesUp(p) PROVE MadeInv'
  <2>1. job' = job /\ pc[p] = "unlink" /\ pc'[p] = "clear"
    BY <1>0, <1>35 DEF RemoveOldGivesUp, Drops
  <2>2. QED
    BY <1>0, <1>a, <2>1 DEF MadeInv, Installed
<1>36. ASSUME NEW p \in Procs, ClearTmpGivesUp(p) PROVE MadeInv'
  <2>1. PICK v \in Versions : v = job[p].v
    BY <1>36 DEF ClearTmpGivesUp, JobOfStep, OfVersion, Installing, Installed
  <2>2. job' = job /\ job[p].wrote = {} /\ pc'[p] = "extract"
    BY <1>0, <1>a, <1>36 DEF ClearTmpGivesUp
  <2>3. Has(Tmp(v), "dir")'
    BY <1>36, <2>1 DEF ClearTmpGivesUp, Has
  <2>4. QED
    BY <1>0, <2>1, <2>2, <2>3 DEF MadeInv, Installed
<1>37. ASSUME NEW p \in Procs, ChmodExecFails(p) PROVE MadeInv'
  <2>1. PICK v \in Versions : v = job[p].v
    BY <1>37 DEF ChmodExecFails, Drops, JobOfStep, OfVersion, Installing, Installed
  <2>2. Whole(Inst(v)) /\ Has(Inst(v), "ver") /\ job' = job /\ pc'[p] = "flag"
    BY <1>0, <1>a, <1>37, <2>1 DEF ChmodExecFails, Drops, Installed
  <2>3. Whole(Inst(v))' /\ Has(Inst(v), "ver")' /\ Mode(v) \in cut'
    BY <1>37, <2>1, <2>2 DEF ChmodExecFails, Drops, Whole, Has
  <2>4. QED
    BY <1>0, <2>1, <2>2, <2>3 DEF MadeInv, Installed
<1>38. ASSUME NEW p \in Procs, TouchFlagFails(p) PROVE MadeInv'
  <2>1. PICK v \in Versions : v = job[p].v
    BY <1>38 DEF TouchFlagFails, Drops, JobOfStep, OfVersion, Installing, Installed
  <2>2. /\ Whole(Inst(v)) /\ Has(Inst(v), "ver") /\ job' = job /\ pc'[p] = "truncate"
        /\ Has(Inst(v), "mode") \/ Mode(v) \in cut
    BY <1>0, <1>a, <1>38, <2>1 DEF TouchFlagFails, Drops, Installed
  <2>3. disk' = disk /\ cut \subseteq cut'
    BY <1>38 DEF TouchFlagFails, Drops
  <2>4. /\ Whole(Inst(v))' /\ Has(Inst(v), "ver")'
        /\ Has(Inst(v), "mode")' \/ Mode(v) \in cut'
    BY <2>2, <2>3 DEF Whole, Has
  <2>5. QED
    BY <1>0, <2>1, <2>2, <2>4 DEF MadeInv, Installed
<1>39. ASSUME NEW p \in Procs, WriteConfigFails(p) PROVE MadeInv'
  BY <1>0, <1>b, <1>39 DEF WriteConfigFails, Installing, Installed
<1>40. ASSUME NEW p \in Procs, RemoveFails(p) PROVE MadeInv'
  BY <1>0, <1>b, <1>40 DEF RemoveFails, Installing, Installed
<1>41. ASSUME NEW p \in Procs, NEW a \in Addons, NextAddonFails(p, a) PROVE MadeInv'
  BY <1>0, <1>b, <1>41 DEF NextAddonFails, Installing, Installed
<1>42. ASSUME NEW p \in Procs, UndoAddonGivesUp(p) PROVE MadeInv'
  BY <1>0, <1>b, <1>42 DEF UndoAddonGivesUp, Installing, Installed
<1>43. CASE UNCHANGED vars
  BY <1>43 DEF vars, MadeInv, Whole, Has
<1>44. QED
  BY <1>1, <1>2, <1>3, <1>4, <1>5, <1>6, <1>7, <1>8, <1>9, <1>10, <1>11, <1>12,
     <1>13, <1>14, <1>15, <1>16, <1>17, <1>18, <1>19, <1>20, <1>21, <1>22, <1>23,
     <1>24, <1>25, <1>26, <1>27, <1>28, <1>29, <1>30, <1>31, <1>32, <1>33, <1>34,
     <1>35, <1>36, <1>37, <1>38, <1>39, <1>40, <1>41, <1>42, <1>43
  DEF Next, FetchStep, RemoveStep, AddonsStep, GeoIPStep

LEMMA MarkFacts ==
  /\ MMDB # FlagMark /\ \A a \in Addons : Addon(a) # FlagMark
  /\ \A v, w \in Versions :
      /\ Inst(v) # Mode(w) /\ Inst(v) # Active(w) /\ Mode(v) # Active(w)
      /\ {Inst(v), Mode(v), Active(v)} \cap {MMDB, FlagMark} = {}
      /\ Inst(v) = Inst(w) \/ Mode(v) = Mode(w) \/ Active(v) = Active(w) => v = w
      /\ \A a \in Addons : Inst(v) # Addon(a) /\ Mode(v) # Addon(a)
           /\ Active(v) # Addon(a)
BY DEF Inst, Mode, Active, MMDB, FlagMark, Addon

(* An install when nobody is working on one. *)
Settled(v) ==
  Has(Inst(v), "dir") =>
    \/ Inst(v) \in cut
    \/ /\ Whole(Inst(v)) /\ Has(Inst(v), "ver")
       /\ Has(Inst(v), "mode") \/ Mode(v) \in cut
       /\ (\E w \in Versions : Config(w) \in disk) \/ Active(v) \in cut
AllSettled == \A v \in Versions : Settled(v)
KeepsMarks ==
  /\ FlagMark \in cut => FlagMark \in cut'
  /\ \A v \in Versions : \A mark \in {Inst(v), Mode(v), Active(v)} : mark \in cut
          => mark \in cut'
KeepsInsts == SameSettings /\ KeepsMarks /\ \A v \in Versions : Same(Inst(v))

LEMMA KeptSettled == AllSettled /\ KeepsInsts => AllSettled'
<1> SUFFICES ASSUME AllSettled, KeepsInsts, NEW v \in Versions PROVE Settled(v)'
  BY DEF AllSettled
<1>1. \A w \in Versions : Config(w) \in disk' <=> Config(w) \in disk
  BY DEF KeepsInsts, SameSettings, Configs
<1>2. Whole(Inst(v))' <=> Whole(Inst(v))
  BY DEF KeepsInsts, Same, Whole
<1>3. QED
  BY <1>1, <1>2 DEF AllSettled, KeepsInsts, KeepsMarks, Same, Settled

(* Steps that are not about an install. *)
LEMMA ElsewhereSteps ==
  ASSUME TypeOK, JobOfStep, DirInv, NEW p \in Procs,
         \/ ClearTmp(p) \/ ClearTmpGivesUp(p) \/ Extract(p) \/ WriteVersionJSON(p)
         \/ Abandon(p)
         \/ (\E a \in Addons : NextAddon(p, a)) \/ Unpack(p) \/ UndoAddon(p)
         \/ DownloadOne(p) \/ CopyFile(p) \/ DownloadFails(p)
         \/ disk' = disk /\ cut \subseteq cut'
  PROVE  KeepsInsts
<1>1. CASE \/ ClearTmp(p) \/ ClearTmpGivesUp(p) \/ Extract(p) \/ WriteVersionJSON(p)
           \/ Abandon(p)
  <2>1. PICK v \in Versions : v = job[p].v
    BY <1>1 DEF ClearTmp, ClearTmpGivesUp, Extract, WriteVersionJSON, Abandon, JobOfStep,
       OfVersion, Installing
  <2>2. SameBut(Tmp(v)) /\ cut' = cut
    BY <1>1, <2>1, TmpSteps
    DEF ClearTmp, ClearTmpGivesUp, Extract, WriteVersionJSON, Abandon
  <2>3. QED
    BY <2>2, PlaceFacts DEF KeepsInsts, KeepsMarks, SameBut
<1>2. CASE (\E a \in Addons : NextAddon(p, a)) \/ Unpack(p) \/ UndoAddon(p)
  <2>1. PICK a \in Addons : NextAddon(p, a)
          \/ (job[p].now = a /\ (Unpack(p) \/ UndoAddon(p)))
    BY <1>2 DEF Unpack, UndoAddon, JobOfStep
  <2>2. SameBut(Addon(a)) /\ cut' = cut
    BY <2>1, AddonSteps DEF NextAddon, Unpack, UndoAddon
  <2>3. QED
    BY <2>2, PlaceFacts DEF KeepsInsts, KeepsMarks, SameBut
<1>3. CASE DownloadOne(p) \/ CopyFile(p)
  <2>1. SameBut(MMDB) /\ cut \ {MMDB} \subseteq cut'
    BY <1>3, MMDBSteps DEF DownloadOne, CopyFile
  <2>2. QED
    BY <2>1, PlaceFacts, MarkFacts DEF KeepsInsts, KeepsMarks, SameBut
<1>4. CASE disk' = disk /\ cut \subseteq cut'
  BY <1>4 DEF KeepsInsts, KeepsMarks, SameSettings, Same, Has
<1>5. QED
  BY <1>1, <1>2, <1>3, <1>4 DEF DownloadFails

LEMMA InstStep ==
  ASSUME OneAtATime
  PROVE  TypeOK /\ JobOfStep /\ DirInv /\ MadeInv /\ InstInv /\ [Next]_vars => InstInv'
<1> SUFFICES ASSUME TypeOK, JobOfStep, DirInv, MadeInv, InstInv, [Next]_vars
             PROVE  InstInv'
  OBVIOUS
<1> USE DEF At, Goto, Return
<1>0. /\ \A p, q \in Procs : p = q
      /\ pc \in [Procs -> Steps]
  BY DEF OneAtATime, TypeOK
<1>a. ASSUME NEW p \in Procs, pc[p] \notin {"wipe", "unlink", "remove"} \cup Installed
      PROVE  AllSettled
  BY <1>0, <1>a DEF InstInv, AllSettled, Settled, Removing, ModeSet, ActiveSet,
     Installed
<1>b. AllSettled' => InstInv'
  BY DEF InstInv, AllSettled, Settled, Removing, ModeSet, ActiveSet
<1>c. ASSUME NEW p \in Procs, pc[p] \notin {"wipe", "unlink", "remove"} \cup Installed,
             \/ ClearTmp(p) \/ ClearTmpGivesUp(p) \/ Extract(p) \/ WriteVersionJSON(p)
             \/ Abandon(p)
             \/ (\E a \in Addons : NextAddon(p, a)) \/ Unpack(p) \/ UndoAddon(p)
             \/ DownloadOne(p) \/ CopyFile(p) \/ DownloadFails(p)
             \/ disk' = disk /\ cut \subseteq cut'
      PROVE  InstInv'
  BY <1>a, <1>b, <1>c, ElsewhereSteps, KeptSettled
<1>d. ASSUME NEW p \in Procs, disk' = disk, cut \subseteq cut',
             pc[p] = "wipe" => Used(Dirs) \subseteq cut',
             pc[p] \in {"unlink", "remove"} => Used({Inst(job[p].v)}) \subseteq cut',
             pc[p] = "chmod" => Mode(job[p].v) \in cut',
             pc[p] \in Installed => Active(job[p].v) \in cut',
             pc[p] = "config" => \A w \in Versions : Active(w) \in cut'
      PROVE  InstInv'
  <2>1. \A w \in Versions : Same(Inst(w)) /\ (Whole(Inst(w))' <=> Whole(Inst(w)))
    BY <1>d DEF Same, Has, Whole
  <2>2. CASE pc[p] = "wipe"
    <3>1. ASSUME NEW w \in Versions, Has(Inst(w), "dir") PROVE Inst(w) \in cut'
      <4>1. Entries(Inst(w)) # {}
        BY <3>1, PlaceIsEmpty, PlaceFacts DEF Marks
      <4>2. Inst(w) \in Used(Dirs)
        BY <4>1, PlaceFacts DEF Used
      <4>3. QED
        BY <2>2, <4>2, <1>d
    <3>2. QED
      BY <2>1, <3>1 DEF Same, InstInv
  <2>3. CASE pc[p] \in {"unlink", "remove"}
    <3>1. PICK v \in Versions : v = job[p].v
      BY <2>3 DEF JobOfStep, OfVersion, RemoveJobs
    <3>2. Has(Inst(v), "dir") => Inst(v) \in cut'
      <4>1. Has(Inst(v), "dir") => Entries(Inst(v)) # {}
        BY PlaceIsEmpty, PlaceFacts DEF Marks
      <4>2. Used({Inst(v)}) \subseteq cut'
        BY <2>3, <3>1, <1>d
      <4>3. QED
        BY <4>1, <4>2 DEF Used
    <3>3. \A w \in Versions \ {v} : Settled(w)
      BY <1>0, <2>3, <3>1
      DEF InstInv, Settled, Removing, ModeSet, ActiveSet, Installed
    <3>4. AllSettled'
      BY <1>d, <2>1, <3>2, <3>3 DEF AllSettled, Settled, Same
    <3>5. QED
      BY <1>b, <3>4
  <2>4. CASE pc[p] \in Installed
    <3>1. PICK v \in Versions : v = job[p].v
      BY <2>4 DEF JobOfStep, OfVersion
    <3>2. pc[p] = "chmod" => Mode(v) \in cut'
      BY <3>1, <1>d
    <3>3. Active(v) \in cut'
      BY <2>4, <3>1, <1>d
    <3>4. pc[p] = "config" => \A w \in Versions : Active(w) \in cut'
      BY <1>d
    <3>5. ASSUME NEW w \in Versions, Has(Inst(w), "dir"), Inst(w) \notin cut
          PROVE  /\ Whole(Inst(w)) /\ Has(Inst(w), "ver")
                 /\ Has(Inst(w), "mode") \/ Mode(w) \in cut'
                 /\ (\E u \in Versions : Config(u) \in disk) \/ Active(w) \in cut'
      <4>1. ~Removing(w)
        BY <1>0, <2>4 DEF Removing, Installed
      <4>2. Whole(Inst(w)) /\ Has(Inst(w), "ver") /\ ModeSet(w) /\ ActiveSet(w)
        BY <3>5, <4>1 DEF InstInv
      <4>3. QED
        BY <1>0, <1>d, <2>4, <3>1, <3>2, <3>3, <3>4, <4>2 DEF ModeSet, ActiveSet,
           Installed
    <3>6. AllSettled'
      BY <1>d, <2>1, <3>5 DEF AllSettled, Settled, Same
    <3>7. QED
      BY <1>b, <3>6
  <2>5. CASE pc[p] \notin {"wipe", "unlink", "remove"} \cup Installed
    <3>1. KeepsInsts
      BY <1>d, <2>1 DEF KeepsInsts, KeepsMarks, SameSettings
    <3>2. QED
      BY <2>5, <3>1, <1>a, <1>b, KeptSettled
  <2>6. QED
    BY <2>2, <2>3, <2>4, <2>5
<1>1. ASSUME NEW p \in Procs, NEW replace \in BOOLEAN, NEW pre \in BOOLEAN,
             BeginFetch(p, replace, pre)
      PROVE  InstInv'
  BY <1>c, <1>1 DEF BeginFetch, Begin, Busy, Installed
<1>2. ASSUME NEW p \in Procs, CheckCompat(p) PROVE InstInv'
  BY <1>c, <1>2 DEF CheckCompat, Installed
<1>3. ASSUME NEW p \in Procs, Wipe(p) PROVE InstInv'
  <2>1. CASE disk' \subseteq disk /\ pc' = pc
    BY <1>3, <2>1 DEF Wipe, InstInv, Removing
  <2>2. CASE disk' = {}
    BY <2>2 DEF InstInv, Has
  <2>3. QED
    BY <1>3, <2>1, <2>2 DEF Wipe, Unlink
<1>4. ASSUME NEW p \in Procs, RepoFails(p) PROVE InstInv'
  BY <1>c, <1>4 DEF RepoFails, NextRepo, Installed
<1>5. ASSUME NEW p \in Procs, FindInstalled(p) PROVE InstInv'
  BY <1>c, <1>5 DEF FindInstalled, Installed
<1>6. ASSUME NEW p \in Procs, FindNew(p) PROVE InstInv'
  BY <1>c, <1>6 DEF FindNew, Installed
<1>7. ASSUME NEW p \in Procs, RemoveOld(p) PROVE InstInv'
  <2>1. PICK v \in Versions : v = job[p].v
    BY <1>7 DEF RemoveOld, JobOfStep, OfVersion, RemoveJobs
  <2>2. SameBut(Inst(v))
    BY <2>1, <1>7, InstSteps
  <2>3. \A w \in Versions \ {v} : Settled(w)
    BY <1>0, <1>7, <2>1
    DEF RemoveOld, InstInv, Settled, Removing, ModeSet, ActiveSet, Installed
  <2>4. ASSUME NEW w \in Versions \ {v} PROVE Settled(w)'
    <3>1. Inst(w) \in cut' <=> Inst(w) \in cut
      BY <1>7, <2>1, MarkFacts DEF RemoveOld, Repaired
    <3>2. Mode(w) \in cut' <=> Mode(w) \in cut
      BY <1>7, <2>1, MarkFacts DEF RemoveOld, Repaired
    <3>3. Active(w) \in cut' <=> Active(w) \in cut
      BY <1>7, <2>1, MarkFacts DEF RemoveOld, Repaired
    <3>4. Same(Inst(w)) /\ \A u \in Versions : Config(u) \in disk'
            <=> Config(u) \in disk
      BY <2>2, PlaceFacts DEF SameBut, SameSettings, Configs
    <3>5. Whole(Inst(w))' <=> Whole(Inst(w))
      BY <3>4 DEF Same, Whole
    <3>6. QED
      BY <2>3, <3>1, <3>2, <3>3, <3>4, <3>5 DEF Settled, Same
  <2>5. CASE pc' = pc /\ job' = job
    BY <1>7, <2>1, <2>4, <2>5
    DEF RemoveOld, InstInv, Settled, Removing, ModeSet, ActiveSet
  <2>6. CASE Entries(Inst(v)) = {} /\ disk' = disk
    <3>1. ~Has(Inst(v), "dir")'
      BY <2>6, PlaceIsEmpty, PlaceFacts DEF Has, Marks
    <3>2. QED
      BY <1>b, <2>4, <3>1 DEF AllSettled, Settled
  <2>7. QED
    BY <1>7, <2>1, <2>5, <2>6 DEF RemoveOld
<1>8. ASSUME NEW p \in Procs, ClearTmp(p) PROVE InstInv'
  BY <1>c, <1>8 DEF ClearTmp, Installed
<1>9. ASSUME NEW p \in Procs, Extract(p) PROVE InstInv'
  BY <1>c, <1>9 DEF Extract, Installed
<1>10. ASSUME NEW p \in Procs, InstallFails(p) PROVE InstInv'
  BY <1>c, <1>10 DEF InstallFails, Installed
<1>11. ASSUME NEW p \in Procs, WriteVersionJSON(p) PROVE InstInv'
  BY <1>c, <1>11 DEF WriteVersionJSON, Installed
<1>12. ASSUME NEW p \in Procs, Rename(p) PROVE InstInv'
  <2>1. PICK v \in Versions : v = job[p].v
    BY <1>12 DEF Rename, JobOfStep, OfVersion, Installing
  <2>2. CASE disk' = disk /\ cut' = cut
    BY <1>c, <1>12, <2>2 DEF Rename, Installed
  <2>3. CASE /\ Entries(Inst(v)) = {}
             /\ disk' = (disk \ Entries(Tmp(v)))
                          \cup {In(Inst(v), e[3]) : e \in Entries(Tmp(v))}
             /\ Repaired(v) /\ pc' = [pc EXCEPT ![p] = "chmod"]
    <3>1. Whole(Tmp(v)) /\ Has(Tmp(v), "dir") /\ Has(Tmp(v), "ver") /\ AllSettled
            /\ job' = job
      BY <1>12, <2>1, <1>a DEF Rename, MadeInv, Installed
    <3>2. /\ SameSettings
          /\ \A other \in (Dirs \cup {MMDB}) \ {Tmp(v), Inst(v)} : Same(other)
          /\ \A f : Has(Inst(v), f)' <=> Has(Tmp(v), f)
      BY <2>3, <3>1, RenameStep
    <3>3. Whole(Inst(v))' /\ Has(Inst(v), "ver")'
      BY <3>1, <3>2 DEF Whole
    <3>4. pc'[p] = "chmod" /\ job'[p].v = v
      BY <1>0, <2>1, <2>3, <3>1
    <3>5. ASSUME NEW w \in Versions \ {v} PROVE Settled(w)'
      <4>1. Same(Inst(w)) /\ \A u \in Versions : Config(u) \in disk'
              <=> Config(u) \in disk
        BY <3>2, PlaceFacts DEF SameSettings, Configs
      <4>2. Whole(Inst(w))' <=> Whole(Inst(w))
        BY <4>1 DEF Same, Whole
      <4>3. \A mark \in {Inst(w), Mode(w), Active(w)} : mark \in cut' <=> mark \in cut
        BY <2>3, MarkFacts DEF Repaired
      <4>4. QED
        BY <3>1, <4>1, <4>2, <4>3 DEF AllSettled, Settled, Same
    <3>6. ModeSet(v)' /\ ActiveSet(v)'
      BY <3>4 DEF ModeSet, ActiveSet, Installed
    <3>7. QED
      BY <3>3, <3>5, <3>6 DEF InstInv, Settled, ModeSet, ActiveSet
  <2>4. QED
    BY <1>12, <2>1, <2>2, <2>3 DEF Rename
<1>13. ASSUME NEW p \in Procs, Abandon(p) PROVE InstInv'
  BY <1>c, <1>13 DEF Abandon, Installed
<1>14. ASSUME NEW p \in Procs, ChmodExec(p) PROVE InstInv'
  <2>1. PICK v \in Versions : v = job[p].v
    BY <1>14 DEF ChmodExec, JobOfStep, OfVersion, Installed
  <2>2. SameBut(Inst(v)) /\ job' = job /\ cut' = cut /\ pc' = [pc EXCEPT ![p] = "flag"]
    BY <2>1, <1>14, InstSteps DEF ChmodExec
  <2>3. pc[p] = "chmod" /\ pc'[p] = "flag"
    BY <1>0, <2>2, <1>14 DEF ChmodExec
  <2>4. \A u \in Versions : Config(u) \in disk' <=> Config(u) \in disk
    BY <2>2 DEF SameBut, SameSettings, Configs
  <2>5. ASSUME NEW w \in Versions \ {v}, Has(Inst(w), "dir")', ~(Inst(w) \in cut)'
        PROVE  Whole(Inst(w))' /\ Has(Inst(w), "ver")' /\ ModeSet(w)' /\ ActiveSet(w)'
    <3>1. Same(Inst(w)) /\ (Whole(Inst(w))' <=> Whole(Inst(w)))
      BY <2>2, PlaceFacts DEF SameBut, Same, Whole
    <3>2. ~Removing(w)
      BY <1>0, <2>3 DEF Removing
    <3>3. Whole(Inst(w)) /\ Has(Inst(w), "ver") /\ ModeSet(w) /\ ActiveSet(w)
      BY <2>2, <2>5, <3>1, <3>2 DEF InstInv, Same
    <3>4. ModeSet(w)'
      BY <1>0, <2>1, <2>2, <2>3, <3>1, <3>3 DEF ModeSet, Same
    <3>5. ActiveSet(w)'
      BY <1>0, <2>1, <2>2, <2>3, <2>4, <3>3 DEF ActiveSet, Installed
    <3>6. QED
      BY <3>1, <3>3, <3>4, <3>5 DEF Same
  <2>6. Whole(Inst(v))' /\ Has(Inst(v), "ver")' /\ ModeSet(v)' /\ ActiveSet(v)'
    <3>1. Whole(Inst(v)) /\ Has(Inst(v), "ver")
      BY <2>1, <2>3 DEF MadeInv, Installed
    <3>2. disk' = disk \cup {In(Inst(v), "mode")}
      BY <2>1, <3>1, <1>14, PlaceFacts DEF ChmodExec, DirInv, Marks
    <3>3. QED
      BY <2>1, <2>2, <2>3, <3>1, <3>2 DEF Whole, Has, ModeSet, ActiveSet, Installed
  <2>7. QED
    BY <2>5, <2>6 DEF InstInv
<1>15. ASSUME NEW p \in Procs, TouchFlag(p) PROVE InstInv'
  <2>1. PICK v \in Versions : v = job[p].v
    BY <1>15 DEF TouchFlag, JobOfStep, OfVersion, Installed
  <2>2. job' = job /\ pc'[p] = "truncate"
    BY <1>0, <1>15 DEF TouchFlag
  <2>a. \A w \in Versions : \A mark \in {Inst(w), Mode(w), Active(w)} :
          mark \in cut' <=> mark \in cut
    BY <1>15, MarkFacts DEF TouchFlag
  <2>3. SamePlaces
    BY <1>15, SettingsSteps
  <2>4. ASSUME NEW w \in Versions, Has(Inst(w), "dir")', ~(Inst(w) \in cut)'
        PROVE  Whole(Inst(w))' /\ Has(Inst(w), "ver")' /\ ModeSet(w)' /\ ActiveSet(w)'
    <3>1. Same(Inst(w)) /\ (Whole(Inst(w))' <=> Whole(Inst(w)))
      BY <2>3, PlaceFacts DEF SamePlaces, Same, Whole
    <3>2. ~Removing(w)
      BY <1>0, <1>15 DEF TouchFlag, Removing
    <3>3. /\ Whole(Inst(w)) /\ Has(Inst(w), "ver") /\ ActiveSet(w)
          /\ Has(Inst(w), "mode") \/ Mode(w) \in cut
      BY <1>0, <2>2, <2>a, <2>4, <3>1, <3>2, <1>15 DEF TouchFlag, InstInv, ModeSet, Same
    <3>4. ActiveSet(w)'
      <4>1. \A u \in Versions : Config(u) \in disk => Config(u) \in disk'
        BY <1>15 DEF TouchFlag
      <4>2. QED
        BY <1>0, <2>1, <2>2, <2>a, <3>3, <4>1, <1>15
        DEF TouchFlag, ActiveSet, Installed
    <3>5. QED
      BY <2>a, <3>1, <3>3, <3>4 DEF Same, ModeSet
  <2>5. QED
    BY <2>4 DEF InstInv
<1>16. ASSUME NEW p \in Procs, TruncateConfig(p) PROVE InstInv'
  <2>1. PICK v \in Versions : v = job[p].v
    BY <1>16 DEF TruncateConfig, JobOfStep, OfVersion, Installed
  <2>2. job' = job /\ cut' = cut /\ pc'[p] = "config"
    BY <1>0, <1>16 DEF TruncateConfig
  <2>3. SamePlaces
    BY <1>16, SettingsSteps
  <2>4. ASSUME NEW w \in Versions, Has(Inst(w), "dir")', ~(Inst(w) \in cut)'
        PROVE  Whole(Inst(w))' /\ Has(Inst(w), "ver")' /\ ModeSet(w)' /\ ActiveSet(w)'
    <3>1. Same(Inst(w)) /\ (Whole(Inst(w))' <=> Whole(Inst(w)))
      BY <2>3, PlaceFacts DEF SamePlaces, Same, Whole
    <3>2. ~Removing(w)
      BY <1>0, <1>16 DEF TruncateConfig, Removing
    <3>3. /\ Whole(Inst(w)) /\ Has(Inst(w), "ver") /\ ActiveSet(w)
          /\ Has(Inst(w), "mode") \/ Mode(w) \in cut
      BY <1>0, <2>2, <2>4, <3>1, <3>2, <1>16 DEF TruncateConfig, InstInv, ModeSet, Same
    <3>4. ActiveSet(w)'
      BY <2>2 DEF ActiveSet
    <3>5. QED
      BY <2>2, <3>1, <3>3, <3>4 DEF Same, ModeSet
  <2>5. QED
    BY <2>4 DEF InstInv
<1>17. ASSUME NEW p \in Procs, WriteConfigJSON(p) PROVE InstInv'
  <2>1. PICK v \in Versions : v = job[p].v
    BY <1>17 DEF WriteConfigJSON, JobOfStep, OfVersion, Installed
  <2>2. SamePlaces /\ Config(v) \in disk'
    BY <1>17, <2>1, SettingsSteps DEF WriteConfigJSON
  <2>3. ASSUME NEW w \in Versions PROVE Settled(w)'
    <3>1. Same(Inst(w)) /\ (Whole(Inst(w))' <=> Whole(Inst(w)))
      BY <2>2, PlaceFacts DEF SamePlaces, Same, Whole
    <3>2. \A mark \in {Inst(w), Mode(w)} : mark \in cut' <=> mark \in cut
      BY <1>17, MarkFacts DEF WriteConfigJSON
    <3>3. ~Removing(w) /\ (ModeSet(w) => Has(Inst(w), "mode") \/ Mode(w) \in cut)
      BY <1>0, <1>17 DEF WriteConfigJSON, Removing, ModeSet
    <3>4. QED
      BY <2>2, <3>1, <3>2, <3>3 DEF InstInv, Settled, Same
  <2>4. QED
    BY <1>b, <2>3 DEF AllSettled
<1>18. ASSUME NEW p \in Procs, NEW v \in Versions, BeginRemove(p, v) PROVE InstInv'
  BY <1>c, <1>18 DEF BeginRemove, Begin, Busy, Installed
<1>19. ASSUME NEW p \in Procs, Remove(p) PROVE InstInv'
  <2>1. PICK v \in Versions : v = job[p].v
    BY <1>19 DEF Remove, JobOfStep, OfVersion, RemoveJobs
  <2>2. SameBut(Inst(v))
    BY <2>1, <1>19, InstSteps
  <2>3. \A w \in Versions \ {v} : Settled(w)
    BY <1>0, <1>19, <2>1
    DEF Remove, InstInv, Settled, Removing, ModeSet, ActiveSet, Installed
  <2>4. ASSUME NEW w \in Versions \ {v} PROVE Settled(w)'
    <3>1. Inst(w) \in cut' <=> Inst(w) \in cut
      BY <1>19, <2>1, MarkFacts DEF Remove, Repaired
    <3>2. Mode(w) \in cut' <=> Mode(w) \in cut
      BY <1>19, <2>1, MarkFacts DEF Remove, Repaired
    <3>3. Active(w) \in cut' <=> Active(w) \in cut
      BY <1>19, <2>1, MarkFacts DEF Remove, Repaired
    <3>4. Same(Inst(w)) /\ \A u \in Versions : Config(u) \in disk'
            <=> Config(u) \in disk
      BY <2>2, PlaceFacts DEF SameBut, SameSettings, Configs
    <3>5. Whole(Inst(w))' <=> Whole(Inst(w))
      BY <3>4 DEF Same, Whole
    <3>6. QED
      BY <2>3, <3>1, <3>2, <3>3, <3>4, <3>5 DEF Settled, Same
  <2>5. CASE pc' = pc /\ job' = job
    BY <1>19, <2>1, <2>4, <2>5
    DEF Remove, InstInv, Settled, Removing, ModeSet, ActiveSet
  <2>6. CASE Entries(Inst(v)) = {} /\ disk' = disk
    <3>1. ~Has(Inst(v), "dir")'
      BY <2>6, PlaceIsEmpty, PlaceFacts DEF Has, Marks
    <3>2. QED
      BY <1>b, <2>4, <3>1 DEF AllSettled, Settled
  <2>7. QED
    BY <1>19, <2>1, <2>5, <2>6 DEF Remove
<1>20. ASSUME NEW p \in Procs, NEW todo \in SUBSET Addons, BeginAddons(p, todo)
      PROVE  InstInv'
  BY <1>c, <1>20 DEF BeginAddons, Begin, Busy, Installed
<1>21. ASSUME NEW p \in Procs, NEW a \in Addons, NextAddon(p, a) PROVE InstInv'
  BY <1>c, <1>21 DEF NextAddon, Installed
<1>22. ASSUME NEW p \in Procs, Unpack(p) PROVE InstInv'
  BY <1>c, <1>22 DEF Unpack, Installed
<1>23. ASSUME NEW p \in Procs, UnpackFails(p) PROVE InstInv'
  BY <1>c, <1>23 DEF UnpackFails, Installed
<1>24. ASSUME NEW p \in Procs, UndoAddon(p) PROVE InstInv'
  BY <1>c, <1>24 DEF UndoAddon, Installed
<1>25. ASSUME NEW p \in Procs, ReturnAddons(p) PROVE InstInv'
  BY <1>c, <1>25 DEF ReturnAddons, Installed
<1>26. ASSUME NEW p \in Procs, BeginGeoIP(p) PROVE InstInv'
  BY <1>c, <1>26 DEF BeginGeoIP, Begin, Busy, Installed
<1>27. ASSUME NEW p \in Procs, NeedsUpdate(p) PROVE InstInv'
  BY <1>c, <1>27 DEF NeedsUpdate, Installed
<1>28. ASSUME NEW p \in Procs, DownloadOne(p) PROVE InstInv'
  BY <1>c, <1>28 DEF DownloadOne, Installed
<1>29. ASSUME NEW p \in Procs, CopyFile(p) PROVE InstInv'
  BY <1>c, <1>29 DEF CopyFile, Installed
<1>30. ASSUME NEW p \in Procs, DownloadFails(p) PROVE InstInv'
  BY <1>c, <1>30 DEF DownloadFails, Installed
<1>31. ASSUME NEW p \in Procs, OpenMMDB(p) PROVE InstInv'
  BY <1>c, <1>31 DEF OpenMMDB, Installed
<1>32. ASSUME NEW p \in Procs, Crash(p) PROVE InstInv'
  <2>1. disk' = disk /\ cut \subseteq cut'
    BY <1>32 DEF Crash
  <2>2. pc[p] = "wipe" => Used(Dirs) \subseteq cut'
    BY <1>32 DEF Crash
  <2>3. pc[p] \in {"unlink", "remove"} => Used({Inst(job[p].v)}) \subseteq cut'
    BY <1>32 DEF Crash
  <2>4. pc[p] = "chmod" => Mode(job[p].v) \in cut' /\ Active(job[p].v) \in cut'
    BY <1>32 DEF Crash
  <2>5. pc[p] \in {"flag", "truncate"} => Active(job[p].v) \in cut'
    BY <1>32 DEF Crash
  <2>6. pc[p] = "config" => \A w \in Versions : Active(w) \in cut'
    BY <1>32 DEF Crash
  <2>7. pc[p] = "config" => job[p].v \in Versions
    BY DEF JobOfStep, OfVersion, Installed
  <2>8. QED
    BY <1>d, <2>1, <2>2, <2>3, <2>4, <2>5, <2>6, <2>7 DEF Installed
<1>33. ASSUME NEW p \in Procs, WipeGivesUp(p) PROVE InstInv'
  BY <1>d, <1>33 DEF WipeGivesUp, Drops, Installed
<1>34. ASSUME NEW p \in Procs, FindUnreadable(p) PROVE InstInv'
  BY <1>c, <1>34 DEF FindUnreadable, Installed
<1>35. ASSUME NEW p \in Procs, RemoveOldGivesUp(p) PROVE InstInv'
  BY <1>d, <1>35 DEF RemoveOldGivesUp, Drops, Installed
<1>36. ASSUME NEW p \in Procs, ClearTmpGivesUp(p) PROVE InstInv'
  BY <1>c, <1>36 DEF ClearTmpGivesUp, Installed
<1>37. ASSUME NEW p \in Procs, ChmodExecFails(p) PROVE InstInv'
  <2>1. PICK v \in Versions : v = job[p].v
    BY <1>37 DEF ChmodExecFails, Drops, JobOfStep, OfVersion, Installed
  <2>2. job' = job /\ disk' = disk /\ cut' = cut \cup {Mode(v)}
    BY <2>1, <1>37 DEF ChmodExecFails, Drops
  <2>3. pc[p] = "chmod" /\ pc'[p] = "flag"
    BY <1>0, <1>37 DEF ChmodExecFails, Drops
  <2>4. ASSUME NEW w \in Versions, Has(Inst(w), "dir")', ~(Inst(w) \in cut)'
        PROVE  Whole(Inst(w))' /\ Has(Inst(w), "ver")' /\ ModeSet(w)' /\ ActiveSet(w)'
    <3>1. ~Removing(w)
      BY <1>0, <2>3 DEF Removing
    <3>2. Whole(Inst(w)) /\ Has(Inst(w), "ver") /\ ModeSet(w) /\ ActiveSet(w)
      BY <2>2, <2>4, <3>1 DEF InstInv, Has
    <3>3. ModeSet(w)'
      BY <1>0, <2>1, <2>2, <2>3, <3>2 DEF ModeSet, Has
    <3>4. ActiveSet(w)'
      BY <1>0, <2>1, <2>2, <2>3, <3>2 DEF ActiveSet, Installed
    <3>5. QED
      BY <2>2, <3>2, <3>3, <3>4 DEF Whole, Has
  <2>5. QED
    BY <2>4 DEF InstInv
<1>38. ASSUME NEW p \in Procs, TouchFlagFails(p) PROVE InstInv'
  <2>1. PICK v \in Versions : v = job[p].v
    BY <1>38 DEF TouchFlagFails, Drops, JobOfStep, OfVersion, Installed
  <2>2. job' = job /\ disk' = disk /\ cut \subseteq cut'
    BY <1>38 DEF TouchFlagFails, Drops
  <2>3. pc[p] = "flag" /\ pc'[p] = "truncate"
    BY <1>0, <1>38 DEF TouchFlagFails, Drops
  <2>4. ASSUME NEW w \in Versions, Has(Inst(w), "dir")', ~(Inst(w) \in cut)'
        PROVE  Whole(Inst(w))' /\ Has(Inst(w), "ver")' /\ ModeSet(w)' /\ ActiveSet(w)'
    <3>1. ~Removing(w)
      BY <1>0, <2>3 DEF Removing
    <3>2. Whole(Inst(w)) /\ Has(Inst(w), "ver") /\ ModeSet(w) /\ ActiveSet(w)
      BY <2>2, <2>4, <3>1 DEF InstInv, Has
    <3>3. ModeSet(w)'
      BY <1>0, <2>2, <2>3, <3>2 DEF ModeSet, Has
    <3>4. ActiveSet(w)'
      BY <1>0, <2>1, <2>2, <2>3, <3>2 DEF ActiveSet, Installed
    <3>5. QED
      BY <2>2, <3>2, <3>3, <3>4 DEF Whole, Has
  <2>5. QED
    BY <2>4 DEF InstInv
<1>39. ASSUME NEW p \in Procs, WriteConfigFails(p) PROVE InstInv'
  <2>1. pc[p] \in {"truncate", "config"} /\ disk' = disk /\ cut \subseteq cut'
    BY <1>39 DEF WriteConfigFails
  <2>2. job[p].v \in Versions
    BY <2>1 DEF JobOfStep, OfVersion, Installed
  <2>3. pc[p] = "truncate" => Active(job[p].v) \in cut'
    BY <1>39 DEF WriteConfigFails
  <2>4. pc[p] = "config" => \A w \in Versions : Active(w) \in cut'
    BY <1>39 DEF WriteConfigFails
  <2>5. QED
    BY <1>d, <2>1, <2>2, <2>3, <2>4
<1>40. ASSUME NEW p \in Procs, RemoveFails(p) PROVE InstInv'
  BY <1>d, <1>40 DEF RemoveFails, Installed
<1>41. ASSUME NEW p \in Procs, NEW a \in Addons, NextAddonFails(p, a) PROVE InstInv'
  BY <1>c, <1>41 DEF NextAddonFails, Installed
<1>42. ASSUME NEW p \in Procs, UndoAddonGivesUp(p) PROVE InstInv'
  BY <1>c, <1>42 DEF UndoAddonGivesUp, Installed
<1>43. CASE UNCHANGED vars
  <2>1. UNCHANGED <<disk, pc, job, cut>>
    BY <1>43 DEF vars
  <2>2. QED
    BY <2>1 DEF InstInv, Removing, ModeSet, ActiveSet, Whole, Has
<1>44. QED
  BY <1>1, <1>2, <1>3, <1>4, <1>5, <1>6, <1>7, <1>8, <1>9, <1>10, <1>11, <1>12,
     <1>13, <1>14, <1>15, <1>16, <1>17, <1>18, <1>19, <1>20, <1>21, <1>22, <1>23,
     <1>24, <1>25, <1>26, <1>27, <1>28, <1>29, <1>30, <1>31, <1>32, <1>33, <1>34,
     <1>35, <1>36, <1>37, <1>38, <1>39, <1>40, <1>41, <1>42, <1>43
  DEF Next, FetchStep, RemoveStep, AddonsStep, GeoIPStep

LEMMA FlagStep ==
  ASSUME OneAtATime
  PROVE  TypeOK /\ JobOfStep /\ DirInv /\ FlagInv /\ [Next]_vars => FlagInv'
<1> SUFFICES ASSUME TypeOK, JobOfStep, DirInv, FlagInv, [Next]_vars PROVE FlagInv'
  OBVIOUS
<1> USE DEF At, Goto, Return, Installing
<1> DEFINE Looks == {"clear", "extract", "version", "rename", "scan", "unlink",
        "abandon"}
<1> DEFINE NoInst == \A v \in Versions : ~Has(Inst(v), "dir")
<1>0. /\ \A p, q \in Procs : p = q
      /\ pc \in [Procs -> Steps] /\ job \in [Procs -> Jobs \cup {None}]
  BY DEF OneAtATime, TypeOK
<1>a. /\ served # {} => Flag \in disk \/ FlagMark \in cut
      /\ \A p \in Procs :
           /\ pc[p] = "wipe" => Flag \notin disk
           /\ pc[p] \in {"truncate", "config"} => Flag \in disk \/ Unmarked(p)
           /\ pc[p] \in Looks => Flag \in disk \/ Unmarked(p) \/ NoInst
  BY DEF FlagInv
<1>b. ASSUME NEW p \in Procs, served' = {} \/ Flag \in disk' \/ FlagMark \in cut',
             pc'[p] = "wipe" => Flag \notin disk',
             pc'[p] \in {"truncate", "config"} => Flag \in disk' \/ Unmarked(p)',
             pc'[p] \in Looks => Flag \in disk' \/ Unmarked(p)' \/ NoInst'
      PROVE  FlagInv'
  BY <1>0, <1>b DEF FlagInv
<1>c. ASSUME NEW p \in Procs, Flag \in disk => Flag \in disk',
             FlagMark \in cut => FlagMark \in cut', served' \subseteq served,
             pc'[p] \notin {"truncate", "config", "wipe"} \cup Looks
      PROVE  FlagInv'
  BY <1>a, <1>b, <1>c
<1>d. ASSUME NEW p \in Procs, KeepsInsts, hurt \subseteq hurt', served' \subseteq served,
             pc[p] \in Looks, pc'[p] \notin {"truncate", "config", "wipe"}
      PROVE  FlagInv'
  <2>1. (Flag \in disk' <=> Flag \in disk) /\ (NoInst' <=> NoInst)
    BY <1>d DEF KeepsInsts, SameSettings, Same
  <2>2. Unmarked(p) => Unmarked(p)'
    BY <1>d DEF KeepsInsts, KeepsMarks, Unmarked
  <2>3. QED
    BY <1>a, <1>b, <1>d, <2>1, <2>2 DEF KeepsInsts, KeepsMarks
<1> HIDE DEF NoInst
<1>1. ASSUME NEW p \in Procs, NEW replace \in BOOLEAN, NEW pre \in BOOLEAN,
             BeginFetch(p, replace, pre)
      PROVE  FlagInv'
  BY <1>0, <1>c, <1>1 DEF BeginFetch, Begin
<1>2. ASSUME NEW p \in Procs, CheckCompat(p) PROVE FlagInv'
  <2>1. disk = {} => NoInst
    BY DEF NoInst, Has
  <2>2. CASE disk = {} \/ Flag \in disk
    BY <1>0, <1>a, <1>b, <1>2, <2>1, <2>2 DEF CheckCompat, NoInst, Has
  <2>3. CASE disk # {} /\ Flag \notin disk
    BY <1>0, <1>a, <1>b, <1>2, <2>3 DEF CheckCompat
  <2>4. QED
    BY <2>2, <2>3
<1>3. ASSUME NEW p \in Procs, Wipe(p) PROVE FlagInv'
  <2>1. CASE disk' = {}
    BY <1>0, <1>b, <1>3, <2>1 DEF Wipe, Unlink, NoInst, Has
  <2>2. CASE pc' = pc
    BY <1>0, <1>a, <1>b, <1>3, <2>2 DEF Wipe, Unlink
  <2>3. QED
    BY <1>3, <2>1, <2>2 DEF Wipe, Unlink
<1>4. ASSUME NEW p \in Procs, RepoFails(p) PROVE FlagInv'
  <2>1. pc[p] \in Looks /\ served' = served /\ KeepsInsts /\ hurt \subseteq hurt'
    BY <1>4, ElsewhereSteps DEF RepoFails
  <2>2. pc'[p] \notin {"truncate", "config", "wipe"}
    BY <1>0, <2>1, <1>4 DEF RepoFails, NextRepo
  <2>3. QED
    BY <1>d, <2>1, <2>2
<1>5. ASSUME NEW p \in Procs, FindInstalled(p) PROVE FlagInv'
  <2>1. job[p].v \in Versions /\ Has(Inst(job[p].v), "dir")
    BY <1>5, PlaceFacts DEF FindInstalled, JobOfStep, FetchJobs, DirInv, Marks
  <2>2. Flag \in disk \/ FlagMark \in cut
    BY <1>a, <1>5, <2>1 DEF FindInstalled, NoInst, Unmarked
  <2>3. QED
    BY <1>0, <1>b, <1>5, <2>2 DEF FindInstalled
<1>6. ASSUME NEW p \in Procs, FindNew(p) PROVE FlagInv'
  <2>1. pc[p] \in Looks /\ served' = served /\ KeepsInsts /\ hurt \subseteq hurt'
    BY <1>6, ElsewhereSteps DEF FindNew
  <2>2. pc'[p] \notin {"truncate", "config", "wipe"}
    BY <1>0, <2>1, <1>6 DEF FindNew
  <2>3. QED
    BY <1>d, <2>1, <2>2
<1>7. ASSUME NEW p \in Procs, RemoveOld(p) PROVE FlagInv'
  <2>1. PICK v \in Versions : v = job[p].v
    BY <1>7 DEF RemoveOld, JobOfStep, OfVersion
  <2>2. SameBut(Inst(v))
    BY <1>7, <2>1, InstSteps
  <2>3. disk' \subseteq disk /\ (Flag \in disk' <=> Flag \in disk)
          /\ served' \subseteq served
    BY <1>7, <2>2 DEF RemoveOld, Unlink, SameBut, SameSettings
  <2>a. (FlagMark \in cut => FlagMark \in cut') /\ (Unmarked(p) => Unmarked(p)')
    BY <1>7, <2>1, MarkFacts DEF RemoveOld, Repaired, Unmarked
  <2>4. NoInst => NoInst'
    BY <2>3 DEF NoInst, Has
  <2>5. pc[p] = "unlink" /\ pc'[p] \in {"unlink", "clear"}
    BY <1>0, <1>7 DEF RemoveOld
  <2>6. QED
    BY <1>a, <1>b, <2>3, <2>a, <2>4, <2>5
<1>8. ASSUME NEW p \in Procs, ClearTmp(p) PROVE FlagInv'
  <2>1. pc[p] \in Looks /\ served' = served /\ KeepsInsts /\ hurt \subseteq hurt'
    BY <1>8, ElsewhereSteps DEF ClearTmp
  <2>2. pc'[p] \notin {"truncate", "config", "wipe"}
    BY <1>0, <2>1, <1>8 DEF ClearTmp, Unlink
  <2>3. QED
    BY <1>d, <2>1, <2>2
<1>9. ASSUME NEW p \in Procs, Extract(p) PROVE FlagInv'
  <2>1. pc[p] \in Looks /\ served' = served /\ KeepsInsts /\ hurt \subseteq hurt'
    BY <1>9, ElsewhereSteps DEF Extract
  <2>2. pc'[p] \notin {"truncate", "config", "wipe"}
    BY <1>0, <2>1, <1>9 DEF Extract, WriteEntry
  <2>3. QED
    BY <1>d, <2>1, <2>2
<1>10. ASSUME NEW p \in Procs, InstallFails(p) PROVE FlagInv'
  <2>1. pc[p] \in Looks /\ served' = served /\ KeepsInsts /\ hurt \subseteq hurt'
    BY <1>10, ElsewhereSteps DEF InstallFails
  <2>2. pc'[p] \notin {"truncate", "config", "wipe"}
    BY <1>0, <2>1, <1>10 DEF InstallFails
  <2>3. QED
    BY <1>d, <2>1, <2>2
<1>11. ASSUME NEW p \in Procs, WriteVersionJSON(p) PROVE FlagInv'
  <2>1. pc[p] \in Looks /\ served' = served /\ KeepsInsts /\ hurt \subseteq hurt'
    BY <1>11, ElsewhereSteps DEF WriteVersionJSON
  <2>2. pc'[p] \notin {"truncate", "config", "wipe"}
    BY <1>0, <2>1, <1>11 DEF WriteVersionJSON
  <2>3. QED
    BY <1>d, <2>1, <2>2
<1>12. ASSUME NEW p \in Procs, Rename(p) PROVE FlagInv'
  <2>1. PICK v \in Versions : v = job[p].v
    BY <1>12 DEF Rename, JobOfStep, OfVersion
  <2>2. CASE disk' = disk /\ cut' = cut /\ pc' = [pc EXCEPT ![p] = "abandon"]
    <3>1. KeepsInsts /\ pc[p] = "rename" /\ pc'[p] = "abandon"
      BY <1>0, <2>2, <1>12, ElsewhereSteps DEF Rename
    <3>2. QED
      BY <1>d, <3>1, <1>12 DEF Rename
  <2>3. CASE /\ Has(Tmp(v), "dir") /\ Entries(Inst(v)) = {}
             /\ disk' = (disk \ Entries(Tmp(v)))
                          \cup {In(Inst(v), e[3]) : e \in Entries(Tmp(v))}
             /\ pc' = [pc EXCEPT ![p] = "chmod"] /\ Repaired(v)
    <3>1. (Flag \in disk => Flag \in disk') /\ (FlagMark \in cut => FlagMark \in cut')
      BY <2>3, RenameStep, MarkFacts DEF SameSettings, Repaired
    <3>2. QED
      BY <1>0, <1>c, <1>12, <2>3, <3>1 DEF Rename
  <2>4. QED
    BY <1>12, <2>1, <2>2, <2>3 DEF Rename
<1>13. ASSUME NEW p \in Procs, Abandon(p) PROVE FlagInv'
  <2>1. pc[p] \in Looks /\ served' = served /\ KeepsInsts /\ hurt \subseteq hurt'
    BY <1>13, ElsewhereSteps DEF Abandon
  <2>2. pc'[p] \notin {"truncate", "config", "wipe"}
    BY <1>0, <2>1, <1>13 DEF Abandon, NextRepo
  <2>3. QED
    BY <1>d, <2>1, <2>2
<1>14. ASSUME NEW p \in Procs, ChmodExec(p) PROVE FlagInv'
  <2>1. PICK v \in Versions : v = job[p].v
    BY <1>14 DEF ChmodExec, JobOfStep, OfVersion, RemoveJobs, Installed
  <2>2. Flag \in disk => Flag \in disk'
    BY <1>14, <2>1, InstSteps DEF SameBut, SameSettings
  <2>3. QED
    BY <1>0, <1>c, <1>14, <2>2 DEF ChmodExec
<1>15. ASSUME NEW p \in Procs, TouchFlag(p) PROVE FlagInv'
  BY <1>0, <1>b, <1>15 DEF TouchFlag
<1>16. ASSUME NEW p \in Procs, TruncateConfig(p) PROVE FlagInv'
  <2>1. (Flag \in disk => Flag \in disk') /\ (Unmarked(p) => Unmarked(p)')
    BY <1>16, DistinctEntries, MarkFacts DEF TruncateConfig, Unmarked
  <2>2. QED
    BY <1>0, <1>a, <1>b, <1>16, <2>1 DEF TruncateConfig, Unmarked
<1>17. ASSUME NEW p \in Procs, WriteConfigJSON(p) PROVE FlagInv'
  <2>1. (Flag \in disk => Flag \in disk') /\ (Unmarked(p) => Unmarked(p)')
    BY <1>17, DistinctEntries, MarkFacts DEF WriteConfigJSON, Unmarked
  <2>2. QED
    BY <1>0, <1>a, <1>b, <1>17, <2>1 DEF WriteConfigJSON, Unmarked
<1>18. ASSUME NEW p \in Procs, NEW v \in Versions, BeginRemove(p, v) PROVE FlagInv'
  BY <1>0, <1>c, <1>18 DEF BeginRemove, Begin
<1>19. ASSUME NEW p \in Procs, Remove(p) PROVE FlagInv'
  <2>1. PICK v \in Versions : v = job[p].v
    BY <1>19 DEF Remove, JobOfStep, OfVersion, RemoveJobs, Installed
  <2>2. Flag \in disk => Flag \in disk'
    BY <1>19, <2>1, InstSteps DEF SameBut, SameSettings
  <2>3. QED
    BY <1>0, <1>c, <1>19, <2>1, <2>2, MarkFacts DEF Remove, Repaired
<1>20. ASSUME NEW p \in Procs, NEW todo \in SUBSET Addons, BeginAddons(p, todo)
      PROVE  FlagInv'
  BY <1>0, <1>c, <1>20 DEF BeginAddons, Begin
<1>21. ASSUME NEW p \in Procs, NEW a \in Addons, NextAddon(p, a) PROVE FlagInv'
  <2>1. Flag \in disk => Flag \in disk'
    BY <1>21, ElsewhereSteps DEF KeepsInsts, SameSettings
  <2>2. QED
    BY <1>0, <1>c, <1>21, <2>1 DEF NextAddon
<1>22. ASSUME NEW p \in Procs, Unpack(p) PROVE FlagInv'
  <2>1. Flag \in disk => Flag \in disk'
    BY <1>22, ElsewhereSteps DEF KeepsInsts, SameSettings
  <2>2. QED
    BY <1>0, <1>c, <1>22, <2>1 DEF Unpack
<1>23. ASSUME NEW p \in Procs, UnpackFails(p) PROVE FlagInv'
  BY <1>0, <1>c, <1>23 DEF UnpackFails
<1>24. ASSUME NEW p \in Procs, UndoAddon(p) PROVE FlagInv'
  <2>1. Flag \in disk => Flag \in disk'
    BY <1>24, ElsewhereSteps DEF KeepsInsts, SameSettings
  <2>2. QED
    BY <1>0, <1>c, <1>24, <2>1 DEF UndoAddon
<1>25. ASSUME NEW p \in Procs, ReturnAddons(p) PROVE FlagInv'
  BY <1>0, <1>c, <1>25 DEF ReturnAddons
<1>26. ASSUME NEW p \in Procs, BeginGeoIP(p) PROVE FlagInv'
  BY <1>0, <1>c, <1>26 DEF BeginGeoIP, Begin
<1>27. ASSUME NEW p \in Procs, NeedsUpdate(p) PROVE FlagInv'
  BY <1>0, <1>c, <1>27 DEF NeedsUpdate
<1>28. ASSUME NEW p \in Procs, DownloadOne(p) PROVE FlagInv'
  <2>1. Flag \in disk => Flag \in disk'
    BY <1>28, ElsewhereSteps DEF KeepsInsts, SameSettings
  <2>2. QED
    BY <1>0, <1>c, <1>28, <2>1 DEF DownloadOne
<1>29. ASSUME NEW p \in Procs, CopyFile(p) PROVE FlagInv'
  <2>1. Flag \in disk => Flag \in disk'
    BY <1>29, ElsewhereSteps DEF KeepsInsts, SameSettings
  <2>2. QED
    BY <1>0, <1>c, <1>29, <2>1, MarkFacts DEF CopyFile
<1>30. ASSUME NEW p \in Procs, DownloadFails(p) PROVE FlagInv'
  BY <1>0, <1>c, <1>30 DEF DownloadFails
<1>31. ASSUME NEW p \in Procs, OpenMMDB(p) PROVE FlagInv'
  BY <1>0, <1>c, <1>31 DEF OpenMMDB
<1>32. ASSUME NEW p \in Procs, Crash(p) PROVE FlagInv'
  BY <1>0, <1>c, <1>32 DEF Crash
<1>33. ASSUME NEW p \in Procs, WipeGivesUp(p) PROVE FlagInv'
  BY <1>0, <1>b, <1>33 DEF WipeGivesUp, Drops, Unmarked
<1>34. ASSUME NEW p \in Procs, FindUnreadable(p) PROVE FlagInv'
  <2>1. pc[p] \in Looks /\ served' = served /\ KeepsInsts /\ hurt \subseteq hurt'
    BY <1>34, ElsewhereSteps DEF FindUnreadable
  <2>2. pc'[p] \notin {"truncate", "config", "wipe"}
    BY <1>0, <2>1, <1>34 DEF FindUnreadable
  <2>3. QED
    BY <1>d, <2>1, <2>2
<1>35. ASSUME NEW p \in Procs, RemoveOldGivesUp(p) PROVE FlagInv'
  <2>1. pc[p] = "unlink" /\ pc'[p] = "clear" /\ disk' = disk
    BY <1>0, <1>35 DEF RemoveOldGivesUp, Drops
  <2>2. cut \subseteq cut' /\ hurt \subseteq hurt' /\ served' \subseteq served
    BY <1>35 DEF RemoveOldGivesUp, Drops
  <2>3. QED
    BY <1>a, <1>b, <2>1, <2>2 DEF NoInst, Has, Unmarked
<1>36. ASSUME NEW p \in Procs, ClearTmpGivesUp(p) PROVE FlagInv'
  <2>1. pc[p] \in Looks /\ served' = served /\ KeepsInsts /\ hurt \subseteq hurt'
    BY <1>36, ElsewhereSteps DEF ClearTmpGivesUp
  <2>2. pc'[p] \notin {"truncate", "config", "wipe"}
    BY <1>0, <2>1, <1>36 DEF ClearTmpGivesUp
  <2>3. QED
    BY <1>d, <2>1, <2>2
<1>37. ASSUME NEW p \in Procs, ChmodExecFails(p) PROVE FlagInv'
  BY <1>0, <1>c, <1>37 DEF ChmodExecFails, Drops
<1>38. ASSUME NEW p \in Procs, TouchFlagFails(p) PROVE FlagInv'
  BY <1>0, <1>b, <1>38 DEF TouchFlagFails, Drops, Unmarked
<1>39. ASSUME NEW p \in Procs, WriteConfigFails(p) PROVE FlagInv'
  <2>1. disk' = disk /\ cut \subseteq cut' /\ (Flag \in disk \/ FlagMark \in cut)
    BY <1>a, <1>39 DEF WriteConfigFails, Unmarked
  <2>2. pc'[p] = "returned"
    BY <1>0, <1>39 DEF WriteConfigFails
  <2>3. QED
    BY <1>b, <2>1, <2>2
<1>40. ASSUME NEW p \in Procs, RemoveFails(p) PROVE FlagInv'
  BY <1>0, <1>c, <1>40 DEF RemoveFails
<1>41. ASSUME NEW p \in Procs, NEW a \in Addons, NextAddonFails(p, a) PROVE FlagInv'
  BY <1>0, <1>c, <1>41 DEF NextAddonFails
<1>42. ASSUME NEW p \in Procs, UndoAddonGivesUp(p) PROVE FlagInv'
  BY <1>0, <1>c, <1>42 DEF UndoAddonGivesUp
<1>43. CASE UNCHANGED vars
  <2>1. UNCHANGED <<disk, pc, served, cut, hurt>>
    BY <1>43 DEF vars
  <2>2. QED
    BY <2>1 DEF FlagInv, Has, Unmarked
<1>44. QED
  BY <1>1, <1>2, <1>3, <1>4, <1>5, <1>6, <1>7, <1>8, <1>9, <1>10, <1>11, <1>12,
     <1>13, <1>14, <1>15, <1>16, <1>17, <1>18, <1>19, <1>20, <1>21, <1>22, <1>23,
     <1>24, <1>25, <1>26, <1>27, <1>28, <1>29, <1>30, <1>31, <1>32, <1>33, <1>34,
     <1>35, <1>36, <1>37, <1>38, <1>39, <1>40, <1>41, <1>42, <1>43
  DEF Next, FetchStep, RemoveStep, AddonsStep, GeoIPStep

LEMMA RoomStep ==
  ASSUME OneAtATime
  PROVE  TypeOK /\ JobOfStep /\ DirInv /\ MadeInv /\ InstInv /\ RoomInv /\ [Next]_vars
           => RoomInv'
<1> SUFFICES ASSUME TypeOK, JobOfStep, DirInv, MadeInv, InstInv, RoomInv, [Next]_vars
             PROVE  RoomInv'
  OBVIOUS
<1> USE DEF At, Goto, Return, Installing
<1>0. /\ \A p, q \in Procs : p = q
      /\ pc \in [Procs -> Steps] /\ job \in [Procs -> Jobs \cup {None}]
  BY DEF OneAtATime, TypeOK
<1>b. ASSUME NEW p \in Procs, pc'[p] \notin Installing \cup {"abandon"} PROVE RoomInv'
  BY <1>0, <1>b DEF RoomInv
<1>c. ASSUME NEW p \in Procs, NEW v \in Versions, job'[p].v = v,
             ~Has(Inst(v), "dir")' \/ Inst(v) \in cut' \/ p \in hurt',
             pc'[p] \in Installing
      PROVE  RoomInv'
  BY <1>0, <1>c DEF RoomInv
<1>d. ASSUME NEW p \in Procs, pc[p] \in Installing, KeepsInsts, pc'[p] \in Installing,
             job'[p].v = job[p].v, hurt \subseteq hurt'
      PROVE  RoomInv'
  <2>1. PICK v \in Versions : v = job[p].v
    BY <1>d DEF JobOfStep, OfVersion
  <2>2. ~Has(Inst(v), "dir")' \/ Inst(v) \in cut' \/ p \in hurt'
    BY <1>d, <2>1 DEF RoomInv, KeepsInsts, KeepsMarks, Same
  <2>3. QED
    BY <1>c, <1>d, <2>1, <2>2
<1>1. ASSUME NEW p \in Procs, NEW replace \in BOOLEAN, NEW pre \in BOOLEAN,
             BeginFetch(p, replace, pre)
      PROVE  RoomInv'
  BY <1>0, <1>b, <1>1 DEF BeginFetch, Begin
<1>2. ASSUME NEW p \in Procs, CheckCompat(p) PROVE RoomInv'
  BY <1>0, <1>b, <1>2 DEF CheckCompat
<1>3. ASSUME NEW p \in Procs, Wipe(p) PROVE RoomInv'
  BY <1>0, <1>b, <1>3 DEF Wipe, Unlink
<1>4. ASSUME NEW p \in Procs, RepoFails(p) PROVE RoomInv'
  BY <1>0, <1>b, <1>4 DEF RepoFails, NextRepo
<1>5. ASSUME NEW p \in Procs, FindInstalled(p) PROVE RoomInv'
  BY <1>0, <1>b, <1>5 DEF FindInstalled
<1>6. ASSUME NEW p \in Procs, FindNew(p) PROVE RoomInv'
  <2>1. PICK v \in Versions : v = job[p].v
    BY <1>6 DEF FindNew, JobOfStep, FetchJobs
  <2>2. job[p] \in FetchJobs /\ disk' = disk /\ cut' = cut
    BY <1>6 DEF FindNew, JobOfStep
  <2>3. job'[p].v = v
    BY <1>0, <1>6, <2>1, <2>2 DEF FindNew, FetchJobs
  <2>4. CASE job[p].replace /\ Has(Inst(v), "dir")
    BY <1>0, <1>b, <1>6, <2>1, <2>4 DEF FindNew
  <2>5. CASE ~Has(Inst(v), "dir")
    BY <1>0, <1>c, <1>6, <2>1, <2>3, <2>5 DEF FindNew, Has
  <2>6. CASE ~job[p].replace /\ Has(Inst(v), "dir")
    <3>1. ~Has(Inst(v), "ver")
      BY <1>6, <2>1, <2>6 DEF FindNew
    <3>2. Inst(v) \in cut
      BY <1>0, <1>6, <2>6, <3>1 DEF FindNew, InstInv, Removing
    <3>3. QED
      BY <1>0, <1>c, <1>6, <2>1, <2>2, <2>3, <2>6, <3>2 DEF FindNew
  <2>7. QED
    BY <2>4, <2>5, <2>6
<1>7. ASSUME NEW p \in Procs, RemoveOld(p) PROVE RoomInv'
  <2>1. PICK v \in Versions : v = job[p].v
    BY <1>7 DEF RemoveOld, JobOfStep, OfVersion
  <2>2. CASE pc' = pc
    BY <1>b, <1>7, <2>2 DEF RemoveOld
  <2>3. CASE pc' = [pc EXCEPT ![p] = "clear"] /\ Entries(Inst(v)) = {} /\ disk' = disk
    <3>1. ~Has(Inst(v), "dir")'
      BY <2>3, PlaceIsEmpty, PlaceFacts DEF Has, Marks
    <3>2. QED
      BY <1>0, <1>c, <1>7, <2>1, <2>3, <3>1 DEF RemoveOld
  <2>4. QED
    BY <1>7, <2>1, <2>2, <2>3 DEF RemoveOld
<1>8. ASSUME NEW p \in Procs, ClearTmp(p) PROVE RoomInv'
  <2>1. KeepsInsts /\ pc[p] \in Installing /\ job' = job /\ hurt' = hurt
    BY <1>8, ElsewhereSteps DEF ClearTmp
  <2>2. pc'[p] \in Installing
    BY <1>0, <1>8 DEF ClearTmp
  <2>3. QED
    BY <1>d, <2>1, <2>2
<1>9. ASSUME NEW p \in Procs, Extract(p) PROVE RoomInv'
  <2>1. KeepsInsts /\ pc[p] \in Installing /\ hurt' = hurt
    BY <1>9, ElsewhereSteps DEF Extract
  <2>2. pc'[p] \in Installing
    BY <1>0, <1>9 DEF Extract
  <2>3. job[p] \in FetchJobs
    BY <1>9 DEF Extract, JobOfStep, OfVersion
  <2>4. job'[p].v = job[p].v
    BY <1>0, <1>9, <2>3 DEF Extract, WriteEntry, FetchJobs
  <2>5. QED
    BY <1>d, <2>1, <2>2, <2>4
<1>10. ASSUME NEW p \in Procs, InstallFails(p) PROVE RoomInv'
  <2>1. pc'[p] = "abandon" /\ p \in hurt'
    BY <1>0, <1>10 DEF InstallFails
  <2>2. QED
    BY <1>0, <2>1 DEF RoomInv
<1>11. ASSUME NEW p \in Procs, WriteVersionJSON(p) PROVE RoomInv'
  <2>1. pc[p] = "version" /\ Has(Tmp(job[p].v), "dir")
    BY <1>11 DEF WriteVersionJSON, MadeInv
  <2>2. KeepsInsts /\ job' = job /\ hurt' = hurt
    BY <1>11, ElsewhereSteps DEF WriteVersionJSON
  <2>3. pc'[p] = "rename"
    BY <1>0, <1>11, <2>1 DEF WriteVersionJSON
  <2>4. QED
    BY <1>d, <2>1, <2>2, <2>3
<1>12. ASSUME NEW p \in Procs, Rename(p) PROVE RoomInv'
  <2>1. PICK v \in Versions : v = job[p].v
    BY <1>12 DEF Rename, JobOfStep, OfVersion
  <2>2. pc[p] = "rename" /\ Has(Tmp(v), "dir")
    BY <1>12, <2>1 DEF Rename, MadeInv
  <2>3. CASE Entries(Inst(v)) = {}
    BY <1>0, <1>b, <1>12, <2>1, <2>2, <2>3 DEF Rename
  <2>4. CASE ~(Entries(Inst(v)) = {})
    <3>1. PICK f \in Marks : Has(Inst(v), f)
      BY <2>4, PlaceIsEmpty, PlaceFacts
    <3>2. Has(Inst(v), "dir")
      BY <3>1, PlaceFacts DEF DirInv
    <3>3. Inst(v) \in cut \/ p \in hurt
      BY <2>1, <2>2, <3>2 DEF RoomInv
    <3>4. pc'[p] = "abandon" /\ UNCHANGED <<job, cut, hurt>>
      BY <1>0, <1>12, <2>1, <2>4 DEF Rename
    <3>5. QED
      BY <1>0, <2>1, <3>3, <3>4 DEF RoomInv
  <2>5. QED
    BY <2>3, <2>4
<1>13. ASSUME NEW p \in Procs, Abandon(p) PROVE RoomInv'
  <2>1. CASE UNCHANGED <<pc, job>>
    <3>1. UNCHANGED <<pc, job, cut, hurt>> /\ pc[p] = "abandon"
      BY <1>13, <2>1 DEF Abandon
    <3>2. QED
      BY <1>0, <3>1 DEF RoomInv
  <2>2. CASE NextRepo(p)
    BY <1>0, <1>b, <2>2 DEF NextRepo
  <2>3. QED
    BY <1>13, <2>1, <2>2 DEF Abandon
<1>14. ASSUME NEW p \in Procs, ChmodExec(p) PROVE RoomInv'
  BY <1>0, <1>b, <1>14 DEF ChmodExec
<1>15. ASSUME NEW p \in Procs, TouchFlag(p) PROVE RoomInv'
  BY <1>0, <1>b, <1>15 DEF TouchFlag
<1>16. ASSUME NEW p \in Procs, TruncateConfig(p) PROVE RoomInv'
  BY <1>0, <1>b, <1>16 DEF TruncateConfig
<1>17. ASSUME NEW p \in Procs, WriteConfigJSON(p) PROVE RoomInv'
  BY <1>0, <1>b, <1>17 DEF WriteConfigJSON
<1>18. ASSUME NEW p \in Procs, NEW v \in Versions, BeginRemove(p, v) PROVE RoomInv'
  BY <1>0, <1>b, <1>18 DEF BeginRemove, Begin
<1>19. ASSUME NEW p \in Procs, Remove(p) PROVE RoomInv'
  BY <1>0, <1>b, <1>19 DEF Remove, Repaired, Unlink
<1>20. ASSUME NEW p \in Procs, NEW todo \in SUBSET Addons, BeginAddons(p, todo)
      PROVE  RoomInv'
  BY <1>0, <1>b, <1>20 DEF BeginAddons, Begin
<1>21. ASSUME NEW p \in Procs, NEW a \in Addons, NextAddon(p, a) PROVE RoomInv'
  BY <1>0, <1>b, <1>21 DEF NextAddon
<1>22. ASSUME NEW p \in Procs, Unpack(p) PROVE RoomInv'
  BY <1>0, <1>b, <1>22 DEF Unpack, WriteEntry
<1>23. ASSUME NEW p \in Procs, UnpackFails(p) PROVE RoomInv'
  BY <1>0, <1>b, <1>23 DEF UnpackFails
<1>24. ASSUME NEW p \in Procs, UndoAddon(p) PROVE RoomInv'
  BY <1>0, <1>b, <1>24 DEF UndoAddon, Unlink
<1>25. ASSUME NEW p \in Procs, ReturnAddons(p) PROVE RoomInv'
  BY <1>0, <1>b, <1>25 DEF ReturnAddons
<1>26. ASSUME NEW p \in Procs, BeginGeoIP(p) PROVE RoomInv'
  BY <1>0, <1>b, <1>26 DEF BeginGeoIP, Begin
<1>27. ASSUME NEW p \in Procs, NeedsUpdate(p) PROVE RoomInv'
  BY <1>0, <1>b, <1>27 DEF NeedsUpdate
<1>28. ASSUME NEW p \in Procs, DownloadOne(p) PROVE RoomInv'
  BY <1>0, <1>b, <1>28 DEF DownloadOne, Put
<1>29. ASSUME NEW p \in Procs, CopyFile(p) PROVE RoomInv'
  BY <1>0, <1>b, <1>29 DEF CopyFile, Put
<1>30. ASSUME NEW p \in Procs, DownloadFails(p) PROVE RoomInv'
  BY <1>0, <1>b, <1>30 DEF DownloadFails
<1>31. ASSUME NEW p \in Procs, OpenMMDB(p) PROVE RoomInv'
  BY <1>0, <1>b, <1>31 DEF OpenMMDB
<1>32. ASSUME NEW p \in Procs, Crash(p) PROVE RoomInv'
  BY <1>0, <1>b, <1>32 DEF Crash
<1>33. ASSUME NEW p \in Procs, WipeGivesUp(p) PROVE RoomInv'
  BY <1>0, <1>b, <1>33 DEF WipeGivesUp, Drops
<1>34. ASSUME NEW p \in Procs, FindUnreadable(p) PROVE RoomInv'
  <2>1. PICK v \in Versions : v = job[p].v
    BY <1>34 DEF FindUnreadable, JobOfStep, FetchJobs
  <2>2. job[p] \in FetchJobs
    BY <1>34 DEF FindUnreadable, JobOfStep
  <2>3. job'[p].v = v /\ pc'[p] = "clear" /\ p \in hurt'
    BY <1>0, <1>34, <2>1, <2>2 DEF FindUnreadable, FetchJobs
  <2>4. QED
    BY <1>c, <2>3
<1>35. ASSUME NEW p \in Procs, RemoveOldGivesUp(p) PROVE RoomInv'
  <2>1. PICK v \in Versions : v = job[p].v
    BY <1>35 DEF RemoveOldGivesUp, Drops, JobOfStep, OfVersion
  <2>2. job' = job /\ pc'[p] = "clear" /\ p \in hurt'
    BY <1>0, <1>35 DEF RemoveOldGivesUp, Drops
  <2>3. QED
    BY <1>c, <2>1, <2>2
<1>36. ASSUME NEW p \in Procs, ClearTmpGivesUp(p) PROVE RoomInv'
  <2>1. PICK v \in Versions : v = job[p].v
    BY <1>36 DEF ClearTmpGivesUp, JobOfStep, OfVersion
  <2>2. job' = job /\ pc'[p] = "extract" /\ p \in hurt'
    BY <1>0, <1>36 DEF ClearTmpGivesUp
  <2>3. QED
    BY <1>c, <2>1, <2>2
<1>37. ASSUME NEW p \in Procs, ChmodExecFails(p) PROVE RoomInv'
  BY <1>0, <1>b, <1>37 DEF ChmodExecFails, Drops
<1>38. ASSUME NEW p \in Procs, TouchFlagFails(p) PROVE RoomInv'
  BY <1>0, <1>b, <1>38 DEF TouchFlagFails, Drops
<1>39. ASSUME NEW p \in Procs, WriteConfigFails(p) PROVE RoomInv'
  BY <1>0, <1>b, <1>39 DEF WriteConfigFails
<1>40. ASSUME NEW p \in Procs, RemoveFails(p) PROVE RoomInv'
  BY <1>0, <1>b, <1>40 DEF RemoveFails
<1>41. ASSUME NEW p \in Procs, NEW a \in Addons, NextAddonFails(p, a) PROVE RoomInv'
  BY <1>0, <1>b, <1>41 DEF NextAddonFails
<1>42. ASSUME NEW p \in Procs, UndoAddonGivesUp(p) PROVE RoomInv'
  BY <1>0, <1>b, <1>42 DEF UndoAddonGivesUp
<1>43. CASE UNCHANGED vars
  <2>1. UNCHANGED <<disk, pc, job, cut, hurt>>
    BY <1>43 DEF vars
  <2>2. QED
    BY <2>1 DEF RoomInv, Has
<1>44. QED
  BY <1>1, <1>2, <1>3, <1>4, <1>5, <1>6, <1>7, <1>8, <1>9, <1>10, <1>11, <1>12,
     <1>13, <1>14, <1>15, <1>16, <1>17, <1>18, <1>19, <1>20, <1>21, <1>22, <1>23,
     <1>24, <1>25, <1>26, <1>27, <1>28, <1>29, <1>30, <1>31, <1>32, <1>33, <1>34,
     <1>35, <1>36, <1>37, <1>38, <1>39, <1>40, <1>41, <1>42, <1>43
  DEF Next, FetchStep, RemoveStep, AddonsStep, GeoIPStep

(* A returned install when config.json is not being written. *)
Ready(v) ==
  /\ Has(Inst(v), "ver") /\ (Whole(Inst(v)) \/ Inst(v) \in cut)
  /\ \/ Inst(v) \in cut
     \/ /\ Has(Inst(v), "mode") \/ Mode(v) \in cut
        /\ \/ ExecPath(v) \/ Active(v) \in cut
           \/ \E w \in Versions \ {v} : Config(w) \in disk

(* What a Fetch returns is ready once it is an install left settled. *)
LEMMA SettledReady ==
  ASSUME TypeOK, DirInv, AllSettled, NEW v \in Versions, Has(Inst(v), "ver")
  PROVE  Ready(v)
<1>1. Has(Inst(v), "dir")
  BY PlaceFacts DEF DirInv, Marks
<1>2. CASE Inst(v) \in cut
  BY <1>2 DEF Ready
<1>3. CASE Inst(v) \notin cut
  <2>1. /\ Whole(Inst(v)) /\ Has(Inst(v), "exe")
        /\ Has(Inst(v), "mode") \/ Mode(v) \in cut
        /\ (\E w \in Versions : Config(w) \in disk) \/ Active(v) \in cut
    BY <1>1, <1>3 DEF AllSettled, Settled, Whole, Files
  <2>2. Config(v) \in disk => ExecPath(v)
    BY <2>1 DEF ExecPath, InstalledVersion
  <2>3. QED
    BY <1>3, <2>1, <2>2 DEF Ready
<1>4. QED
  BY <1>2, <1>3

(* An install nobody touches stays as ready as it was. *)
LEMMA KeptReady ==
  ASSUME NEW v \in Versions, Same(Inst(v)), SameSettings, Ready(v),
         \A mark \in {Inst(v), Mode(v), Active(v)} : mark \in cut => mark \in cut'
  PROVE  Ready(v)'
<1>1. \A w \in Versions : Config(w) \in disk' <=> Config(w) \in disk
  BY DEF SameSettings, Configs
<1>2. Whole(Inst(v))' <=> Whole(Inst(v))
  BY DEF Same, Whole
<1>3. ExecPath(v)' <=> ExecPath(v)
  BY <1>1 DEF ExecPath, InstalledVersion, Same
<1>4. QED
  BY <1>1, <1>2, <1>3 DEF Ready, Same

LEMMA ReadyStep ==
  ASSUME OneAtATime
  PROVE  TypeOK /\ JobOfStep /\ DirInv /\ MadeInv /\ InstInv /\ FlagInv /\ ReadyInv
           /\ [Next]_vars => ReadyInv'
<1> SUFFICES ASSUME TypeOK, JobOfStep, DirInv, MadeInv, InstInv, FlagInv, ReadyInv,
                    [Next]_vars
             PROVE  ReadyInv'
  OBVIOUS
<1> USE DEF Goto, Return
<1>0. /\ \A p, q \in Procs : p = q
      /\ pc \in [Procs -> Steps] /\ served \subseteq Versions
  BY DEF OneAtATime, TypeOK
<1>a. ASSUME NEW p \in Procs, pc[p] # "config" PROVE \A v \in served : Ready(v)
  BY <1>0, <1>a DEF ReadyInv, FetchedIsReady, FetchedIsWhole, Ready
<1>b. ASSUME NEW p \in Procs, pc'[p] # "wipe" \/ served' = {} \/ FlagMark \in cut',
             \A v \in served' : Ready(v)'
      PROVE  ReadyInv'
  BY <1>0, <1>b DEF ReadyInv, FetchedIsReady, FetchedIsWhole, Ready
<1>c. ASSUME NEW p \in Procs, pc[p] # "config", KeepsInsts, served' \subseteq served,
             pc'[p] # "wipe" \/ served = {} \/ FlagMark \in cut
      PROVE  ReadyInv'
  <2>1. pc'[p] # "wipe" \/ served' = {} \/ FlagMark \in cut'
    BY <1>c DEF KeepsInsts, KeepsMarks
  <2>2. ASSUME NEW v \in served' PROVE Ready(v)'
    BY <1>0, <1>a, <1>c, <2>2, KeptReady DEF KeepsInsts, KeepsMarks
  <2>3. QED
    BY <1>b, <2>1, <2>2
<1>d. ASSUME NEW p \in Procs, pc[p] # "config", disk' = disk, cut \subseteq cut',
             served' \subseteq served, pc'[p] # "wipe" \/ served = {} \/ FlagMark \in cut
      PROVE  ReadyInv'
  BY <1>c, <1>d DEF KeepsInsts, KeepsMarks, SameSettings, Same, Has
<1>1. ASSUME NEW p \in Procs, NEW replace \in BOOLEAN, NEW pre \in BOOLEAN,
             BeginFetch(p, replace, pre)
      PROVE  ReadyInv'
  BY <1>0, <1>d, <1>1 DEF BeginFetch, Begin, Busy
<1>2. ASSUME NEW p \in Procs, CheckCompat(p) PROVE ReadyInv'
  <2>1. CASE disk # {} /\ Flag \notin disk
    <3>1. served = {} \/ FlagMark \in cut
      BY <2>1 DEF FlagInv
    <3>2. QED
      BY <1>d, <1>2, <3>1 DEF CheckCompat
  <2>2. CASE ~(disk # {} /\ Flag \notin disk)
    BY <1>0, <1>d, <1>2, <2>2 DEF CheckCompat
  <2>3. QED
    BY <2>1, <2>2
<1>3. ASSUME NEW p \in Procs, Wipe(p) PROVE ReadyInv'
  BY <1>b, <1>3 DEF Wipe
<1>4. ASSUME NEW p \in Procs, RepoFails(p) PROVE ReadyInv'
  BY <1>0, <1>d, <1>4 DEF RepoFails, NextRepo
<1>5. ASSUME NEW p \in Procs, FindInstalled(p) PROVE ReadyInv'
  <2>1. PICK v \in Versions : v = job[p].v
    BY <1>5 DEF FindInstalled, JobOfStep, FetchJobs
  <2>2. AllSettled /\ pc[p] = "scan" /\ Has(Inst(v), "ver")
    BY <1>0, <1>5, <2>1
    DEF FindInstalled, InstInv, AllSettled, Settled, Removing, ModeSet, ActiveSet, At,
        Installed
  <2>3. \A w \in served \cup {v} : Ready(w)
    BY <1>a, <2>2, SettledReady
  <2>4. disk' = disk /\ cut' = cut /\ served' = served \cup {v} /\ pc'[p] = "returned"
    BY <1>0, <1>5, <2>1 DEF FindInstalled
  <2>5. \A w \in served' : Ready(w)'
    BY <2>3, <2>4 DEF Ready, Whole, ExecPath, InstalledVersion, Has
  <2>6. QED
    BY <1>b, <2>4, <2>5
<1>6. ASSUME NEW p \in Procs, FindNew(p) PROVE ReadyInv'
  BY <1>0, <1>d, <1>6 DEF FindNew
<1>7. ASSUME NEW p \in Procs, RemoveOld(p) PROVE ReadyInv'
  <2>1. PICK v \in Versions : v = job[p].v
    BY <1>7 DEF RemoveOld, JobOfStep, OfVersion, RemoveJobs
  <2>2. SameBut(Inst(v)) /\ served' = served \ {v}
    BY <2>1, <1>7, InstSteps DEF RemoveOld
  <2>3. pc[p] # "config" /\ pc'[p] # "wipe"
    BY <1>0, <1>7 DEF RemoveOld
  <2>4. ASSUME NEW w \in served' PROVE Ready(w)'
    <3>1. w \in Versions \ {v} /\ w \in served
      BY <1>0, <2>2
    <3>2. \A mark \in {Inst(w), Mode(w), Active(w)} : mark \in cut => mark \in cut'
      BY <1>7, <2>1, <3>1, MarkFacts DEF RemoveOld, Repaired
    <3>3. Same(Inst(w)) /\ SameSettings
      BY <2>2, <3>1, PlaceFacts DEF SameBut
    <3>4. QED
      BY <1>a, <2>3, <3>1, <3>2, <3>3, KeptReady
  <2>5. QED
    BY <1>b, <2>3, <2>4
<1>8. ASSUME NEW p \in Procs, ClearTmp(p) PROVE ReadyInv'
  <2>1. KeepsInsts /\ served' \subseteq served
    BY <1>8, ElsewhereSteps DEF ClearTmp
  <2>2. pc[p] # "config" /\ pc'[p] # "wipe"
    BY <1>0, <1>8 DEF ClearTmp
  <2>3. QED
    BY <1>c, <2>1, <2>2
<1>9. ASSUME NEW p \in Procs, Extract(p) PROVE ReadyInv'
  <2>1. KeepsInsts /\ served' \subseteq served
    BY <1>9, ElsewhereSteps DEF Extract
  <2>2. pc[p] # "config" /\ pc'[p] # "wipe"
    BY <1>0, <1>9 DEF Extract
  <2>3. QED
    BY <1>c, <2>1, <2>2
<1>10. ASSUME NEW p \in Procs, InstallFails(p) PROVE ReadyInv'
  BY <1>0, <1>d, <1>10 DEF InstallFails
<1>11. ASSUME NEW p \in Procs, WriteVersionJSON(p) PROVE ReadyInv'
  <2>1. KeepsInsts /\ served' \subseteq served
    BY <1>11, ElsewhereSteps DEF WriteVersionJSON
  <2>2. pc[p] # "config" /\ pc'[p] # "wipe"
    BY <1>0, <1>11 DEF WriteVersionJSON
  <2>3. QED
    BY <1>c, <2>1, <2>2
<1>12. ASSUME NEW p \in Procs, Rename(p) PROVE ReadyInv'
  <2>1. PICK v \in Versions : v = job[p].v
    BY <1>12 DEF Rename, JobOfStep, OfVersion, Installing
  <2>2. pc[p] # "config" /\ pc'[p] # "wipe" /\ served' = served
    BY <1>0, <1>12 DEF Rename
  <2>3. CASE disk' = disk /\ cut' = cut
    BY <1>d, <2>2, <2>3
  <2>4. CASE /\ Has(Tmp(v), "dir") /\ Entries(Inst(v)) = {}
             /\ disk' = (disk \ Entries(Tmp(v)))
                          \cup {In(Inst(v), e[3]) : e \in Entries(Tmp(v))}
             /\ Repaired(v)
    <3>1. /\ SameSettings
          /\ \A other \in (Dirs \cup {MMDB}) \ {Tmp(v), Inst(v)} : Same(other)
      BY <2>4, RenameStep
    <3>2. ~Has(Inst(v), "ver")
      BY <2>4, DistinctEntries, PlaceFacts DEF Entries, Has, In
    <3>3. ASSUME NEW w \in served PROVE Ready(w)'
      <4>1. Ready(w) /\ w \in Versions \ {v}
        BY <1>0, <1>a, <2>2, <3>2 DEF Ready
      <4>2. \A mark \in {Inst(w), Mode(w), Active(w)} : mark \in cut => mark \in cut'
        BY <2>4, <4>1, MarkFacts DEF Repaired
      <4>3. Same(Inst(w))
        BY <3>1, <4>1, PlaceFacts
      <4>4. QED
        BY <3>1, <4>1, <4>2, <4>3, KeptReady
    <3>4. QED
      BY <1>b, <2>2, <3>3
  <2>5. QED
    BY <1>12, <2>1, <2>3, <2>4 DEF Rename
<1>13. ASSUME NEW p \in Procs, Abandon(p) PROVE ReadyInv'
  <2>1. KeepsInsts /\ served' \subseteq served
    BY <1>13, ElsewhereSteps DEF Abandon
  <2>2. pc[p] # "config" /\ pc'[p] # "wipe"
    BY <1>0, <1>13 DEF Abandon, NextRepo
  <2>3. QED
    BY <1>c, <2>1, <2>2
<1>14. ASSUME NEW p \in Procs, ChmodExec(p) PROVE ReadyInv'
  <2>1. PICK v \in Versions : v = job[p].v
    BY <1>14 DEF ChmodExec, JobOfStep, OfVersion, Installed
  <2>2. SameBut(Inst(v)) /\ cut' = cut /\ served' = served
    BY <2>1, <1>14, InstSteps DEF ChmodExec
  <2>3. pc[p] # "config" /\ pc'[p] # "wipe"
    BY <1>0, <1>14 DEF ChmodExec
  <2>4. disk \subseteq disk' /\ \A w \in Versions : Config(w) \in disk'
          <=> Config(w) \in disk
    BY <1>14, <2>2 DEF ChmodExec, SameBut, SameSettings, Configs
  <2>5. ASSUME NEW w \in served PROVE Ready(w)'
    <3>1. Ready(w)
      BY <1>a, <2>3
    <3>2. Whole(Inst(w)) => Whole(Inst(w))'
      BY <2>4 DEF Whole, Has
    <3>3. ExecPath(w) => ExecPath(w)'
      BY <2>4 DEF ExecPath, InstalledVersion, Has
    <3>4. QED
      BY <2>2, <2>4, <3>1, <3>2, <3>3 DEF Ready, Has
  <2>6. QED
    BY <1>b, <2>2, <2>3, <2>5
<1>15. ASSUME NEW p \in Procs, TouchFlag(p) PROVE ReadyInv'
  <2>1. SamePlaces /\ served' = served
    BY <1>15, SettingsSteps DEF TouchFlag
  <2>a. \A w \in Versions : \A mark \in {Inst(w), Mode(w), Active(w)} :
          mark \in cut => mark \in cut'
    BY <1>15, MarkFacts DEF TouchFlag
  <2>2. pc[p] # "config" /\ pc'[p] # "wipe"
    BY <1>0, <1>15 DEF TouchFlag
  <2>3. \A w \in Versions : Config(w) \in disk => Config(w) \in disk'
    BY <1>15 DEF TouchFlag
  <2>4. ASSUME NEW w \in served PROVE Ready(w)'
    <3>1. Ready(w) /\ Same(Inst(w))
      BY <1>0, <1>a, <2>1, <2>2, PlaceFacts DEF SamePlaces
    <3>2. Whole(Inst(w)) => Whole(Inst(w))'
      BY <3>1 DEF Whole, Same
    <3>3. ExecPath(w) => ExecPath(w)'
      BY <1>0, <2>3, <3>1 DEF ExecPath, InstalledVersion, Same
    <3>4. w \in Versions
      BY <1>0
    <3>5. QED
      BY <2>a, <2>3, <3>1, <3>2, <3>3, <3>4 DEF Ready, Same
  <2>5. QED
    BY <1>b, <2>1, <2>2, <2>4
<1>16. ASSUME NEW p \in Procs, TruncateConfig(p) PROVE ReadyInv'
  <2>1. SamePlaces /\ cut' = cut /\ served' = served
    BY <1>16, SettingsSteps DEF TruncateConfig
  <2>2. pc[p] # "config" /\ pc'[p] = "config"
    BY <1>0, <1>16 DEF TruncateConfig
  <2>3. ASSUME NEW w \in served
        PROVE  /\ Has(Inst(w), "ver")' /\ (Whole(Inst(w))' \/ Inst(w) \in cut')
               /\ Has(Inst(w), "mode")' \/ Mode(w) \in cut' \/ Inst(w) \in cut'
    <3>1. Ready(w) /\ Same(Inst(w))
      BY <1>0, <1>a, <2>1, <2>2, PlaceFacts DEF SamePlaces
    <3>2. Whole(Inst(w)) => Whole(Inst(w))'
      BY <3>1 DEF Whole, Same
    <3>3. QED
      BY <2>1, <3>1, <3>2 DEF Ready, Same
  <2>4. QED
    BY <1>0, <2>1, <2>2, <2>3 DEF ReadyInv, FetchedIsReady, FetchedIsWhole
<1>17. ASSUME NEW p \in Procs, WriteConfigJSON(p) PROVE ReadyInv'
  <2>1. PICK v \in Versions : v = job[p].v
    BY <1>17 DEF WriteConfigJSON, JobOfStep, OfVersion, Installed
  <2>2. SamePlaces /\ Config(v) \in disk' /\ served' = served \cup {v}
          /\ pc[p] = "config"
    BY <1>17, <2>1, SettingsSteps DEF WriteConfigJSON
  <2>3. pc'[p] = "returned"
    BY <1>0, <1>17 DEF WriteConfigJSON
  <2>4. ASSUME NEW w \in served' PROVE Ready(w)'
    <3>1. w \in Versions /\ Same(Inst(w))
      BY <1>0, <2>2, PlaceFacts DEF SamePlaces
    <3>2. \A mark \in {Inst(w), Mode(w)} : mark \in cut' <=> mark \in cut
      BY <1>17, <3>1, MarkFacts DEF WriteConfigJSON
    <3>3. Whole(Inst(w))' <=> Whole(Inst(w))
      BY <3>1 DEF Whole, Same
    <3>4. /\ Has(Inst(w), "ver") /\ (Whole(Inst(w)) \/ Inst(w) \in cut)
          /\ Has(Inst(w), "mode") \/ Mode(w) \in cut \/ Inst(w) \in cut
      <4>1. CASE w = v
        BY <2>1, <2>2, <4>1 DEF MadeInv, At, Installed
      <4>2. CASE w # v
        BY <2>2, <4>2 DEF ReadyInv, FetchedIsReady, FetchedIsWhole
      <4>3. QED
        BY <4>1, <4>2
    <3>5. CASE w = v
      <4>1. Inst(w) \in cut' \/ Has(Inst(w), "exe")'
        BY <3>2, <3>3, <3>4 DEF Whole, Files
      <4>2. QED
        BY <2>2, <3>1, <3>2, <3>3, <3>4, <3>5, <4>1
        DEF Ready, Same, ExecPath, InstalledVersion
    <3>6. CASE w # v
      BY <2>2, <3>1, <3>2, <3>3, <3>4, <3>6 DEF Ready, Same
    <3>7. QED
      BY <3>5, <3>6
  <2>5. QED
    BY <1>b, <2>3, <2>4
<1>18. ASSUME NEW p \in Procs, NEW v \in Versions, BeginRemove(p, v) PROVE ReadyInv'
  BY <1>0, <1>d, <1>18 DEF BeginRemove, Begin, Busy
<1>19. ASSUME NEW p \in Procs, Remove(p) PROVE ReadyInv'
  <2>1. PICK v \in Versions : v = job[p].v
    BY <1>19 DEF Remove, JobOfStep, OfVersion, RemoveJobs
  <2>2. SameBut(Inst(v)) /\ served' = served \ {v}
    BY <2>1, <1>19, InstSteps DEF Remove
  <2>3. pc[p] # "config" /\ pc'[p] # "wipe"
    BY <1>0, <1>19 DEF Remove
  <2>4. ASSUME NEW w \in served' PROVE Ready(w)'
    <3>1. w \in Versions \ {v} /\ w \in served
      BY <1>0, <2>2
    <3>2. \A mark \in {Inst(w), Mode(w), Active(w)} : mark \in cut => mark \in cut'
      BY <1>19, <2>1, <3>1, MarkFacts DEF Remove, Repaired
    <3>3. Same(Inst(w)) /\ SameSettings
      BY <2>2, <3>1, PlaceFacts DEF SameBut
    <3>4. QED
      BY <1>a, <2>3, <3>1, <3>2, <3>3, KeptReady
  <2>5. QED
    BY <1>b, <2>3, <2>4
<1>20. ASSUME NEW p \in Procs, NEW todo \in SUBSET Addons, BeginAddons(p, todo)
      PROVE  ReadyInv'
  BY <1>0, <1>d, <1>20 DEF BeginAddons, Begin, Busy
<1>21. ASSUME NEW p \in Procs, NEW a \in Addons, NextAddon(p, a) PROVE ReadyInv'
  <2>1. KeepsInsts /\ served' \subseteq served
    BY <1>21, ElsewhereSteps DEF NextAddon
  <2>2. pc[p] # "config" /\ pc'[p] # "wipe"
    BY <1>0, <1>21 DEF NextAddon
  <2>3. QED
    BY <1>c, <2>1, <2>2
<1>22. ASSUME NEW p \in Procs, Unpack(p) PROVE ReadyInv'
  <2>1. KeepsInsts /\ served' \subseteq served
    BY <1>22, ElsewhereSteps DEF Unpack
  <2>2. pc[p] # "config" /\ pc'[p] # "wipe"
    BY <1>0, <1>22 DEF Unpack
  <2>3. QED
    BY <1>c, <2>1, <2>2
<1>23. ASSUME NEW p \in Procs, UnpackFails(p) PROVE ReadyInv'
  BY <1>0, <1>d, <1>23 DEF UnpackFails
<1>24. ASSUME NEW p \in Procs, UndoAddon(p) PROVE ReadyInv'
  <2>1. KeepsInsts /\ served' \subseteq served
    BY <1>24, ElsewhereSteps DEF UndoAddon
  <2>2. pc[p] # "config" /\ pc'[p] # "wipe"
    BY <1>0, <1>24 DEF UndoAddon
  <2>3. QED
    BY <1>c, <2>1, <2>2
<1>25. ASSUME NEW p \in Procs, ReturnAddons(p) PROVE ReadyInv'
  BY <1>0, <1>d, <1>25 DEF ReturnAddons
<1>26. ASSUME NEW p \in Procs, BeginGeoIP(p) PROVE ReadyInv'
  BY <1>0, <1>d, <1>26 DEF BeginGeoIP, Begin, Busy
<1>27. ASSUME NEW p \in Procs, NeedsUpdate(p) PROVE ReadyInv'
  BY <1>0, <1>d, <1>27 DEF NeedsUpdate
<1>28. ASSUME NEW p \in Procs, DownloadOne(p) PROVE ReadyInv'
  <2>1. KeepsInsts /\ served' \subseteq served
    BY <1>28, ElsewhereSteps DEF DownloadOne
  <2>2. pc[p] # "config" /\ pc'[p] # "wipe"
    BY <1>0, <1>28 DEF DownloadOne
  <2>3. QED
    BY <1>c, <2>1, <2>2
<1>29. ASSUME NEW p \in Procs, CopyFile(p) PROVE ReadyInv'
  <2>1. KeepsInsts /\ served' \subseteq served
    BY <1>29, ElsewhereSteps DEF CopyFile
  <2>2. pc[p] # "config" /\ pc'[p] # "wipe"
    BY <1>0, <1>29 DEF CopyFile
  <2>3. QED
    BY <1>c, <2>1, <2>2
<1>30. ASSUME NEW p \in Procs, DownloadFails(p) PROVE ReadyInv'
  <2>1. KeepsInsts /\ served' \subseteq served
    BY <1>30, ElsewhereSteps DEF DownloadFails
  <2>2. pc[p] # "config" /\ pc'[p] # "wipe"
    BY <1>0, <1>30 DEF DownloadFails
  <2>3. QED
    BY <1>c, <2>1, <2>2
<1>31. ASSUME NEW p \in Procs, OpenMMDB(p) PROVE ReadyInv'
  BY <1>0, <1>d, <1>31 DEF OpenMMDB
<1>32. ASSUME NEW p \in Procs, Crash(p) PROVE ReadyInv'
  <2>1. pc'[p] = "idle" /\ disk' = disk /\ served' = served /\ cut \subseteq cut'
    BY <1>0, <1>32 DEF Crash
  <2>2. CASE pc[p] = "config"
    <3>1. \A v \in Versions : Active(v) \in cut'
      BY <2>2, <1>32 DEF Crash
    <3>2. \A v \in Versions : Whole(Inst(v))' <=> Whole(Inst(v))
      BY <2>1 DEF Whole, Has
    <3>3. \A v \in served : Ready(v)'
      BY <1>0, <2>1, <3>1, <3>2 DEF ReadyInv, FetchedIsReady, FetchedIsWhole, Ready, Has
    <3>4. QED
      BY <1>b, <2>1, <3>3
  <2>3. CASE pc[p] # "config"
    <3>1. KeepsInsts
      BY <2>1 DEF KeepsInsts, KeepsMarks, SameSettings, Same, Has
    <3>2. QED
      BY <1>c, <2>1, <2>3, <3>1
  <2>4. QED
    BY <2>2, <2>3
<1>33. ASSUME NEW p \in Procs, WipeGivesUp(p) PROVE ReadyInv'
  BY <1>0, <1>d, <1>33 DEF WipeGivesUp, Drops
<1>34. ASSUME NEW p \in Procs, FindUnreadable(p) PROVE ReadyInv'
  BY <1>0, <1>d, <1>34 DEF FindUnreadable
<1>35. ASSUME NEW p \in Procs, RemoveOldGivesUp(p) PROVE ReadyInv'
  BY <1>0, <1>d, <1>35 DEF RemoveOldGivesUp, Drops
<1>36. ASSUME NEW p \in Procs, ClearTmpGivesUp(p) PROVE ReadyInv'
  <2>1. KeepsInsts /\ served' \subseteq served
    BY <1>36, ElsewhereSteps DEF ClearTmpGivesUp
  <2>2. pc[p] # "config" /\ pc'[p] # "wipe"
    BY <1>0, <1>36 DEF ClearTmpGivesUp
  <2>3. QED
    BY <1>c, <2>1, <2>2
<1>37. ASSUME NEW p \in Procs, ChmodExecFails(p) PROVE ReadyInv'
  BY <1>0, <1>d, <1>37 DEF ChmodExecFails, Drops
<1>38. ASSUME NEW p \in Procs, TouchFlagFails(p) PROVE ReadyInv'
  BY <1>0, <1>d, <1>38 DEF TouchFlagFails, Drops
<1>39. ASSUME NEW p \in Procs, WriteConfigFails(p) PROVE ReadyInv'
  <2>1. PICK v \in Versions : v = job[p].v
    BY <1>39 DEF WriteConfigFails, JobOfStep, OfVersion, Installed
  <2>2. /\ pc[p] \in {"truncate", "config"} /\ pc'[p] = "returned"
        /\ disk' = disk /\ cut \subseteq cut' /\ served' = served \cup {v}
    BY <1>0, <1>39, <2>1 DEF WriteConfigFails
  <2>3. Active(v) \in cut' /\ (pc[p] = "config" => \A w \in Versions : Active(w) \in cut')
    BY <1>39, <2>1 DEF WriteConfigFails
  <2>4. \A w : Whole(Inst(w))' <=> Whole(Inst(w))
    BY <2>2 DEF Whole, Has
  <2>5. Ready(v)'
    <3>1. Whole(Inst(v)) /\ Has(Inst(v), "ver") /\ (Has(Inst(v), "mode") \/ Mode(v) \in cut)
      BY <2>1, <2>2 DEF MadeInv, At, Installed
    <3>2. QED
      BY <2>2, <2>3, <2>4, <3>1 DEF Ready, Has
  <2>6. ASSUME NEW w \in served PROVE Ready(w)'
    <3>1. CASE pc[p] = "config"
      BY <1>0, <2>2, <2>3, <2>4, <2>6, <3>1
      DEF ReadyInv, FetchedIsReady, FetchedIsWhole, Ready, Has
    <3>2. CASE pc[p] # "config"
      <4>1. Ready(w)
        BY <1>a, <3>2
      <4>2. Same(Inst(w)) /\ SameSettings
        BY <2>2 DEF Same, SameSettings, Has
      <4>3. QED
        BY <1>0, <2>2, <4>1, <4>2, KeptReady
    <3>3. QED
      BY <3>1, <3>2
  <2>7. QED
    BY <1>b, <2>2, <2>5, <2>6
<1>40. ASSUME NEW p \in Procs, RemoveFails(p) PROVE ReadyInv'
  <2>1. pc[p] = "remove" /\ pc'[p] = "returned"
    BY <1>0, <1>40 DEF RemoveFails
  <2>2. QED
    BY <1>d, <1>40, <2>1 DEF RemoveFails
<1>41. ASSUME NEW p \in Procs, NEW a \in Addons, NextAddonFails(p, a) PROVE ReadyInv'
  BY <1>0, <1>d, <1>41 DEF NextAddonFails
<1>42. ASSUME NEW p \in Procs, UndoAddonGivesUp(p) PROVE ReadyInv'
  BY <1>0, <1>d, <1>42 DEF UndoAddonGivesUp
<1>43. CASE UNCHANGED vars
  <2>1. UNCHANGED <<disk, pc, cut, served>>
    BY <1>43 DEF vars
  <2>2. QED
    BY <2>1
    DEF ReadyInv, FetchedIsReady, FetchedIsWhole, Whole, ExecPath, InstalledVersion, Has
<1>44. QED
  BY <1>1, <1>2, <1>3, <1>4, <1>5, <1>6, <1>7, <1>8, <1>9, <1>10, <1>11, <1>12,
     <1>13, <1>14, <1>15, <1>16, <1>17, <1>18, <1>19, <1>20, <1>21, <1>22, <1>23,
     <1>24, <1>25, <1>26, <1>27, <1>28, <1>29, <1>30, <1>31, <1>32, <1>33, <1>34,
     <1>35, <1>36, <1>37, <1>38, <1>39, <1>40, <1>41, <1>42, <1>43
  DEF Next, FetchStep, RemoveStep, AddonsStep, GeoIPStep

LEMMA ReuseStep ==
  ASSUME OneAtATime
  PROVE  TypeOK /\ JobOfStep /\ DirInv /\ ReuseInv /\ [Next]_vars => ReuseInv'
<1> SUFFICES ASSUME TypeOK, JobOfStep, DirInv, ReuseInv, [Next]_vars PROVE ReuseInv'
  OBVIOUS
<1> USE DEF At, Goto, Return
<1>0. /\ \A p, q \in Procs : p = q
      /\ pc \in [Procs -> Steps] /\ job \in [Procs -> Jobs \cup {None}]
  BY DEF OneAtATime, TypeOK
<1> DEFINE Reusable == \A a \in Addons :
             Has(Addon(a), "dir") => Whole(Addon(a)) \/ Addon(a) \in cut
<1> DEFINE MMDBWhole == Has(MMDB, "torn") => MMDB \in cut
<1>a. ASSUME NEW p \in Procs
      PROVE  /\ pc[p] \notin {"unpack", "undo", "wipe"} => Reusable
             /\ pc[p] # "copy" => MMDBWhole
  BY <1>0 DEF ReuseInv, ReusedIsWhole
<1>b. ASSUME NEW p \in Procs, pc'[p] # "unpack", pc'[p] = "wipe" \/ Reusable',
             pc'[p] = "copy" \/ MMDBWhole'
      PROVE  ReuseInv'
  BY <1>0, <1>b DEF ReuseInv, ReusedIsWhole
<1>c. ASSUME NEW p \in Procs,
             pc[p] \notin {"unpack", "undo", "wipe", "copy"}, pc'[p] # "unpack",
             \A a \in Addons : Same(Addon(a)), Same(MMDB),
             \A a \in Addons : Addon(a) \in cut => Addon(a) \in cut',
             MMDB \in cut => MMDB \in cut'
      PROVE  ReuseInv'
  <2>1. Reusable /\ MMDBWhole
    BY <1>a, <1>c
  <2>2. \A a \in Addons : Whole(Addon(a)) => Whole(Addon(a))'
    BY <1>c DEF Whole, Same
  <2>3. Reusable' /\ MMDBWhole'
    BY <1>c, <2>1, <2>2 DEF Same
  <2>4. QED
    BY <1>b, <1>c, <2>3
<1>d. ASSUME NEW p \in Procs,
             pc[p] \notin {"unpack", "undo", "wipe", "copy"}, pc'[p] # "unpack",
             UNCHANGED disk, cut \subseteq cut'
      PROVE  ReuseInv'
  BY <1>c, <1>d DEF Same, Has
<1> HIDE DEF Reusable, MMDBWhole
<1>1. ASSUME NEW p \in Procs, NEW replace \in BOOLEAN, NEW pre \in BOOLEAN,
             BeginFetch(p, replace, pre)
      PROVE  ReuseInv'
  BY <1>0, <1>d, <1>1 DEF BeginFetch, Begin, Busy
<1>2. ASSUME NEW p \in Procs, CheckCompat(p) PROVE ReuseInv'
  BY <1>0, <1>d, <1>2 DEF CheckCompat
<1>3. ASSUME NEW p \in Procs, Wipe(p) PROVE ReuseInv'
  <2>1. MMDBWhole
    BY <1>a, <1>3 DEF Wipe
  <2>2. CASE pc' = pc /\ cut' = cut /\ disk' \subseteq disk
    <3>1. MMDBWhole'
      BY <2>1, <2>2 DEF MMDBWhole, Has
    <3>2. QED
      BY <1>b, <1>3, <2>2, <3>1 DEF Wipe
  <2>3. CASE disk' = {} /\ pc' = [pc EXCEPT ![p] = "scan"]
    BY <1>0, <1>b, <2>3 DEF Reusable, MMDBWhole, Has
  <2>4. QED
    BY <1>3, <2>2, <2>3 DEF Wipe, Unlink
<1>4. ASSUME NEW p \in Procs, RepoFails(p) PROVE ReuseInv'
  BY <1>0, <1>d, <1>4 DEF RepoFails, NextRepo
<1>5. ASSUME NEW p \in Procs, FindInstalled(p) PROVE ReuseInv'
  BY <1>0, <1>d, <1>5 DEF FindInstalled
<1>6. ASSUME NEW p \in Procs, FindNew(p) PROVE ReuseInv'
  BY <1>0, <1>d, <1>6 DEF FindNew
<1>7. ASSUME NEW p \in Procs, RemoveOld(p) PROVE ReuseInv'
  <2>1. PICK v \in Versions : v = job[p].v
    BY <1>7 DEF RemoveOld, JobOfStep, OfVersion, RemoveJobs, Installing, Installed
  <2>2. SameBut(Inst(v))
    BY <2>1, <1>7, InstSteps
  <2>3. \A a \in Addons : Same(Addon(a))
    BY <2>2, PlaceFacts DEF SameBut
  <2>4. Same(MMDB)
    BY <2>1, <2>2, PlaceFacts DEF SameBut
  <2>5. \A a \in Addons : Addon(a) \in cut => Addon(a) \in cut'
    BY <2>1, <1>7, MarkFacts DEF Repaired, RemoveOld
  <2>6. pc[p] \notin {"unpack", "undo", "wipe", "copy"} /\ pc'[p] # "unpack"
    BY <1>0, <1>7 DEF RemoveOld
  <2>7. MMDB \in cut => MMDB \in cut'
    BY <2>1, <1>7, MarkFacts DEF Repaired, RemoveOld
  <2>8. QED
    BY <1>c, <2>3, <2>4, <2>5, <2>6, <2>7
<1>8. ASSUME NEW p \in Procs, ClearTmp(p) PROVE ReuseInv'
  <2>1. PICK v \in Versions : v = job[p].v
    BY <1>8 DEF ClearTmp, JobOfStep, OfVersion, RemoveJobs, Installing, Installed
  <2>2. SameBut(Tmp(v))
    BY <2>1, <1>8, TmpSteps
  <2>3. \A a \in Addons : Same(Addon(a))
    BY <2>2, PlaceFacts DEF SameBut
  <2>4. Same(MMDB)
    BY <2>1, <2>2, PlaceFacts DEF SameBut
  <2>5. \A a \in Addons : Addon(a) \in cut => Addon(a) \in cut'
    BY <2>1, <1>8 DEF ClearTmp
  <2>6. pc[p] \notin {"unpack", "undo", "wipe", "copy"} /\ pc'[p] # "unpack"
    BY <1>0, <1>8 DEF ClearTmp
  <2>7. MMDB \in cut => MMDB \in cut'
    BY <2>1, <1>8 DEF ClearTmp
  <2>8. QED
    BY <1>c, <2>3, <2>4, <2>5, <2>6, <2>7
<1>9. ASSUME NEW p \in Procs, Extract(p) PROVE ReuseInv'
  <2>1. PICK v \in Versions : v = job[p].v
    BY <1>9 DEF Extract, JobOfStep, OfVersion, RemoveJobs, Installing, Installed
  <2>2. SameBut(Tmp(v))
    BY <2>1, <1>9, TmpSteps
  <2>3. \A a \in Addons : Same(Addon(a))
    BY <2>2, PlaceFacts DEF SameBut
  <2>4. Same(MMDB)
    BY <2>1, <2>2, PlaceFacts DEF SameBut
  <2>5. \A a \in Addons : Addon(a) \in cut => Addon(a) \in cut'
    BY <2>1, <1>9 DEF Extract
  <2>6. pc[p] \notin {"unpack", "undo", "wipe", "copy"} /\ pc'[p] # "unpack"
    BY <1>0, <1>9 DEF Extract
  <2>7. MMDB \in cut => MMDB \in cut'
    BY <2>1, <1>9 DEF Extract
  <2>8. QED
    BY <1>c, <2>3, <2>4, <2>5, <2>6, <2>7
<1>10. ASSUME NEW p \in Procs, InstallFails(p) PROVE ReuseInv'
  BY <1>0, <1>d, <1>10 DEF InstallFails
<1>11. ASSUME NEW p \in Procs, WriteVersionJSON(p) PROVE ReuseInv'
  <2>1. PICK v \in Versions : v = job[p].v
    BY <1>11 DEF WriteVersionJSON, JobOfStep, OfVersion, RemoveJobs, Installing,
       Installed
  <2>2. SameBut(Tmp(v))
    BY <2>1, <1>11, TmpSteps
  <2>3. \A a \in Addons : Same(Addon(a))
    BY <2>2, PlaceFacts DEF SameBut
  <2>4. Same(MMDB)
    BY <2>1, <2>2, PlaceFacts DEF SameBut
  <2>5. \A a \in Addons : Addon(a) \in cut => Addon(a) \in cut'
    BY <2>1, <1>11 DEF WriteVersionJSON
  <2>6. pc[p] \notin {"unpack", "undo", "wipe", "copy"} /\ pc'[p] # "unpack"
    BY <1>0, <1>11 DEF WriteVersionJSON
  <2>7. MMDB \in cut => MMDB \in cut'
    BY <2>1, <1>11 DEF WriteVersionJSON
  <2>8. QED
    BY <1>c, <2>3, <2>4, <2>5, <2>6, <2>7
<1>12. ASSUME NEW p \in Procs, Rename(p) PROVE ReuseInv'
  <2>1. PICK v \in Versions : v = job[p].v
    BY <1>12 DEF Rename, JobOfStep, OfVersion, Installing
  <2>2. pc[p] = "rename" /\ pc'[p] # "unpack"
    BY <1>0, <1>12 DEF Rename
  <2>3. CASE disk' = disk /\ cut' = cut
    BY <1>d, <2>2, <2>3
  <2>4. CASE /\ Has(Tmp(v), "dir") /\ Entries(Inst(v)) = {}
             /\ disk' = (disk \ Entries(Tmp(v)))
                          \cup {In(Inst(v), e[3]) : e \in Entries(Tmp(v))}
             /\ Repaired(v)
    <3>1. \A other \in (Dirs \cup {MMDB}) \ {Tmp(v), Inst(v)} : Same(other)
      BY <2>4, RenameStep
    <3>2. Same(MMDB) /\ \A a \in Addons : Same(Addon(a))
      BY <3>1, PlaceFacts
    <3>3. /\ \A a \in Addons : Addon(a) \in cut => Addon(a) \in cut'
          /\ MMDB \in cut => MMDB \in cut'
      BY <2>4, MarkFacts DEF Repaired
    <3>4. QED
      BY <1>c, <2>2, <3>2, <3>3
  <2>5. QED
    BY <1>12, <2>1, <2>3, <2>4 DEF Rename
<1>13. ASSUME NEW p \in Procs, Abandon(p) PROVE ReuseInv'
  <2>1. PICK v \in Versions : v = job[p].v
    BY <1>13 DEF Abandon, JobOfStep, OfVersion, RemoveJobs, Installing, Installed
  <2>2. SameBut(Tmp(v))
    BY <2>1, <1>13, TmpSteps
  <2>3. \A a \in Addons : Same(Addon(a))
    BY <2>2, PlaceFacts DEF SameBut
  <2>4. Same(MMDB)
    BY <2>1, <2>2, PlaceFacts DEF SameBut
  <2>5. \A a \in Addons : Addon(a) \in cut => Addon(a) \in cut'
    BY <2>1, <1>13 DEF Abandon
  <2>6. pc[p] \notin {"unpack", "undo", "wipe", "copy"} /\ pc'[p] # "unpack"
    BY <1>0, <1>13 DEF Abandon, NextRepo
  <2>7. MMDB \in cut => MMDB \in cut'
    BY <2>1, <1>13 DEF Abandon
  <2>8. QED
    BY <1>c, <2>3, <2>4, <2>5, <2>6, <2>7
<1>14. ASSUME NEW p \in Procs, ChmodExec(p) PROVE ReuseInv'
  <2>1. PICK v \in Versions : v = job[p].v
    BY <1>14 DEF ChmodExec, JobOfStep, OfVersion, RemoveJobs, Installing, Installed
  <2>2. SameBut(Inst(v))
    BY <2>1, <1>14, InstSteps
  <2>3. \A a \in Addons : Same(Addon(a))
    BY <2>2, PlaceFacts DEF SameBut
  <2>4. Same(MMDB)
    BY <2>1, <2>2, PlaceFacts DEF SameBut
  <2>5. \A a \in Addons : Addon(a) \in cut => Addon(a) \in cut'
    BY <2>1, <1>14 DEF ChmodExec
  <2>6. pc[p] \notin {"unpack", "undo", "wipe", "copy"} /\ pc'[p] # "unpack"
    BY <1>0, <1>14 DEF ChmodExec
  <2>7. MMDB \in cut => MMDB \in cut'
    BY <2>1, <1>14 DEF ChmodExec
  <2>8. QED
    BY <1>c, <2>3, <2>4, <2>5, <2>6, <2>7
<1>15. ASSUME NEW p \in Procs, TouchFlag(p) PROVE ReuseInv'
  <2>1. SamePlaces
    BY <1>15, SettingsSteps
  <2>2. pc[p] \notin {"unpack", "undo", "wipe", "copy"} /\ pc'[p] # "unpack"
    BY <1>0, <1>15 DEF TouchFlag
  <2>3. /\ \A a \in Addons : Addon(a) \in cut => Addon(a) \in cut'
        /\ MMDB \in cut => MMDB \in cut'
    BY <1>15, MarkFacts DEF TouchFlag
  <2>4. QED
    BY <1>c, <2>1, <2>2, <2>3, PlaceFacts DEF SamePlaces
<1>16. ASSUME NEW p \in Procs, TruncateConfig(p) PROVE ReuseInv'
  <2>1. SamePlaces
    BY <1>16, SettingsSteps
  <2>2. pc[p] \notin {"unpack", "undo", "wipe", "copy"} /\ pc'[p] # "unpack"
    BY <1>0, <1>16 DEF TruncateConfig
  <2>3. /\ \A a \in Addons : Addon(a) \in cut => Addon(a) \in cut'
        /\ MMDB \in cut => MMDB \in cut'
    BY <1>16 DEF TruncateConfig
  <2>4. QED
    BY <1>c, <2>1, <2>2, <2>3, PlaceFacts DEF SamePlaces
<1>17. ASSUME NEW p \in Procs, WriteConfigJSON(p) PROVE ReuseInv'
  <2>1. SamePlaces
    BY <1>17, SettingsSteps
  <2>2. pc[p] \notin {"unpack", "undo", "wipe", "copy"} /\ pc'[p] # "unpack"
    BY <1>0, <1>17 DEF WriteConfigJSON
  <2>3. /\ \A a \in Addons : Addon(a) \in cut => Addon(a) \in cut'
        /\ MMDB \in cut => MMDB \in cut'
    BY <1>17, MarkFacts DEF WriteConfigJSON
  <2>4. QED
    BY <1>c, <2>1, <2>2, <2>3, PlaceFacts DEF SamePlaces
<1>18. ASSUME NEW p \in Procs, NEW v \in Versions, BeginRemove(p, v) PROVE ReuseInv'
  BY <1>0, <1>d, <1>18 DEF BeginRemove, Begin, Busy
<1>19. ASSUME NEW p \in Procs, Remove(p) PROVE ReuseInv'
  <2>1. PICK v \in Versions : v = job[p].v
    BY <1>19 DEF Remove, JobOfStep, OfVersion, RemoveJobs, Installing, Installed
  <2>2. SameBut(Inst(v))
    BY <2>1, <1>19, InstSteps
  <2>3. \A a \in Addons : Same(Addon(a))
    BY <2>2, PlaceFacts DEF SameBut
  <2>4. Same(MMDB)
    BY <2>1, <2>2, PlaceFacts DEF SameBut
  <2>5. \A a \in Addons : Addon(a) \in cut => Addon(a) \in cut'
    BY <2>1, <1>19, MarkFacts DEF Repaired, Remove
  <2>6. pc[p] \notin {"unpack", "undo", "wipe", "copy"} /\ pc'[p] # "unpack"
    BY <1>0, <1>19 DEF Remove
  <2>7. MMDB \in cut => MMDB \in cut'
    BY <2>1, <1>19, MarkFacts DEF Repaired, Remove
  <2>8. QED
    BY <1>c, <2>3, <2>4, <2>5, <2>6, <2>7
<1>20. ASSUME NEW p \in Procs, NEW todo \in SUBSET Addons, BeginAddons(p, todo)
      PROVE  ReuseInv'
  BY <1>0, <1>d, <1>20 DEF BeginAddons, Begin, Busy
<1>21. ASSUME NEW p \in Procs, NEW a \in Addons, NextAddon(p, a) PROVE ReuseInv'
  <2>1. SameBut(Addon(a)) /\ cut' = cut /\ pc[p] = "addon" /\ job[p] \in AddonsJobs
    BY <1>21, AddonSteps DEF NextAddon, JobOfStep
  <2>2. CASE Has(Addon(a), "dir")
    <3>1. disk' = disk /\ pc' = pc
      BY <2>2, <1>21 DEF NextAddon
    <3>2. QED
      BY <1>d, <2>1, <3>1
  <2>3. CASE ~Has(Addon(a), "dir")
    <3> DEFINE j == [job[p] EXCEPT !.todo = job[p].todo \ {a}, !.now = a, !.wrote = {}]
    <3>1. /\ job' = [job EXCEPT ![p] = j] /\ disk' = disk \cup {In(Addon(a), "dir")}
          /\ pc' = [pc EXCEPT ![p] = "unpack"]
      BY <2>3, <1>21 DEF NextAddon
    <3>2. j.now = a /\ j.wrote = {}
      BY <2>1 DEF AddonsJobs
    <3> HIDE DEF j
    <3>3. pc'[p] = "unpack" /\ job'[p].now = a /\ job'[p].wrote = {}
      BY <1>0, <3>1, <3>2
    <3>4. Reusable /\ MMDBWhole
      BY <1>a, <2>1
    <3>5. ASSUME NEW b \in Addons \ {a}, Has(Addon(b), "dir")'
          PROVE  Whole(Addon(b))' \/ Addon(b) \in cut'
      <4>1. Same(Addon(b)) /\ (Whole(Addon(b)) => Whole(Addon(b))')
        BY <2>1, PlaceFacts DEF SameBut, Same, Whole
      <4>2. QED
        BY <2>1, <3>4, <3>5, <4>1 DEF Reusable, Same
    <3>6. MMDBWhole'
      BY <2>1, <3>4, PlaceFacts DEF MMDBWhole, SameBut, Same
    <3>7. Has(Addon(a), "dir")'
      BY <3>1 DEF Has
    <3>8. QED
      BY <1>0, <3>3, <3>5, <3>6, <3>7 DEF ReuseInv, ReusedIsWhole, MMDBWhole
  <2>4. QED
    BY <2>2, <2>3
<1>22. ASSUME NEW p \in Procs, Unpack(p) PROVE ReuseInv'
  <2>1. PICK a \in Addons : a = job[p].now
    BY <1>22 DEF Unpack, JobOfStep
  <2>2. /\ SameBut(Addon(a)) /\ cut' = cut /\ pc[p] = "unpack" /\ job[p] \in AddonsJobs
        /\ MMDBWhole
    BY <1>a, <1>22, <2>1, AddonSteps DEF Unpack, JobOfStep
  <2>3. \A f \in job[p].wrote \cup {"dir"} : Has(Addon(a), f)
    BY <2>1, <2>2 DEF ReuseInv
  <2>4. MMDBWhole'
    BY <2>2, PlaceFacts DEF MMDBWhole, SameBut, Same
  <2>5. ASSUME NEW b \in Addons \ {a}, Has(Addon(b), "dir")'
        PROVE  Whole(Addon(b))' \/ Addon(b) \in cut'
    <3>1. Same(Addon(b)) /\ (Whole(Addon(b)) => Whole(Addon(b))')
      BY <2>2, PlaceFacts DEF SameBut, Same, Whole
    <3>2. Has(Addon(b), "dir") => Whole(Addon(b)) \/ Addon(b) \in cut
      BY <1>0, <2>1, <2>2, <2>5 DEF ReuseInv, ReusedIsWhole
    <3>3. QED
      BY <2>2, <2>5, <3>1, <3>2 DEF Same
  <2>6. ASSUME NEW f \in Files, pc' = pc,
               disk' = disk \cup {In(Addon(a), f), In(Addon(a), "dir")},
               job' = [job EXCEPT ![p].wrote = @ \cup {f}]
        PROVE  ReuseInv'
    <3> DEFINE w == job[p].wrote \cup {f}
    <3> DEFINE j == [job[p] EXCEPT !.wrote = w]
    <3>1. j.now = a /\ j.wrote = w
      BY <2>1, <2>2 DEF AddonsJobs
    <3>2. job' = [job EXCEPT ![p] = j]
      BY <2>6
    <3>3. \A g \in w \cup {"dir"} : Has(Addon(a), g)'
      BY <2>3, <2>6 DEF Has
    <3> HIDE DEF w, j
    <3>4. pc'[p] = "unpack" /\ job'[p].now = a /\ job'[p].wrote = w
      BY <1>0, <2>2, <2>6, <3>1, <3>2
    <3>5. QED
      BY <1>0, <2>4, <2>5, <3>3, <3>4 DEF ReuseInv, ReusedIsWhole, MMDBWhole
  <2>7. CASE job[p].wrote = Files /\ pc' = [pc EXCEPT ![p] = "addon"]
             /\ UNCHANGED <<disk, job>>
    <3>1. Whole(Addon(a))'
      BY <2>3, <2>7 DEF Whole, Has
    <3>2. Reusable'
      BY <2>5, <3>1 DEF Reusable
    <3>3. QED
      BY <1>0, <1>b, <2>4, <2>7, <3>2
  <2>8. QED
    BY <1>22, <2>1, <2>6, <2>7 DEF Unpack, WriteEntry
<1>23. ASSUME NEW p \in Procs, UnpackFails(p) PROVE ReuseInv'
  <2>1. pc[p] = "unpack" /\ pc'[p] = "undo" /\ UNCHANGED <<disk, job, cut>>
    BY <1>0, <1>23 DEF UnpackFails
  <2>2. QED
    BY <1>0, <2>1 DEF ReuseInv, ReusedIsWhole, Has, Whole
<1>24. ASSUME NEW p \in Procs, UndoAddon(p) PROVE ReuseInv'
  <2>1. PICK a \in Addons : a = job[p].now
    BY <1>24 DEF UndoAddon, JobOfStep
  <2>2. /\ SameBut(Addon(a)) /\ job' = job /\ cut' = cut /\ pc[p] = "undo" /\ MMDBWhole
    BY <1>a, <1>24, <2>1, AddonSteps DEF UndoAddon
  <2>3. MMDBWhole'
    BY <2>2, PlaceFacts DEF MMDBWhole, SameBut, Same
  <2>4. ASSUME NEW b \in Addons \ {a}, Has(Addon(b), "dir")'
        PROVE  Whole(Addon(b))' \/ Addon(b) \in cut'
    <3>1. Same(Addon(b)) /\ (Whole(Addon(b)) => Whole(Addon(b))')
      BY <2>2, PlaceFacts DEF SameBut, Same, Whole
    <3>2. Has(Addon(b), "dir") => Whole(Addon(b)) \/ Addon(b) \in cut
      BY <1>0, <2>1, <2>2, <2>4 DEF ReuseInv, ReusedIsWhole
    <3>3. QED
      BY <2>2, <2>4, <3>1, <3>2 DEF Same
  <2>5. CASE pc' = pc
    BY <1>0, <2>1, <2>2, <2>3, <2>4, <2>5 DEF ReuseInv, ReusedIsWhole, MMDBWhole
  <2>6. CASE Entries(Addon(a)) = {} /\ pc' = [pc EXCEPT ![p] = "addon"] /\ disk' = disk
    <3>1. ~Has(Addon(a), "dir")'
      BY <2>6, PlaceIsEmpty, PlaceFacts DEF Has, Marks
    <3>2. Reusable'
      BY <2>4, <3>1 DEF Reusable
    <3>3. QED
      BY <1>0, <1>b, <2>3, <2>6, <3>2
  <2>7. QED
    BY <1>24, <2>1, <2>5, <2>6 DEF UndoAddon
<1>25. ASSUME NEW p \in Procs, ReturnAddons(p) PROVE ReuseInv'
  BY <1>0, <1>d, <1>25 DEF ReturnAddons
<1>26. ASSUME NEW p \in Procs, BeginGeoIP(p) PROVE ReuseInv'
  BY <1>0, <1>d, <1>26 DEF BeginGeoIP, Begin, Busy
<1>27. ASSUME NEW p \in Procs, NeedsUpdate(p) PROVE ReuseInv'
  BY <1>0, <1>d, <1>27 DEF NeedsUpdate
<1>28. ASSUME NEW p \in Procs, DownloadOne(p) PROVE ReuseInv'
  <2>1. SameBut(MMDB) /\ \A f : Has(MMDB, f)' <=> f = "torn"
    BY <1>28, PutStep DEF DownloadOne
  <2>2. pc[p] = "download" /\ pc'[p] = "copy" /\ Reusable
    BY <1>0, <1>a, <1>28 DEF DownloadOne
  <2>3. ASSUME NEW a \in Addons PROVE Same(Addon(a))
               /\ (Whole(Addon(a)) => Whole(Addon(a))')
    BY <2>1, PlaceFacts DEF SameBut, Same, Whole
  <2>4. \A a \in Addons : Addon(a) \in cut => Addon(a) \in cut'
    BY <1>28, PlaceFacts DEF DownloadOne
  <2>5. Reusable'
    BY <2>2, <2>3, <2>4 DEF Reusable, Same
  <2>6. QED
    BY <1>b, <2>1, <2>2, <2>5 DEF MMDBWhole
<1>29. ASSUME NEW p \in Procs, CopyFile(p) PROVE ReuseInv'
  <2>1. SameBut(MMDB) /\ \A f : Has(MMDB, f)' <=> f = "whole"
    BY <1>29, PutStep DEF CopyFile
  <2>2. pc[p] = "copy" /\ pc'[p] = "open" /\ Reusable
    BY <1>0, <1>a, <1>29 DEF CopyFile
  <2>3. ASSUME NEW a \in Addons PROVE Same(Addon(a))
               /\ (Whole(Addon(a)) => Whole(Addon(a))')
    BY <2>1, PlaceFacts DEF SameBut, Same, Whole
  <2>4. \A a \in Addons : Addon(a) \in cut => Addon(a) \in cut'
    BY <1>29, PlaceFacts DEF CopyFile
  <2>5. Reusable'
    BY <2>2, <2>3, <2>4 DEF Reusable, Same
  <2>6. QED
    BY <1>b, <2>1, <2>2, <2>5 DEF MMDBWhole
<1>30. ASSUME NEW p \in Procs, DownloadFails(p) PROVE ReuseInv'
  <2>1. disk' = disk /\ cut \subseteq cut' /\ pc[p] \in {"download", "copy"} /\ Reusable
    BY <1>a, <1>30 DEF DownloadFails
  <2>2. pc'[p] \in {"download", "returned"}
    BY <1>0, <1>30 DEF DownloadFails
  <2>3. Reusable'
    BY <2>1 DEF Reusable, Has, Whole
  <2>4. MMDBWhole'
    BY <1>a, <2>1, <1>30 DEF DownloadFails, MMDBWhole, Has
  <2>5. QED
    BY <1>b, <2>2, <2>3, <2>4
<1>31. ASSUME NEW p \in Procs, OpenMMDB(p) PROVE ReuseInv'
  BY <1>0, <1>d, <1>31 DEF OpenMMDB
<1>32. ASSUME NEW p \in Procs, Crash(p) PROVE ReuseInv'
  <2>1. pc'[p] = "idle" /\ disk' = disk /\ cut \subseteq cut'
    BY <1>0, <1>32 DEF Crash
  <2>2. ASSUME NEW a \in Addons, Has(Addon(a), "dir")
        PROVE  Whole(Addon(a)) \/ Addon(a) \in cut'
    <3>1. Entries(Addon(a)) # {}
      BY <2>2, PlaceIsEmpty, PlaceFacts DEF Marks
    <3>2. CASE pc[p] = "wipe"
      BY <3>1, <3>2, <1>32, PlaceFacts DEF Crash, Used
    <3>3. CASE pc[p] \in {"unpack", "undo"} /\ job[p].now = a
      BY <3>1, <3>3, <1>32 DEF Crash, Used
    <3>4. CASE pc[p] # "wipe" /\ ~(pc[p] \in {"unpack", "undo"} /\ job[p].now = a)
      BY <1>0, <2>1, <2>2, <3>4 DEF ReuseInv, ReusedIsWhole
    <3>5. QED
      BY <3>2, <3>3, <3>4
  <2>3. Reusable'
    BY <2>1, <2>2 DEF Reusable, Has, Whole
  <2>4. pc[p] = "copy" => MMDB \in cut'
    BY <1>32 DEF Crash
  <2>5. MMDBWhole'
    BY <1>a, <2>1, <2>4 DEF MMDBWhole, Has
  <2>6. QED
    BY <1>b, <2>1, <2>3, <2>5
<1>33. ASSUME NEW p \in Procs, WipeGivesUp(p) PROVE ReuseInv'
  <2>1. pc'[p] = "scan" /\ disk' = disk /\ cut' = cut \cup Used(Dirs) \cup {FlagMark}
          /\ pc[p] = "wipe"
    BY <1>0, <1>33 DEF WipeGivesUp, Drops
  <2>2. ASSUME NEW a \in Addons, Has(Addon(a), "dir") PROVE Addon(a) \in cut'
    <3>1. Entries(Addon(a)) # {}
      BY <2>2, PlaceIsEmpty, PlaceFacts DEF Marks
    <3>2. QED
      BY <2>1, <3>1, PlaceFacts DEF Used
  <2>3. Reusable'
    BY <2>1, <2>2 DEF Reusable, Has
  <2>4. MMDBWhole'
    BY <1>a, <2>1 DEF MMDBWhole, Has
  <2>5. QED
    BY <1>b, <2>1, <2>3, <2>4
<1>34. ASSUME NEW p \in Procs, FindUnreadable(p) PROVE ReuseInv'
  BY <1>0, <1>d, <1>34 DEF FindUnreadable
<1>35. ASSUME NEW p \in Procs, RemoveOldGivesUp(p) PROVE ReuseInv'
  BY <1>0, <1>d, <1>35 DEF RemoveOldGivesUp, Drops
<1>36. ASSUME NEW p \in Procs, ClearTmpGivesUp(p) PROVE ReuseInv'
  <2>1. PICK v \in Versions : v = job[p].v
    BY <1>36 DEF ClearTmpGivesUp, JobOfStep, OfVersion, RemoveJobs, Installing, Installed
  <2>2. SameBut(Tmp(v)) /\ cut' = cut
    BY <2>1, <1>36, TmpSteps DEF ClearTmpGivesUp
  <2>3. Same(MMDB) /\ \A a \in Addons : Same(Addon(a))
    BY <2>1, <2>2, PlaceFacts DEF SameBut
  <2>4. pc[p] \notin {"unpack", "undo", "wipe", "copy"} /\ pc'[p] # "unpack"
    BY <1>0, <1>36 DEF ClearTmpGivesUp
  <2>5. QED
    BY <1>c, <2>2, <2>3, <2>4
<1>37. ASSUME NEW p \in Procs, ChmodExecFails(p) PROVE ReuseInv'
  BY <1>0, <1>d, <1>37 DEF ChmodExecFails, Drops
<1>38. ASSUME NEW p \in Procs, TouchFlagFails(p) PROVE ReuseInv'
  BY <1>0, <1>d, <1>38 DEF TouchFlagFails, Drops
<1>39. ASSUME NEW p \in Procs, WriteConfigFails(p) PROVE ReuseInv'
  BY <1>0, <1>d, <1>39 DEF WriteConfigFails
<1>40. ASSUME NEW p \in Procs, RemoveFails(p) PROVE ReuseInv'
  BY <1>0, <1>d, <1>40 DEF RemoveFails
<1>41. ASSUME NEW p \in Procs, NEW a \in Addons, NextAddonFails(p, a) PROVE ReuseInv'
  BY <1>0, <1>d, <1>41 DEF NextAddonFails
<1>42. ASSUME NEW p \in Procs, UndoAddonGivesUp(p) PROVE ReuseInv'
  <2>1. pc[p] = "undo" /\ pc'[p] = "addon" /\ disk' = disk
          /\ cut' = cut \cup Used({Addon(job[p].now)})
    BY <1>0, <1>42 DEF UndoAddonGivesUp
  <2>2. ASSUME NEW a \in Addons, Has(Addon(a), "dir")
        PROVE  Whole(Addon(a)) \/ Addon(a) \in cut'
    <3>1. Entries(Addon(a)) # {}
      BY <2>2, PlaceIsEmpty, PlaceFacts DEF Marks
    <3>2. CASE job[p].now = a
      BY <2>1, <3>1, <3>2 DEF Used
    <3>3. CASE job[p].now # a
      BY <1>0, <2>1, <2>2, <3>3 DEF ReuseInv, ReusedIsWhole
    <3>4. QED
      BY <3>2, <3>3
  <2>3. Reusable'
    BY <2>1, <2>2 DEF Reusable, Has, Whole
  <2>4. MMDBWhole'
    BY <1>a, <2>1 DEF MMDBWhole, Has
  <2>5. QED
    BY <1>b, <2>1, <2>3, <2>4
<1>43. CASE UNCHANGED vars
  <2>1. UNCHANGED <<disk, pc, job, cut>>
    BY <1>43 DEF vars
  <2>2. QED
    BY <2>1 DEF ReuseInv, ReusedIsWhole, Whole, Has
<1>44. QED
  BY <1>1, <1>2, <1>3, <1>4, <1>5, <1>6, <1>7, <1>8, <1>9, <1>10, <1>11, <1>12,
     <1>13, <1>14, <1>15, <1>16, <1>17, <1>18, <1>19, <1>20, <1>21, <1>22, <1>23,
     <1>24, <1>25, <1>26, <1>27, <1>28, <1>29, <1>30, <1>31, <1>32, <1>33, <1>34,
     <1>35, <1>36, <1>37, <1>38, <1>39, <1>40, <1>41, <1>42, <1>43
  DEF Next, FetchStep, RemoveStep, AddonsStep, GeoIPStep

-----------------------------------------------------------------------------
LEMMA OneCorrect == ASSUME OneAtATime PROVE Spec => []OneIInv
<1>1. Init => OneIInv
  <2> SUFFICES ASSUME Init PROVE OneIInv
    OBVIOUS
  <2>1. TypeOK /\ JobOfStep
    BY InitControl
  <2>2. /\ \A place, f : ~Has(place, f)
        /\ served = {} /\ \A p \in Procs : pc[p] = "idle"
    BY DEF Init, Has
  <2>3. DirInv /\ MadeInv /\ InstInv /\ FlagInv
    BY <2>2 DEF DirInv, MadeInv, InstInv, FlagInv, At, Installing, Installed
  <2>4. ReadyInv /\ RoomInv /\ ReuseInv
    BY <2>2 DEF ReadyInv, FetchedIsReady, FetchedIsWhole, RoomInv, ReuseInv,
       ReusedIsWhole,
                At, Installing
  <2>5. QED
    BY <2>1, <2>3, <2>4 DEF OneIInv
<1>2. OneIInv /\ [Next]_vars => OneIInv'
  <2> SUFFICES ASSUME OneIInv, [Next]_vars PROVE OneIInv'
    OBVIOUS
  <2>1. (TypeOK /\ JobOfStep)'
    BY NextControl DEF OneIInv
  <2>2. DirInv' /\ MadeInv' /\ InstInv' /\ FlagInv'
    BY DirStep, MadeStep, InstStep, FlagStep DEF OneIInv
  <2>3. ReadyInv' /\ RoomInv' /\ ReuseInv'
    BY ReadyStep, RoomStep, ReuseStep DEF OneIInv
  <2>4. QED
    BY <2>1, <2>2, <2>3 DEF OneIInv
<1>3. QED
  BY <1>1, <1>2, PTL DEF Spec

(* Between processes that follow one another, whatever crashed or failed:   *)
(* what a Fetch has returned is whole, executable and what ExecPath finds,  *)
(* with the exceptions FetchedIsReady names (a chmod, a write of the flag   *)
(* or of config.json, or a removal that failed unnoticed are such), and no  *)
(* later check wipes it unless the write of the flag, or a wipe, failed.    *)
THEOREM FetchReady == ASSUME OneAtATime PROVE Spec => []FetchedIsReady
<1>1. OneIInv => FetchedIsReady
  BY DEF OneIInv, ReadyInv
<1>2. QED
  BY <1>1, OneCorrect, PTL

(* What InstalledVersion reports is whole, however the processes before     *)
(* ended, unless it is being removed or its removal was cut short.          *)
THEOREM ActiveWhole == ASSUME OneAtATime PROVE Spec => []ActiveIsWhole
<1>1. OneIInv => ActiveIsWhole
  BY PlaceFacts DEF OneIInv, ActiveIsWhole, InstalledVersion, InstInv, DirInv, Marks
<1>2. QED
  BY <1>1, OneCorrect, PTL

(* An addon or a GeoIP database that will be reused is whole, unless a      *)
(* crash or a failed write has been recorded for it.                        *)
THEOREM ReuseWhole == ASSUME OneAtATime PROVE Spec => []ReusedIsWhole
<1>1. OneIInv => ReusedIsWhole
  BY DEF OneIInv, ReuseInv
<1>2. QED
  BY <1>1, OneCorrect, PTL

(* Whatever the processes before it left, a Fetch fails only when the       *)
(* network or the disk fails it or over a half removed install.             *)
THEOREM NeverStuck == ASSUME OneAtATime PROVE Spec => InstallNeverStuck
<1> DEFINE Step(p) ==
      pc[p] # "returned" /\ pc'[p] = "returned" /\ result'[p] = "error"
        /\ job[p].op = "fetch" =>
      p \in hurt' \/ Inst(job[p].v) \in cut
<1>1. OneIInv /\ [Next]_vars => [\A p \in Procs : Step(p)]_vars
  <2> SUFFICES ASSUME OneIInv, Next, NEW q \in Procs, pc[q] # "returned",
                      pc'[q] = "returned", result'[q] = "error", job[q].op = "fetch"
               PROVE  q \in hurt' \/ Inst(job[q].v) \in cut
    OBVIOUS
  <2> USE DEF Goto, Return
  <2>0. /\ pc \in [Procs -> Steps]
        /\ result \in [Procs -> Versions \cup {None, "ok", "error"}]
        /\ JobOfStep /\ RoomInv
    BY DEF OneIInv, TypeOK
  <2>1. PICK p \in Procs : FetchStep(p) \/ RemoveStep(p) \/ AddonsStep(p)
          \/ GeoIPStep(p) \/ Crash(p)
    BY DEF Next
  <2>2. p = q
    BY <2>1 DEF OneAtATime
  <2>3. CASE RepoFails(p) \/ Abandon(p)
    BY <2>0, <2>2, <2>3 DEF RepoFails, Abandon, RoomInv, At
  <2>4. CASE FindInstalled(p) \/ WriteConfigJSON(p) \/ WriteConfigFails(p)
    <3>1. job[p].v \in Versions
      BY <2>0, <2>4
      DEF FindInstalled, WriteConfigJSON, WriteConfigFails, JobOfStep, FetchJobs,
          OfVersion, Installed
    <3>2. result'[q] = job[p].v
      BY <2>0, <2>2, <2>4 DEF FindInstalled, WriteConfigJSON, WriteConfigFails
    <3>3. QED
      BY <3>1, <3>2, CacheAssumption
  <2>5. CASE pc[p] \in {"remove", "addon", "unpack", "undo", "age", "download", "copy",
          "open"}
    BY <2>0, <2>2, <2>5 DEF JobOfStep, RemoveJobs, AddonsJobs, GeoIPJobs
  <2>6. CASE ~RepoFails(p) /\ ~Abandon(p) /\ ~FindInstalled(p) /\ ~WriteConfigJSON(p)
             /\ ~WriteConfigFails(p) /\ FetchStep(p)
    <3>1. pc' = pc \/ \E s \in Steps \ {"returned"} : pc' = [pc EXCEPT ![p] = s]
      BY <2>6
      DEF FetchStep, BeginFetch, Begin, CheckCompat, Wipe, WipeGivesUp, FindNew,
          FindUnreadable, RemoveOld, RemoveOldGivesUp, ClearTmp, ClearTmpGivesUp,
          Extract, InstallFails, WriteVersionJSON, Rename, ChmodExec, ChmodExecFails,
          TouchFlag, TouchFlagFails, TruncateConfig, Drops, Steps
    <3>2. QED
      BY <2>0, <2>2, <3>1
  <2>7. CASE (\E v \in Versions : BeginRemove(p, v)) \/ BeginGeoIP(p) \/ Crash(p)
             \/ \E todo \in SUBSET Addons : BeginAddons(p, todo)
    BY <2>0, <2>2, <2>7 DEF BeginRemove, BeginGeoIP, BeginAddons, Begin, Crash
  <2>8. QED
    BY <2>1, <2>3, <2>4, <2>5, <2>6, <2>7
    DEF RemoveStep, Remove, RemoveFails, AddonsStep, NextAddon, NextAddonFails, Unpack,
        UnpackFails, UndoAddon, UndoAddonGivesUp, ReturnAddons, GeoIPStep, NeedsUpdate,
        DownloadOne, CopyFile, DownloadFails, OpenMMDB
<1>2. QED
  BY <1>1, OneCorrect, PTL DEF Spec, InstallNeverStuck

-----------------------------------------------------------------------------
(* The cache as its users see it: what each step is to Installer. *)

(* There is one process to look at. *)
LEMMA OneView ==
  ASSUME OneAtATime, NEW p \in Procs
  PROVE  /\ AbsWorking = Busy(p) /\ AbsWorking' = Busy(p)'
         /\ AbsLeave = {v \in Versions : Removes(p, v)}
         /\ AbsLeave' = {v \in Versions : Removes(p, v)'}
         /\ AbsMade = {v \in Versions : Made(p, v)}
         /\ AbsMade' = {v \in Versions : Made(p, v)'}
         /\ AbsAnswer = {result[p]} \ {None} /\ AbsAnswer' = {result'[p]} \ {None}
<1>1. \A q \in Procs : q = p
  BY DEF OneAtATime
<1>2. Busy(p) \in BOOLEAN /\ Busy(p)' \in BOOLEAN
  BY DEF Busy
<1>3. AbsWorking = Busy(p) /\ AbsWorking' = Busy(p)'
  BY <1>1, <1>2 DEF AbsWorking
<1>4. /\ AbsLeave = {v \in Versions : Removes(p, v)}
      /\ AbsLeave' = {v \in Versions : Removes(p, v)'}
  BY <1>1 DEF AbsLeave
<1>5. /\ AbsMade = {v \in Versions : Made(p, v)}
      /\ AbsMade' = {v \in Versions : Made(p, v)'}
  BY <1>1 DEF AbsMade
<1>6. AbsAnswer = {result[p]} \ {None} /\ AbsAnswer' = {result'[p]} \ {None}
  BY <1>1 DEF AbsAnswer
<1>7. QED
  BY <1>3, <1>4, <1>5, <1>6

LEMMA NothingMade ==
  ASSUME OneAtATime, NEW p \in Procs, pc[p] \notin Installed
  PROVE  AbsMade = {}
BY OneView DEF Made, At

(* The operation goes on, with the same request. *)
GoesOn(p) ==
  /\ Busy(p) /\ Busy(p)' /\ result' = result
  /\ \A v \in Versions : (Removes(p, v)' <=> Removes(p, v)) /\ (Made(p, v)' <=> Made(p, v))
KeepsCut == \A v \in Versions : Inst(v) \in cut' <=> Inst(v) \in cut

LEMMA StateKept ==
  ASSUME NEW v \in Versions, Same(Inst(v)), Inst(v) \in cut' <=> Inst(v) \in cut
  PROVE  State(v)' = State(v)
<1>1. Whole(Inst(v))' <=> Whole(Inst(v))
  BY DEF Same, Whole
<1>2. QED
  BY <1>1 DEF Same, State

LEMMA InstallKept ==
  ASSUME KeepsCut, \A v \in Versions : Same(Inst(v))
  PROVE  AbsInstall' = AbsInstall
BY StateKept DEF KeepsCut, AbsInstall

LEMMA ActiveKept == SameSettings => AbsActive' = AbsActive
BY DEF SameSettings, AbsActive, Configs

LEMMA MarkedKept == SameSettings => AbsMarked' = AbsMarked
BY DEF SameSettings, AbsMarked

LEMMA GoingOn ==
  ASSUME OneAtATime, NEW p \in Procs, GoesOn(p)
  PROVE  /\ AbsWorking = TRUE /\ AbsWorking' = TRUE /\ AbsLeave' = AbsLeave
         /\ AbsMade' = AbsMade /\ AbsAnswer' = AbsAnswer
<1>1. Busy(p) = TRUE /\ Busy(p)' = TRUE
  BY DEF GoesOn, Busy
<1>2. QED
  BY <1>1, OneView DEF GoesOn

(* Such a step is none of Installer's when it is about no install. *)
LEMMA Stutters ==
  ASSUME OneAtATime, NEW p \in Procs, GoesOn(p), KeepsInsts, KeepsCut, served' = served,
         hurt' = hurt
  PROVE  UNCHANGED Abs!vars
<1>1. AbsInstall' = AbsInstall /\ AbsActive' = AbsActive /\ AbsMarked' = AbsMarked
  BY InstallKept, ActiveKept, MarkedKept DEF KeepsInsts
<1>2. AbsHurt' = AbsHurt
  BY DEF AbsHurt
<1>3. QED
  BY <1>1, <1>2, GoingOn DEF Abs!vars

(* Installs that a removal leaves as they are count as spoilt. *)
LEMMA Spoils ==
  ASSUME NEW hit \in SUBSET Versions, \A v \in Versions : Same(Inst(v)),
         \A v \in hit : Has(Inst(v), "dir") => Inst(v) \in cut',
         \A v \in Versions \ hit : Inst(v) \in cut' <=> Inst(v) \in cut
  PROVE  Abs!Spoil(hit)
<1>1. ASSUME NEW v \in Versions
      PROVE  State(v)' = IF v \in hit /\ State(v) # "absent" THEN "spoilt" ELSE State(v)
  <2>1. Has(Inst(v), "dir")' <=> Has(Inst(v), "dir")
    BY DEF Same
  <2>2. CASE v \in hit
    BY <2>1, <2>2 DEF State
  <2>3. CASE v \notin hit
    BY <2>3, StateKept
  <2>4. QED
    BY <2>2, <2>3
<1>2. QED
  BY <1>1 DEF AbsInstall, Abs!Spoil

(* A failure that the operation survives. *)
LEMMA Fails ==
  ASSUME OneAtATime, NEW p \in Procs, GoesOn(p), SameSettings, p \in hurt',
         NEW hit \in SUBSET Versions, Abs!Spoil(hit), hit \subseteq Abs!Going,
         served' = served \ hit
  PROVE  Abs!Fail
<1>1. AbsActive' = AbsActive /\ AbsMarked' = AbsMarked
  BY ActiveKept, MarkedKept
<1>2. AbsHurt' = TRUE
  BY DEF AbsHurt
<1>3. QED
  BY <1>1, <1>2, GoingOn DEF Abs!Fail

(* What one removal step makes of an install. *)
LEMMA Shrinks ==
  ASSUME TypeOK, DirInv, NEW v \in Versions, Unlink(Entries(Inst(v))), KeepsCut
  PROVE  Abs!Shrink(v) /\ SameSettings
<1> DEFINE place == Inst(v)
<1>0. place \in Dirs
  BY PlaceFacts
<1>1. /\ SameBut(place)
      /\ \A f : Has(place, f)' => Has(place, f)
      /\ \A f \in Marks : Has(place, f)' => Has(place, "dir")'
  BY <1>0, UnlinkStep
<1>2. ASSUME Has(place, "exe"), Has(place, "dir") PROVE Has(place, "dir")'
  <2>1. PICK e \in Entries(place) : /\ e[3] = "dir" => Entries(<<e[1], e[2]>>) = {e}
                                    /\ disk' = disk \ {e}
    BY DEF Unlink
  <2>2. e = In(place, e[3]) /\ e[1] = place[1] /\ e[2] = place[2]
    BY <1>0, EntryOfPlace DEF Entries
  <2>3. In(place, "exe") \in Entries(place) /\ In(place, "dir") \in Entries(place)
    BY <1>2 DEF Has, Entries, In
  <2>4. In(place, "exe") # In(place, "dir")
    BY DEF In
  <2>5. e # In(place, "dir")
    <3> SUFFICES ASSUME e = In(place, "dir") PROVE FALSE
      OBVIOUS
    <3>1. e[3] = "dir" /\ Entries(<<e[1], e[2]>>) = Entries(place)
      BY <2>2 DEF In, Entries
    <3>2. QED
      BY <2>1, <2>3, <2>4, <3>1
  <2>6. QED
    BY <1>2, <2>1, <2>5 DEF Has
<1>3. "exe" \in Files
  BY DEF Files
<1>4. Whole(place)' => Whole(place)
  BY <1>1 DEF Whole
<1>5. State(v)' \in Abs!Less(State(v))
  <2>1. CASE ~Has(place, "dir")
    BY <1>1, <2>1 DEF State, Abs!Less
  <2>2. CASE Has(place, "dir") /\ Inst(v) \in cut
    BY <2>2 DEF State, Abs!Less, KeepsCut
  <2>3. CASE Has(place, "dir") /\ Inst(v) \notin cut /\ Whole(place) /\ Has(place, "ver")
    <3>1. Has(place, "dir")'
      BY <1>2, <1>3, <2>3 DEF Whole
    <3>2. QED
      BY <2>3, <3>1 DEF State, Abs!Less, KeepsCut
  <2>4. CASE Has(place, "dir") /\ Inst(v) \notin cut /\ ~(Whole(place) /\ Has(place, "ver"))
    BY <1>1, <1>4, <2>4 DEF State, Abs!Less, KeepsCut
  <2>5. QED
    BY <2>1, <2>2, <2>3, <2>4
<1>6. \A w \in Versions \ {v} : State(w)' = State(w)
  BY <1>1, StateKept, PlaceFacts DEF SameBut, KeepsCut
<1>7. AbsInstall' = [AbsInstall EXCEPT ![v] = State(v)'] /\ AbsInstall[v] = State(v)
  BY <1>6 DEF AbsInstall
<1>8. QED
  BY <1>1, <1>5, <1>7 DEF Abs!Shrink, SameBut

(* What the operation is asked stays the same while its steps go on. *)
Ongoing == Steps \ {"idle", "returned"}

LEMMA FetchGoesOn ==
  ASSUME TypeOK, JobOfStep, NEW p \in Procs, job[p] \in FetchJobs, result' = result,
         NEW from \in Ongoing, NEW to \in Ongoing, pc[p] = from,
         pc' = [pc EXCEPT ![p] = to], from \in Installed <=> to \in Installed,
         \/ job' = job
         \/ \E r \in Repos : job' = [job EXCEPT ![p].repo = r]
         \/ \E w \in SUBSET Files : job' = [job EXCEPT ![p].wrote = w]
  PROVE  GoesOn(p)
<1>1. job \in [Procs -> Jobs \cup {None}] /\ pc \in [Procs -> Steps]
  BY DEF TypeOK
<1>2. job'[p].op = job[p].op /\ job'[p].v = job[p].v /\ job'[p].replace = job[p].replace
  BY <1>1 DEF FetchJobs
<1>3. pc'[p] = to /\ Busy(p) /\ Busy(p)'
  BY <1>1 DEF Busy, Ongoing
<1>4. QED
  BY <1>2, <1>3 DEF GoesOn, Removes, Made, At

LEMMA OthersGoOn ==
  ASSUME TypeOK, NEW p \in Procs, result' = result,
         job[p].op \notin {"fetch", "remove"}, job'[p].op \notin {"fetch", "remove"},
         NEW from \in Ongoing, NEW to \in Ongoing, pc[p] = from,
         pc' = [pc EXCEPT ![p] = to], from \notin Installed, to \notin Installed
  PROVE  GoesOn(p)
<1>1. pc \in [Procs -> Steps]
  BY DEF TypeOK
<1>2. pc'[p] = to /\ Busy(p) /\ Busy(p)'
  BY <1>1 DEF Busy, Ongoing
<1>3. QED
  BY <1>2 DEF GoesOn, Removes, Made, At

(* The step of a Fetch that is none of Installer's. *)
LEMMA FetchStutters ==
  ASSUME OneAtATime, OneIInv, NEW p \in Procs, pc'[p] # "returned",
         \/ CheckCompat(p) \/ FindNew(p) \/ ClearTmp(p) \/ Extract(p)
         \/ WriteVersionJSON(p) \/ Abandon(p)
  PROVE  UNCHANGED Abs!vars
<1> USE DEF Goto
<1>1. /\ TypeOK /\ JobOfStep /\ DirInv /\ job[p] \in FetchJobs
      /\ pc \in [Procs -> Steps] /\ job \in [Procs -> Jobs \cup {None}]
  BY DEF OneIInv, TypeOK, JobOfStep, OfVersion, Installing, CheckCompat, FindNew,
     ClearTmp, Extract, WriteVersionJSON, Abandon
<1>2. KeepsInsts /\ KeepsCut /\ served' = served /\ hurt' = hurt
  <2>1. ClearTmp(p) \/ Extract(p) \/ WriteVersionJSON(p) \/ Abandon(p)
          \/ UNCHANGED <<disk, cut>>
    BY DEF CheckCompat, FindNew
  <2>2. cut' = cut /\ served' = served /\ hurt' = hurt
    BY DEF CheckCompat, FindNew, ClearTmp, Extract, WriteVersionJSON, Abandon
  <2>3. QED
    BY <1>1, <2>1, <2>2, ElsewhereSteps DEF KeepsCut
<1>3. GoesOn(p)
  <2> USE DEF Ongoing, Steps, Installed
  <2>1. ASSUME NEW from \in Ongoing \ Installed, NEW to \in Ongoing \ Installed,
               pc[p] = from, pc' = [pc EXCEPT ![p] = to], result' = result,
               \/ job' = job
               \/ \E r \in Repos : job' = [job EXCEPT ![p].repo = r]
               \/ \E w \in SUBSET Files : job' = [job EXCEPT ![p].wrote = w]
        PROVE  GoesOn(p)
    BY <1>1, <2>1, FetchGoesOn
  <2>2. pc' = pc => pc' = [pc EXCEPT ![p] = pc[p]]
    BY <1>1
  <2>3. CASE CheckCompat(p)
    BY <2>1, <2>3 DEF CheckCompat
  <2>5. CASE FindNew(p)
    BY <2>1, <2>5 DEF FindNew
  <2>6. CASE ClearTmp(p)
    BY <2>1, <2>2, <2>6 DEF ClearTmp
  <2>7. CASE Extract(p)
    <3>1. ASSUME NEW f \in Files, job' = [job EXCEPT ![p].wrote = @ \cup {f}], pc' = pc
          PROVE  GoesOn(p)
      <4>1. job[p].wrote \cup {f} \in SUBSET Files
        BY <1>1 DEF FetchJobs
      <4>2. job' = [job EXCEPT ![p].wrote = job[p].wrote \cup {f}]
        BY <3>1, <1>1
      <4>3. \E w \in SUBSET Files : job' = [job EXCEPT ![p].wrote = w]
        BY <4>1, <4>2
      <4>4. QED
        BY <2>1, <2>2, <2>7, <3>1, <4>3 DEF Extract
    <3>2. QED
      BY <2>1, <2>7, <3>1 DEF Extract, WriteEntry
  <2>9. CASE WriteVersionJSON(p)
    BY <2>1, <2>9 DEF WriteVersionJSON
  <2>10. CASE Abandon(p)
    BY <1>1, <2>1, <2>2, <2>10 DEF Abandon, NextRepo, Return
  <2>11. QED
    BY <2>3, <2>5, <2>6, <2>7, <2>9, <2>10
<1>4. QED
  BY <1>1, <1>2, <1>3, Stutters

(* A failing step of a Fetch that goes on, and is not about an install. *)
LEMMA FetchFails ==
  ASSUME OneAtATime, OneIInv, NEW p \in Procs, pc'[p] # "returned",
         \/ RepoFails(p) \/ FindUnreadable(p) \/ ClearTmpGivesUp(p) \/ InstallFails(p)
         \/ ChmodExecFails(p) \/ TouchFlagFails(p)
  PROVE  Abs!Fail
<1> USE DEF Goto, Drops
<1>1. /\ TypeOK /\ JobOfStep /\ DirInv /\ job[p] \in FetchJobs
      /\ pc \in [Procs -> Steps] /\ job \in [Procs -> Jobs \cup {None}]
      /\ hurt' = hurt \cup {p} /\ served' = served
  BY DEF OneIInv, TypeOK, JobOfStep, OfVersion, Installing, Installed, RepoFails,
     FindUnreadable, ClearTmpGivesUp, InstallFails, ChmodExecFails, TouchFlagFails
<1>2. KeepsInsts
  <2>1. ClearTmpGivesUp(p) \/ (disk' = disk /\ cut \subseteq cut')
    BY DEF RepoFails, FindUnreadable, InstallFails, ChmodExecFails, TouchFlagFails
  <2>2. QED
    BY <1>1, <2>1, ElsewhereSteps
<1>3. KeepsCut
  <2>1. CASE ChmodExecFails(p)
    <3>1. job[p].v \in Versions /\ cut' = cut \cup {Mode(job[p].v)}
      BY <1>1, <2>1 DEF ChmodExecFails, JobOfStep, OfVersion, Installed
    <3>2. QED
      BY <3>1, MarkFacts DEF KeepsCut
  <2>2. CASE TouchFlagFails(p)
    BY <2>2, MarkFacts DEF TouchFlagFails, KeepsCut
  <2>3. CASE cut' = cut
    BY <2>3 DEF KeepsCut
  <2>4. QED
    BY <2>1, <2>2, <2>3 DEF RepoFails, FindUnreadable, ClearTmpGivesUp, InstallFails
<1>4. GoesOn(p)
  <2> USE DEF Ongoing, Steps, Installed
  <2>1. ASSUME NEW from \in Ongoing, NEW to \in Ongoing,
               pc[p] = from, pc' = [pc EXCEPT ![p] = to], result' = result,
               from \in Installed <=> to \in Installed,
               \/ job' = job
               \/ \E r \in Repos : job' = [job EXCEPT ![p].repo = r]
               \/ \E w \in SUBSET Files : job' = [job EXCEPT ![p].wrote = w]
        PROVE  GoesOn(p)
    BY <1>1, <2>1, FetchGoesOn
  <2>2. CASE RepoFails(p)
    BY <1>1, <2>1, <2>2 DEF RepoFails, NextRepo, Return
  <2>3. CASE FindUnreadable(p)
    BY <2>1, <2>3 DEF FindUnreadable
  <2>4. CASE ClearTmpGivesUp(p)
    BY <2>1, <2>4 DEF ClearTmpGivesUp
  <2>5. CASE InstallFails(p)
    BY <2>1, <2>5 DEF InstallFails
  <2>6. CASE ChmodExecFails(p) \/ TouchFlagFails(p)
    BY <2>1, <2>6 DEF ChmodExecFails, TouchFlagFails
  <2>7. QED
    BY <2>2, <2>3, <2>4, <2>5, <2>6
<1>5. Abs!Spoil({})
  BY <1>2, <1>3, Spoils DEF KeepsInsts, KeepsCut
<1>6. SameSettings /\ p \in hurt' /\ served' = served \ {}
  BY <1>1, <1>2 DEF KeepsInsts
<1>7. QED
  BY <1>4, <1>5, <1>6, Fails

(* A removal that is given up, before anything is installed. *)
LEMMA GivesUp ==
  ASSUME OneAtATime, OneIInv, NEW p \in Procs, WipeGivesUp(p) \/ RemoveOldGivesUp(p)
  PROVE  Abs!Fail
<1> USE DEF Goto, Drops
<1>1. /\ TypeOK /\ JobOfStep /\ FlagInv /\ job[p] \in FetchJobs
      /\ pc[p] \in {"wipe", "unlink"}
      /\ pc[p] = "unlink" => job[p].v \in Versions
      /\ pc \in [Procs -> Steps] /\ served \subseteq Versions
      /\ hurt' = hurt \cup {p} /\ UNCHANGED <<disk, job, result>>
  BY DEF OneIInv, TypeOK, JobOfStep, OfVersion, WipeGivesUp, RemoveOldGivesUp
<1>2. SameSettings /\ \A v \in Versions : Same(Inst(v))
  BY <1>1 DEF SameSettings, Same, Has
<1>3. GoesOn(p)
  <2>1. PICK to \in {"scan", "clear"} : pc' = [pc EXCEPT ![p] = to]
    BY DEF WipeGivesUp, RemoveOldGivesUp
  <2>2. pc[p] \in Ongoing \ Installed /\ to \in Ongoing \ Installed
    BY <1>1, <2>1 DEF Ongoing, Steps, Installed
  <2>3. QED
    BY <1>1, <2>1, <2>2, FetchGoesOn
<1>4. AbsMade = {}
  BY <1>1, NothingMade DEF Installed
<1>5. ASSUME NEW v \in Versions, Has(Inst(v), "dir")
      PROVE  Inst(v) \in Used(Dirs) /\ Inst(v) \in Used({Inst(v)})
  <2>1. In(Inst(v), "dir") \in Entries(Inst(v)) /\ Inst(v) \in Dirs
    BY <1>5, PlaceFacts DEF Has, Entries, In
  <2>2. QED
    BY <2>1 DEF Used
<1>6. CASE WipeGivesUp(p)
  <2>1. /\ pc[p] = "wipe" /\ served' = {}
        /\ cut' = cut \cup (Used(Dirs) \cup {FlagMark})
    BY <1>6 DEF WipeGivesUp
  <2>2. AbsMarked = FALSE
    BY <1>1, <2>1 DEF FlagInv, At, AbsMarked
  <2>3. Versions \subseteq Abs!Going
    BY <1>4, <2>2 DEF Abs!Going
  <2>4. Abs!Spoil(Versions)
    BY <1>2, <1>5, <2>1, Spoils
  <2>5. served' = served \ Versions
    BY <1>1, <2>1
  <2>6. QED
    BY <1>1, <1>2, <1>3, <2>3, <2>4, <2>5, Fails
<1>7. CASE RemoveOldGivesUp(p)
  <2>1. PICK v \in Versions : v = job[p].v
    BY <1>1, <1>7 DEF RemoveOldGivesUp
  <2>2. /\ pc[p] = "unlink" /\ served' = served \ {v}
        /\ cut' = cut \cup Used({Inst(v)})
    BY <1>7, <2>1 DEF RemoveOldGivesUp
  <2>3. Removes(p, v)
    BY <1>1, <2>1, <2>2 DEF Removes, Busy, JobOfStep, FetchJobs
  <2>4. {v} \subseteq Abs!Going
    BY <1>4, <2>3, OneView DEF Abs!Going
  <2>5. \A w \in Versions \ {v} : Inst(w) \in cut' <=> Inst(w) \in cut
    BY <2>2, MarkFacts DEF Used
  <2>6. Abs!Spoil({v})
    BY <1>2, <1>5, <2>2, <2>5, Spoils
  <2>7. QED
    BY <1>1, <1>2, <1>3, <2>2, <2>4, <2>6, Fails
<1>8. QED
  BY <1>6, <1>7

(* Addons and GeoIP are none of its business. *)
LEMMA OthersStutter ==
  ASSUME OneAtATime, OneIInv, NEW p \in Procs, pc'[p] # "returned",
         \/ (\E a \in Addons : NextAddon(p, a) \/ NextAddonFails(p, a))
         \/ Unpack(p) \/ UnpackFails(p) \/ UndoAddon(p) \/ UndoAddonGivesUp(p)
         \/ NeedsUpdate(p) \/ DownloadOne(p) \/ CopyFile(p)
         \/ DownloadFails(p)
  PROVE  UNCHANGED Abs!vars
<1> USE DEF Goto
<1>1. /\ TypeOK /\ JobOfStep /\ DirInv
      /\ pc \in [Procs -> Steps] /\ job \in [Procs -> Jobs \cup {None}]
  BY DEF OneIInv, TypeOK
<1>2. KeepsInsts /\ KeepsCut /\ served' = served /\ hurt' = hurt
  <2>1. KeepsInsts
    <3>1. \/ (\E a \in Addons : NextAddon(p, a)) \/ Unpack(p) \/ UndoAddon(p)
          \/ DownloadOne(p) \/ CopyFile(p) \/ DownloadFails(p)
          \/ (disk' = disk /\ cut \subseteq cut')
      BY DEF UnpackFails, NeedsUpdate, NextAddonFails, UndoAddonGivesUp
    <3>2. QED
      BY <1>1, <3>1, ElsewhereSteps
  <2>2. /\ UndoAddonGivesUp(p)
             \/ (cut \ {MMDB} \subseteq cut' /\ cut' \subseteq cut \cup {MMDB})
        /\ served' = served /\ hurt' = hurt
    BY DEF NextAddon, NextAddonFails, Unpack, UnpackFails, UndoAddon, UndoAddonGivesUp,
       NeedsUpdate, DownloadOne, CopyFile, DownloadFails
  <2>3. KeepsCut
    <3>1. CASE UndoAddonGivesUp(p)
      <4>1. job[p].now \in Addons /\ cut' = cut \cup Used({Addon(job[p].now)})
        BY <1>1, <3>1 DEF UndoAddonGivesUp, JobOfStep
      <4>2. QED
        BY <4>1, MarkFacts DEF KeepsCut, Used
    <3>2. QED
      BY <2>2, <3>1, MarkFacts DEF KeepsCut
  <2>4. QED
    BY <2>1, <2>2, <2>3
<1>3. GoesOn(p)
  <2>1. pc' = pc => pc' = [pc EXCEPT ![p] = pc[p]]
    BY <1>1
  <2>2. CASE \/ (\E a \in Addons : NextAddon(p, a) \/ NextAddonFails(p, a))
               \/ Unpack(p) \/ UnpackFails(p) \/ UndoAddon(p) \/ UndoAddonGivesUp(p)
    <3>1. job[p] \in AddonsJobs /\ pc[p] \in {"addon", "unpack", "undo"}
      BY <1>1, <2>2 DEF JobOfStep, NextAddon, NextAddonFails, Unpack, UnpackFails,
         UndoAddon, UndoAddonGivesUp
    <3>2. \E to \in {"addon", "unpack", "undo"} : pc' = [pc EXCEPT ![p] = to]
      BY <2>1, <2>2, <3>1
      DEF NextAddon, NextAddonFails, Unpack, UnpackFails, UndoAddon, UndoAddonGivesUp
    <3>3. job[p].op = "addons" /\ job'[p].op = "addons" /\ result' = result
      <4>1. Next
        BY <2>2 DEF Next, AddonsStep
      <4>2. job'[p] \in AddonsJobs
        BY <1>1, <3>2, <4>1, NextControl DEF JobOfStep
      <4>3. result' = result
        BY <2>2 DEF NextAddon, NextAddonFails, Unpack, UnpackFails, UndoAddon,
           UndoAddonGivesUp
      <4>4. QED
        BY <3>1, <4>2, <4>3 DEF AddonsJobs
    <3>4. PICK to \in {"addon", "unpack", "undo"} : pc' = [pc EXCEPT ![p] = to]
      BY <3>2
    <3>5. pc[p] \in Ongoing \ Installed /\ to \in Ongoing \ Installed
      BY <3>1, <3>4 DEF Ongoing, Steps, Installed
    <3>6. TypeOK /\ result' = result /\ job[p].op \notin {"fetch", "remove"}
          /\ job'[p].op \notin {"fetch", "remove"}
      BY <1>1, <3>2, <3>3
    <3>7. QED
      BY <3>4, <3>5, <3>6, OthersGoOn
  <2>3. CASE NeedsUpdate(p) \/ DownloadOne(p) \/ CopyFile(p) \/ DownloadFails(p)
    <3>1. job[p] \in GeoIPJobs /\ pc[p] \in {"age", "download", "copy", "open"}
      BY <1>1, <2>3 DEF JobOfStep, NeedsUpdate, DownloadOne, CopyFile, DownloadFails
    <3>2. /\ \E to \in {"age", "download", "copy", "open"} : pc' = [pc EXCEPT ![p] = to]
          /\ result' = result
      BY <1>1, <2>3, <3>1
      DEF NeedsUpdate, DownloadOne, CopyFile, DownloadFails, Return
    <3>3. job[p].op = "geoip" /\ job'[p].op = "geoip"
      <4>1. job[p].op = "geoip"
        BY <3>1 DEF GeoIPJobs
      <4>2. job' = job \/ \E r \in Repos : job' = [job EXCEPT ![p].url = r]
        BY <1>1, <2>3, <3>1 DEF NeedsUpdate, DownloadOne, CopyFile, DownloadFails, Return
      <4>3. \A r \in Repos : [job[p] EXCEPT !.url = r].op = "geoip"
        BY <3>1 DEF GeoIPJobs
      <4>4. QED
        BY <1>1, <4>1, <4>2, <4>3
    <3>4. PICK to \in {"age", "download", "copy", "open"} : pc' = [pc EXCEPT ![p] = to]
      BY <3>2
    <3>5. pc[p] \in Ongoing \ Installed /\ to \in Ongoing \ Installed
      BY <3>1, <3>4 DEF Ongoing, Steps, Installed
    <3>6. TypeOK /\ result' = result /\ job[p].op \notin {"fetch", "remove"}
          /\ job'[p].op \notin {"fetch", "remove"}
      BY <1>1, <3>2, <3>3
    <3>7. QED
      BY <3>4, <3>5, <3>6, OthersGoOn
  <2>4. QED
    BY <2>2, <2>3
<1>4. QED
  BY <1>1, <1>2, <1>3, Stutters

(* The steps that are Installer's. *)

LEMMA Begins ==
  ASSUME OneAtATime, OneIInv, NEW p \in Procs, NEW j, NEW step \in Ongoing \ Installed,
         Begin(p, j, step), NEW vs \in {{}} \cup {{v} : v \in Versions},
         \A v \in Versions :
           v \in vs <=> /\ j.op \in {"fetch", "remove"} /\ j.v = v
                        /\ j.op = "fetch" => j.replace
  PROVE  Abs!Begin(vs)
<1>1. pc \in [Procs -> Steps] /\ job \in [Procs -> Jobs \cup {None}]
      /\ result \in [Procs -> Versions \cup {None, "ok", "error"}] /\ hurt \subseteq Procs
  BY DEF OneIInv, TypeOK
<1>2. /\ pc'[p] = step /\ job'[p] = j /\ result'[p] = None
      /\ ~Busy(p) /\ UNCHANGED <<disk, cut, served>>
  BY <1>1 DEF Begin, Goto
<1>3. Busy(p)' = TRUE /\ Busy(p) = FALSE
  BY <1>2 DEF Busy, Ongoing
<1>4. AbsWorking = FALSE /\ AbsWorking' = TRUE /\ AbsAnswer' = {}
  BY <1>2, <1>3, OneView
<1>5. AbsLeave' = vs
  <2>1. \A v \in Versions : Removes(p, v)' <=> v \in vs
    BY <1>2, <1>3 DEF Removes
  <2>2. vs \subseteq Versions
    OBVIOUS
  <2>3. QED
    BY <2>1, <2>2, OneView
<1>6. AbsMade' = AbsMade
  <2>1. \A v \in Versions : ~Made(p, v) /\ ~Made(p, v)'
    BY <1>2 DEF Made, At, Busy, Installed, Ongoing
  <2>2. QED
    BY <2>1, OneView
<1>7. AbsInstall' = AbsInstall /\ AbsActive' = AbsActive
  BY <1>2 DEF AbsInstall, State, AbsActive, Has, Whole
<1>8. AbsMarked' = AbsMarked
  BY <1>2 DEF AbsMarked
<1>9. AbsHurt' = FALSE
  <2>1. hurt' = hurt \ {p} /\ \A q \in Procs : q = p
    BY DEF Begin, OneAtATime
  <2>2. QED
    BY <1>1, <2>1 DEF AbsHurt
<1>10. QED
  BY <1>2, <1>4, <1>5, <1>6, <1>7, <1>8, <1>9 DEF Abs!Begin

(* Whoever returns has nothing left to take away or to hand out. *)
LEMMA Returns ==
  ASSUME OneAtATime, TypeOK, NEW p \in Procs, Busy(p), NEW res, Return(p, res), res # None
  PROVE  /\ AbsWorking = TRUE /\ AbsWorking' = FALSE /\ AbsLeave' = {} /\ AbsMade' = {}
         /\ AbsAnswer' = {res}
<1>1. pc \in [Procs -> Steps] /\ job \in [Procs -> Jobs \cup {None}]
      /\ result \in [Procs -> Versions \cup {None, "ok", "error"}]
  BY DEF TypeOK
<1>2. pc'[p] = "returned" /\ result'[p] = res
  BY <1>1 DEF Return, Goto
<1>3. Busy(p)' = FALSE /\ Busy(p) = TRUE
  BY <1>2 DEF Busy
<1>4. \A v \in Versions : ~Removes(p, v)' /\ ~Made(p, v)'
  BY <1>2, <1>3 DEF Removes, Made, At, Installed
<1>5. QED
  BY <1>2, <1>3, <1>4, OneView

LEMMA Ends ==
  ASSUME OneAtATime, TypeOK, NEW p \in Procs, Busy(p), NEW res, Return(p, res),
         res # None, hurt \subseteq hurt', SameSettings
  PROVE  Abs!End /\ AbsAnswer' = {res}
<1>1. AbsHurt' \in {AbsHurt, TRUE} /\ AbsMarked' = AbsMarked
  BY MarkedKept DEF AbsHurt
<1>2. QED
  BY <1>1, Returns DEF Abs!End

LEMMA Refuses ==
  ASSUME OneAtATime, OneIInv, NEW p \in Procs, Busy(p), pc[p] \notin Installed,
         Return(p, "error"), KeepsInsts, KeepsCut, served' = served,
         hurt \subseteq hurt'
  PROVE  Abs!Refuse
<1>1. Abs!Spoil({}) /\ AbsActive' = AbsActive
  BY Spoils, ActiveKept DEF KeepsInsts, KeepsCut
<1>2. Abs!End /\ AbsAnswer' = {"error"}
  BY Ends, CacheAssumption DEF OneIInv, KeepsInsts
<1>3. {} \in SUBSET Abs!Going /\ served' = served \ {}
  OBVIOUS
<1>4. QED
  BY <1>1, <1>2, <1>3, NothingMade DEF Abs!Refuse

(* A Remove that gives up leaves the install spoilt. *)
LEMMA RemoveRefuses ==
  ASSUME OneAtATime, OneIInv, NEW p \in Procs, RemoveFails(p)
  PROVE  Abs!Refuse
<1>1. /\ TypeOK /\ JobOfStep /\ pc[p] = "remove" /\ job[p] \in RemoveJobs
      /\ Return(p, "error") /\ disk' = disk /\ hurt' = hurt \cup {p}
  BY DEF OneIInv, RemoveFails, JobOfStep
<1>2. PICK v \in Versions : v = job[p].v
  BY <1>1 DEF RemoveJobs
<1>3. served' = served \ {v} /\ cut' = cut \cup Used({Inst(v)})
  BY <1>2 DEF RemoveFails
<1>4. SameSettings /\ \A w \in Versions : Same(Inst(w))
  BY <1>1 DEF SameSettings, Same, Has
<1>5. Busy(p) /\ AbsMade = {} /\ Removes(p, v)
  BY <1>1, <1>2, NothingMade DEF Busy, Installed, Removes, RemoveJobs
<1>6. Abs!End /\ AbsAnswer' = {"error"}
  BY <1>1, <1>4, <1>5, Ends, CacheAssumption
<1>7. Has(Inst(v), "dir") => Inst(v) \in cut'
  <2>1. Has(Inst(v), "dir") => In(Inst(v), "dir") \in Entries(Inst(v))
    BY DEF Has, Entries, In
  <2>2. QED
    BY <1>3, <2>1 DEF Used
<1>8. \A w \in Versions \ {v} : Inst(w) \in cut' <=> Inst(w) \in cut
  BY <1>3, MarkFacts DEF Used
<1>9. Abs!Spoil({v})
  BY <1>4, <1>7, <1>8, Spoils
<1>10. {v} \in SUBSET Abs!Going
  BY <1>5, OneView DEF Abs!Going
<1>11. AbsHurt' = TRUE /\ AbsActive' = AbsActive
  BY <1>1, <1>4, ActiveKept DEF AbsHurt
<1>12. QED
  BY <1>3, <1>5, <1>6, <1>9, <1>10, <1>11 DEF Abs!Refuse

LEMMA Finishes ==
  ASSUME OneAtATime, OneIInv, NEW p \in Procs, Busy(p), pc[p] \notin Installed,
         Return(p, "ok"), KeepsInsts, KeepsCut, served' = served,
         hurt \subseteq hurt', job[p].op \notin {"fetch", "remove"}
  PROVE  Abs!Finish
<1>1. AbsInstall' = AbsInstall /\ AbsActive' = AbsActive
  BY InstallKept, ActiveKept DEF KeepsInsts
<1>2. Abs!End /\ AbsAnswer' = {"ok"}
  BY Ends, CacheAssumption DEF OneIInv, KeepsInsts
<1>3. AbsLeave = {}
  BY OneView DEF Removes
<1>4. QED
  BY <1>1, <1>2, <1>3, NothingMade DEF Abs!Finish

LEMMA HandsOutFound ==
  ASSUME OneAtATime, OneIInv, NEW p \in Procs, FindInstalled(p)
  PROVE  Abs!HandOut(job[p].v)
<1> DEFINE v == job[p].v
<1>1. /\ TypeOK /\ JobOfStep /\ DirInv /\ InstInv /\ FlagInv /\ hurt' = hurt
      /\ pc[p] = "scan" /\ v # None /\ ~job[p].replace /\ Has(Inst(v), "ver")
      /\ Return(p, v) /\ served' = served \cup {v} /\ UNCHANGED <<disk, cut>>
  BY DEF OneIInv, FindInstalled
<1>2. v \in Versions /\ job[p].op = "fetch"
  BY <1>1 DEF JobOfStep, FetchJobs
<1>3. Busy(p) /\ pc[p] \notin Installed
  BY <1>1 DEF Busy, Installed
<1>4. Abs!End /\ AbsAnswer' = {v}
  BY <1>1, <1>2, <1>3, Ends, CacheAssumption DEF SameSettings
<1>5. AbsMade = {} /\ AbsLeave = {}
  BY <1>1, <1>2, <1>3, NothingMade, OneView DEF Removes
<1>6. AbsInstall' = AbsInstall /\ AbsActive' = AbsActive
  BY <1>1 DEF AbsInstall, State, AbsActive, Has, Whole
<1>7. State(v) \in {"whole", "spoilt"}
  <2>1. Has(Inst(v), "dir")
    BY <1>1, <1>2, PlaceFacts DEF DirInv, Marks
  <2>2. ~Removing(v)
    BY <1>1 DEF Removing, At, OneAtATime
  <2>3. Inst(v) \in cut \/ Whole(Inst(v))
    BY <1>1, <1>2, <2>1, <2>2 DEF InstInv
  <2>4. QED
    BY <1>1, <2>1, <2>3 DEF State
<1>8. AbsInstall[v] = State(v)
  BY <1>2 DEF AbsInstall
<1>9. AbsMarked \/ AbsHurt'
  <2>1. Has(Inst(v), "dir")
    BY <1>1, <1>2, PlaceFacts DEF DirInv, Marks
  <2>2. Flag \in disk \/ Unmarked(p)
    BY <1>1, <1>2, <2>1 DEF FlagInv, At
  <2>3. QED
    BY <1>1, <2>2 DEF Unmarked, AbsMarked, AbsHurt
<1>10. QED
  BY <1>1, <1>4, <1>5, <1>6, <1>7, <1>8, <1>9 DEF Abs!HandOut

LEMMA HandsOutMade ==
  ASSUME OneAtATime, OneIInv, NEW p \in Procs, WriteConfigJSON(p)
  PROVE  Abs!HandOut(job[p].v)
<1> DEFINE v == job[p].v
<1>1. /\ TypeOK /\ JobOfStep /\ DirInv /\ MadeInv /\ FlagInv /\ hurt' = hurt
      /\ pc[p] = "config"
      /\ disk' = (disk \ Configs) \cup {Config(v)}
      /\ Return(p, v) /\ served' = served \cup {v}
      /\ cut' = cut \ {Active(w) : w \in Versions}
  BY DEF OneIInv, WriteConfigJSON
<1>2. v \in Versions /\ Busy(p)
  BY <1>1 DEF JobOfStep, OfVersion, Installed, Busy
<1>3. Abs!End /\ AbsAnswer' = {v}
  <2>1. AbsWorking = TRUE /\ AbsWorking' = FALSE /\ AbsLeave' = {} /\ AbsMade' = {}
        /\ AbsAnswer' = {v}
    BY <1>1, <1>2, Returns, CacheAssumption
  <2>2. AbsMarked' = AbsMarked /\ AbsHurt' = AbsHurt
    BY <1>1, <1>2, DistinctEntries DEF AbsMarked, AbsHurt, Configs
  <2>3. QED
    BY <2>1, <2>2 DEF Abs!End
<1>4. AbsMade = {v}
  BY <1>1, <1>2, OneView DEF Made, At, Installed
<1>5. AbsActive' = {v}
  BY <1>1, <1>2, DistinctEntries DEF AbsActive, Configs
<1>6. AbsInstall' = AbsInstall
  <2>1. \A w \in Versions : Same(Inst(w))
    BY <1>1, SettingsSteps, PlaceFacts DEF SamePlaces
  <2>2. KeepsCut
    BY <1>1, MarkFacts DEF KeepsCut
  <2>3. QED
    BY <2>1, <2>2, InstallKept
<1>7. State(v) \in {"whole", "spoilt"}
  <2>1. Whole(Inst(v)) /\ Has(Inst(v), "ver")
    BY <1>1 DEF MadeInv, At, Installed
  <2>2. Has(Inst(v), "dir")
    BY <1>1, <1>2, <2>1, PlaceFacts DEF DirInv, Marks
  <2>3. QED
    BY <2>1, <2>2 DEF State
<1>8. AbsInstall[v] = State(v)
  BY <1>2 DEF AbsInstall
<1>9. AbsMarked \/ AbsHurt'
  BY <1>1 DEF FlagInv, At, Unmarked, AbsMarked, AbsHurt
<1>10. QED
  BY <1>1, <1>3, <1>4, <1>5, <1>6, <1>7, <1>8, <1>9 DEF Abs!HandOut

(* It is handed out too when config.json could not be written. *)
LEMMA HandsOutUnnamed ==
  ASSUME OneAtATime, OneIInv, NEW p \in Procs, WriteConfigFails(p)
  PROVE  Abs!HandOut(job[p].v)
<1> DEFINE v == job[p].v
<1>1. /\ TypeOK /\ JobOfStep /\ DirInv /\ MadeInv
      /\ pc[p] \in {"truncate", "config"} /\ disk' = disk
      /\ Return(p, v) /\ served' = served \cup {v} /\ hurt' = hurt \cup {p}
  BY DEF OneIInv, WriteConfigFails
<1>2. v \in Versions /\ Busy(p)
  BY <1>1 DEF JobOfStep, OfVersion, Installed, Busy
<1>3. SameSettings /\ \A w \in Versions : Same(Inst(w))
  BY <1>1 DEF SameSettings, Same, Has
<1>4. Abs!End /\ AbsAnswer' = {v}
  BY <1>1, <1>2, <1>3, Ends, CacheAssumption
<1>5. AbsMade = {v}
  BY <1>1, <1>2, OneView DEF Made, At, Installed
<1>6. KeepsCut
  <2>1. cut' = cut \cup IF pc[p] = "truncate" THEN {Active(v)}
                        ELSE {Active(w) : w \in Versions}
    BY DEF WriteConfigFails
  <2>2. QED
    BY <1>2, <2>1, MarkFacts DEF KeepsCut
<1>7. AbsInstall' = AbsInstall /\ AbsActive' = AbsActive
  BY <1>3, <1>6, InstallKept, ActiveKept
<1>8. AbsInstall[v] \in {"whole", "spoilt"}
  <2>1. Whole(Inst(v)) /\ Has(Inst(v), "ver")
    BY <1>1 DEF MadeInv, At, Installed
  <2>2. Has(Inst(v), "dir")
    BY <1>1, <1>2, <2>1, PlaceFacts DEF DirInv, Marks
  <2>3. QED
    BY <1>2, <2>1, <2>2 DEF State, AbsInstall
<1>9. AbsHurt' = TRUE
  BY <1>1 DEF AbsHurt
<1>10. QED
  BY <1>1, <1>4, <1>5, <1>7, <1>8, <1>9 DEF Abs!HandOut

LEMMA NoEntry ==
  ASSUME NEW place, Entries(place) = {}, disk' = disk
  PROVE  ~Has(place, "dir") /\ ~Has(place, "dir")'
BY DEF Has, Entries, In

(* RemoveAll of an install, up to its return. *)
LEMMA Withdraws ==
  ASSUME OneAtATime, OneIInv, NEW p \in Procs, RemoveOld(p) \/ Remove(p),
         pc'[p] # "returned", NEW v \in Versions, job[p].v = v
  PROVE  Abs!Withdraw(v)
<1>1. /\ TypeOK /\ JobOfStep /\ DirInv
      /\ pc \in [Procs -> Steps] /\ job \in [Procs -> Jobs \cup {None}]
  BY DEF OneIInv, TypeOK
<1>2. /\ pc[p] \in {"unlink", "remove"} /\ pc'[p] \in {"unlink", "remove", "clear"}
      /\ UNCHANGED <<job, result, hurt>> /\ served' = served \ {v}
  BY <1>1 DEF RemoveOld, Remove, Return, Goto
<1>3. /\ v \in Versions /\ Busy(p) /\ Busy(p)' /\ job[p].op \in {"fetch", "remove"}
      /\ job[p].op = "fetch" => job[p].replace
  BY <1>1, <1>2 DEF JobOfStep, OfVersion, FetchJobs, RemoveJobs, Busy
<1>4. \A w \in Versions : ~Made(p, w) /\ ~Made(p, w)'
  BY <1>2 DEF Made, At, Installed
<1>5. /\ AbsWorking = TRUE /\ AbsWorking' = TRUE /\ AbsMade = {} /\ AbsMade' = {}
      /\ AbsLeave' = AbsLeave /\ v \in AbsLeave /\ AbsAnswer' = AbsAnswer
  <2>1. Busy(p) = TRUE /\ Busy(p)' = TRUE
    BY <1>3 DEF Busy
  <2>2. \A w \in Versions : Removes(p, w)' <=> Removes(p, w)
    BY <1>2, <2>1 DEF Removes
  <2>3. Removes(p, v)
    BY <1>3 DEF Removes
  <2>4. QED
    BY <1>2, <1>3, <1>4, <2>1, <2>2, <2>3, OneView
<1>6. Abs!Shrink(v) /\ AbsActive' = AbsActive /\ AbsMarked' = AbsMarked
  <2>1. CASE Unlink(Entries(Inst(v))) /\ cut' = cut
    BY <1>1, <1>3, <2>1, Shrinks, ActiveKept, MarkedKept DEF KeepsCut
  <2>2. CASE Entries(Inst(v)) = {} /\ disk' = disk /\ Repaired(v)
    <3>1. ~Has(Inst(v), "dir") /\ ~Has(Inst(v), "dir")'
      BY <2>2, NoEntry
    <3>2. State(v)' = State(v)
      BY <3>1 DEF State
    <3>3. ASSUME NEW w \in Versions, w # v PROVE State(w)' = State(w)
      <4>1. Inst(w) \in cut' <=> Inst(w) \in cut
        BY <1>3, <2>2, <3>3, MarkFacts DEF Repaired
      <4>2. Same(Inst(w))
        BY <2>2 DEF Same, Has
      <4>3. QED
        BY <4>1, <4>2, StateKept
    <3>4. AbsInstall' = AbsInstall /\ AbsInstall = [AbsInstall EXCEPT ![v] = AbsInstall[v]]
      BY <3>2, <3>3 DEF AbsInstall
    <3>5. AbsActive' = AbsActive /\ AbsMarked' = AbsMarked
      BY <2>2 DEF AbsActive, AbsMarked
    <3>6. QED
      BY <3>4, <3>5 DEF Abs!Shrink, Abs!Less
  <2>3. QED
    BY <1>1, <2>1, <2>2 DEF RemoveOld, Remove, Return, Goto
<1>7. AbsHurt' = AbsHurt
  BY <1>2 DEF AbsHurt
<1>8. QED
  BY <1>2, <1>5, <1>6, <1>7 DEF Abs!Withdraw

LEMMA RemoveReturns ==
  ASSUME OneAtATime, OneIInv, NEW p \in Procs, Remove(p), pc'[p] = "returned",
         NEW v \in Versions, job[p].v = v
  PROVE  Abs!Finish
<1>1. /\ TypeOK /\ JobOfStep /\ pc \in [Procs -> Steps]
  BY DEF OneIInv, TypeOK
<1>2. /\ pc[p] = "remove" /\ Entries(Inst(v)) = {} /\ Return(p, "ok") /\ Repaired(v)
      /\ disk' = disk /\ served' = served \ {v} /\ hurt' = hurt
  BY <1>1 DEF Remove
<1>3. v \in Versions /\ Busy(p) /\ pc[p] \notin Installed /\ job[p].op = "remove"
  BY <1>1, <1>2 DEF JobOfStep, RemoveJobs, Busy, Installed
<1>4. AbsLeave = {v}
  BY <1>3, OneView DEF Removes
<1>5. ~Has(Inst(v), "dir") /\ ~Has(Inst(v), "dir")'
  BY <1>2, NoEntry
<1>6. State(v) = "absent" /\ State(v)' = "absent"
  BY <1>5 DEF State
<1>7. AbsInstall' = AbsInstall /\ AbsActive' = AbsActive
  <2>1. ASSUME NEW w \in Versions, w # v PROVE State(w)' = State(w)
    <3>1. Inst(w) \in cut' <=> Inst(w) \in cut
      BY <1>2, <1>3, <2>1, MarkFacts DEF Repaired
    <3>2. Same(Inst(w))
      BY <1>2 DEF Same, Has
    <3>3. QED
      BY <3>1, <3>2, StateKept
  <2>2. AbsInstall' = AbsInstall
    BY <1>6, <2>1 DEF AbsInstall
  <2>3. QED
    BY <1>2, <2>2 DEF AbsActive
<1>8. Abs!End /\ AbsAnswer' = {"ok"}
  BY <1>1, <1>2, <1>3, Ends, CacheAssumption DEF SameSettings
<1>9. AbsInstall[v] = "absent"
  BY <1>3, <1>6 DEF AbsInstall
<1>10. QED
  BY <1>2, <1>3, <1>4, <1>7, <1>8, <1>9, NothingMade DEF Abs!Finish

(* The wipe of the cache: one entry goes, of an install or of something else. *)
LEMMA Empties ==
  ASSUME OneAtATime, OneIInv, NEW p \in Procs, Wipe(p)
  PROVE  Abs!Empty
<1>1. /\ TypeOK /\ JobOfStep /\ DirInv /\ FlagInv
      /\ pc[p] = "wipe" /\ served' = {} /\ UNCHANGED <<job, result, hurt>>
      /\ pc \in [Procs -> Steps]
  BY DEF OneIInv, TypeOK, Wipe
<1>2. AbsMarked = FALSE /\ AbsMarked' = FALSE /\ AbsHurt' = AbsHurt
  <2>1. Flag \notin disk /\ disk' \subseteq disk
    BY <1>1 DEF FlagInv, At, Wipe, Unlink
  <2>2. QED
    BY <1>1, <2>1 DEF AbsMarked, AbsHurt
<1>3. /\ pc'[p] \in {"wipe", "scan"}
  BY <1>1 DEF Wipe, Goto
<1>4. /\ Busy(p) = TRUE /\ Busy(p)' = TRUE
      /\ \A v \in Versions : /\ Removes(p, v)' <=> Removes(p, v)
                             /\ ~Made(p, v) /\ ~Made(p, v)'
  BY <1>1, <1>3 DEF Busy, Removes, Made, At, Installed
<1>5. /\ AbsWorking = TRUE /\ AbsWorking' = TRUE /\ AbsMade = {} /\ AbsMade' = {}
      /\ AbsLeave' = AbsLeave /\ AbsAnswer' = AbsAnswer
  BY <1>1, <1>4, OneView
<1>6. ASSUME NEW e \in disk, e[3] = "dir" => Entries(<<e[1], e[2]>>) = {e},
             disk' = disk \ {e}, cut' = cut
      PROVE  Abs!Empty
  <2>0. KeepsCut
    BY <1>6 DEF KeepsCut
  <2>1. ASSUME NEW v \in Versions, NEW f \in Marks, e = In(Inst(v), f)
        PROVE  Abs!Empty
    <3>1. e \in Entries(Inst(v))
      BY <2>1, <1>6 DEF Entries, In
    <3>2. Unlink(Entries(Inst(v)))
      BY <3>1, <1>6 DEF Unlink
    <3>3. Abs!Shrink(v) /\ AbsActive' = AbsActive
      BY <1>1, <2>0, <3>2, Shrinks, ActiveKept
    <3>4. QED
      BY <1>1, <1>2, <1>5, <3>3 DEF Abs!Empty
  <2>2. ASSUME \A v \in Versions, f \in Marks : e # In(Inst(v), f)
        PROVE  Abs!Empty
    <3>1. ASSUME NEW v \in Versions PROVE Same(Inst(v))
      <4>1. \A f : e # In(Inst(v), f)
        <5> SUFFICES ASSUME NEW f, e = In(Inst(v), f) PROVE FALSE
          OBVIOUS
        <5>1. e \in Entries(Inst(v)) /\ e[3] = f
          BY <1>6 DEF Entries, In
        <5>2. f \in Marks
          BY <1>1, <5>1, EntryOfPlace, PlaceFacts
        <5>3. QED
          BY <2>2, <5>2
      <4>2. QED
        BY <1>6, <4>1 DEF Same, Has
    <3>2. AbsInstall' = AbsInstall
      BY <2>0, <3>1, InstallKept
    <3>3. AbsActive' \in SUBSET AbsActive
      BY <1>6 DEF AbsActive
    <3>4. QED
      BY <1>1, <1>2, <1>5, <3>2, <3>3 DEF Abs!Empty
  <2>3. QED
    BY <2>1, <2>2
<1>7. CASE disk = {} /\ disk' = disk
  <2>1. \A v \in Versions : ~Has(Inst(v), "dir") /\ ~Has(Inst(v), "dir")'
    BY <1>7 DEF Has
  <2>2. AbsInstall' = AbsInstall /\ AbsActive' = AbsActive
    BY <1>7, <2>1 DEF AbsInstall, State, AbsActive
  <2>3. QED
    BY <1>1, <1>2, <1>5, <2>2 DEF Abs!Empty
<1>8. QED
  BY <1>6, <1>7 DEF Wipe, Unlink

(* The rename makes an install of it, or fails. *)
LEMMA Installs ==
  ASSUME OneAtATime, OneIInv, NEW p \in Procs, Rename(p), NEW v \in Versions, job[p].v = v
  PROVE  Abs!Install(v) \/ UNCHANGED Abs!vars
<1>1. /\ TypeOK /\ JobOfStep /\ DirInv /\ MadeInv
      /\ pc[p] = "rename" /\ served' = served /\ UNCHANGED <<job, result, hurt>>
      /\ pc \in [Procs -> Steps] /\ job[p] \in FetchJobs
  BY DEF OneIInv, TypeOK, Rename, JobOfStep, OfVersion, Installing
<1>2. CASE UNCHANGED <<disk, cut>> /\ Goto(p, "abandon")
  <2>1. KeepsInsts /\ KeepsCut
    BY <1>1, <1>2, ElsewhereSteps DEF KeepsCut
  <2>2. GoesOn(p)
    BY <1>1, <1>2, FetchGoesOn DEF Goto, Ongoing, Steps, Installed
  <2>3. QED
    BY <1>1, <2>1, <2>2, Stutters
<1>3. CASE /\ Has(Tmp(v), "dir") /\ Entries(Inst(v)) = {}
           /\ disk' = (disk \ Entries(Tmp(v)))
                        \cup {In(Inst(v), e[3]) : e \in Entries(Tmp(v))}
           /\ Repaired(v) /\ Goto(p, "chmod")
  <2>1. /\ SameSettings
        /\ \A other \in (Dirs \cup {MMDB}) \ {Tmp(v), Inst(v)} : Same(other)
        /\ \A f : Has(Inst(v), f)' <=> Has(Tmp(v), f)
    BY <1>1, <1>3, RenameStep
  <2>2. Whole(Tmp(v)) /\ Has(Tmp(v), "dir") /\ Has(Tmp(v), "ver")
    BY <1>1 DEF MadeInv, At
  <2>3. State(v)' = "whole"
    <3>1. Whole(Inst(v))' /\ Has(Inst(v), "dir")' /\ Has(Inst(v), "ver")'
      BY <2>1, <2>2 DEF Whole
    <3>2. Inst(v) \notin cut'
      BY <1>3 DEF Repaired
    <3>3. QED
      BY <3>1, <3>2 DEF State
  <2>4. State(v) = "absent"
    BY <1>3 DEF Entries, Has, In, State
  <2>5. ASSUME NEW w \in Versions, w # v PROVE State(w)' = State(w)
    <3>1. Inst(w) \in cut' <=> Inst(w) \in cut
      BY <1>3, <2>5, MarkFacts DEF Repaired
    <3>2. Same(Inst(w))
      BY <2>1, <2>5, PlaceFacts
    <3>3. QED
      BY <3>1, <3>2, StateKept
  <2>6. AbsInstall' = [AbsInstall EXCEPT ![v] = "whole"] /\ AbsInstall[v] = State(v)
    BY <2>3, <2>5 DEF AbsInstall
  <2>7. /\ Busy(p) = TRUE /\ Busy(p)' = TRUE
        /\ \A w \in Versions : /\ Removes(p, w)' <=> Removes(p, w)
                               /\ ~Made(p, w) /\ (Made(p, w)' <=> w = v)
    BY <1>1, <1>3 DEF Goto, Busy, Removes, Made, At, Installed
  <2>8. /\ AbsWorking = TRUE /\ AbsWorking' = TRUE /\ AbsMade = {} /\ AbsMade' = {v}
        /\ AbsLeave' = AbsLeave /\ AbsAnswer' = AbsAnswer
    BY <1>1, <2>7, OneView
  <2>9. AbsActive' = AbsActive /\ AbsMarked' = AbsMarked /\ AbsHurt' = AbsHurt
    BY <1>1, <2>1, ActiveKept, MarkedKept DEF AbsHurt
  <2>10. QED
    BY <1>1, <2>4, <2>6, <2>8, <2>9 DEF Abs!Install
<1>4. QED
  BY <1>1, <1>2, <1>3 DEF Rename

(* What follows the rename leaves the installs as they are. *)
LEMMA Completes ==
  ASSUME OneAtATime, OneIInv, NEW p \in Procs,
         ChmodExec(p) \/ TouchFlag(p) \/ TruncateConfig(p)
  PROVE  Abs!Mark \/ Abs!Deactivate \/ UNCHANGED Abs!vars
<1>1. /\ TypeOK /\ JobOfStep /\ DirInv /\ MadeInv
      /\ pc[p] \in {"chmod", "flag", "truncate"}
      /\ UNCHANGED <<job, result, served, hurt>>
      /\ cut' = cut \/ cut' = cut \ {FlagMark}
      /\ pc \in [Procs -> Steps] /\ job[p] \in FetchJobs /\ job[p].v \in Versions
  BY DEF OneIInv, TypeOK, ChmodExec, TouchFlag, TruncateConfig, JobOfStep, OfVersion,
     Installed
<1>2. GoesOn(p)
  <2>1. \E to \in Installed : pc' = [pc EXCEPT ![p] = to]
    BY DEF ChmodExec, TouchFlag, TruncateConfig, Goto, Installed
  <2>2. QED
    BY <1>1, <2>1, FetchGoesOn DEF Ongoing, Steps, Installed
<1>3. /\ AbsWorking = TRUE /\ AbsWorking' = AbsWorking /\ AbsMade # {}
      /\ AbsLeave' = AbsLeave /\ AbsMade' = AbsMade /\ AbsAnswer' = AbsAnswer
      /\ AbsHurt' = AbsHurt
  <2>1. Made(p, job[p].v)
    BY <1>1 DEF Made, At, Installed
  <2>2. QED
    BY <1>1, <1>2, <2>1, GoingOn, OneView DEF AbsHurt
<1>4. KeepsCut
  BY <1>1, MarkFacts DEF KeepsCut
<1>5. CASE ChmodExec(p)
  <2>1. PICK v \in Versions : v = job[p].v
    BY <1>1
  <2>2. SameBut(Inst(v))
    BY <1>1, <1>5, <2>1, InstSteps
  <2>3. State(v)' = State(v)
    <3>1. Whole(Inst(v)) /\ Has(Inst(v), "ver") /\ Has(Inst(v), "dir")
      <4>1. Whole(Inst(v)) /\ Has(Inst(v), "ver")
        BY <1>1, <1>5, <2>1 DEF MadeInv, At, Installed, ChmodExec
      <4>2. QED
        BY <1>1, <4>1, PlaceFacts DEF DirInv, Marks
    <3>2. disk \subseteq disk'
      BY <1>5 DEF ChmodExec
    <3>3. Whole(Inst(v))' /\ Has(Inst(v), "ver")' /\ Has(Inst(v), "dir")'
      BY <3>1, <3>2 DEF Whole, Has
    <3>4. QED
      BY <1>4, <2>1, <3>1, <3>3 DEF State, KeepsCut
  <2>4. \A w \in Versions \ {v} : State(w)' = State(w)
    BY <1>4, <2>2, StateKept, PlaceFacts DEF SameBut, KeepsCut
  <2>5. AbsInstall' = AbsInstall /\ AbsActive' = AbsActive /\ AbsMarked' = AbsMarked
    BY <2>2, <2>3, <2>4, ActiveKept, MarkedKept DEF AbsInstall, SameBut
  <2>6. QED
    BY <1>1, <1>3, <2>5 DEF Abs!vars
<1>6. CASE TouchFlag(p) \/ TruncateConfig(p)
  <2>1. AbsInstall' = AbsInstall
    BY <1>1, <1>4, <1>6, SettingsSteps, InstallKept, PlaceFacts DEF SamePlaces
  <2>2. CASE TouchFlag(p)
    <3>1. disk' = disk \cup {Flag}
      BY <2>2 DEF TouchFlag
    <3>2. AbsActive' = AbsActive
      BY <3>1, DistinctEntries DEF AbsActive, Configs
    <3>3. AbsMarked' = TRUE
      BY <3>1 DEF AbsMarked
    <3>4. QED
      BY <1>1, <1>3, <2>1, <3>2, <3>3 DEF Abs!Mark
  <2>3. CASE TruncateConfig(p)
    <3>1. \A v \in Versions : Config(v) \in Configs /\ Config(v) # Config(None)
      BY CacheAssumption, DistinctEntries DEF Configs
    <3>2. AbsActive' = {}
      BY <2>3, <3>1 DEF TruncateConfig, AbsActive
    <3>3. AbsMarked' = AbsMarked
      BY <2>3, DistinctEntries, CacheAssumption DEF TruncateConfig, AbsMarked, Configs
    <3>4. QED
      BY <1>1, <1>3, <2>1, <3>2, <3>3 DEF Abs!Deactivate
  <2>4. QED
    BY <1>6, <2>2, <2>3
<1>7. QED
  BY <1>5, <1>6

(* A crash spoils what was being removed. *)
LEMMA Dies ==
  ASSUME OneAtATime, OneIInv, NEW p \in Procs, Crash(p)
  PROVE  Abs!Die
<1>1. /\ TypeOK /\ JobOfStep /\ InstInv /\ FlagInv
      /\ Busy(p) /\ Goto(p, "idle") /\ UNCHANGED <<disk, result, served, hurt>>
      /\ pc \in [Procs -> Steps]
  BY DEF OneIInv, TypeOK, Crash
<1>2. Busy(p) = TRUE /\ Busy(p)' = FALSE
  BY <1>1 DEF Busy, Goto
<1>3. Abs!End /\ AbsAnswer' = AbsAnswer
  <2>1. \A v \in Versions : ~Removes(p, v)' /\ ~Made(p, v)'
    BY <1>1, <1>2 DEF Removes, Made, At, Installed, Goto
  <2>2. AbsMarked' = AbsMarked /\ AbsHurt' = AbsHurt
    BY <1>1 DEF AbsMarked, AbsHurt
  <2>3. QED
    BY <1>1, <1>2, <2>1, <2>2, OneView DEF Abs!End
<1> DEFINE hit == {v \in Versions : Inst(v) \in cut' /\ Inst(v) \notin cut}
           may == {v \in Versions : AbsMade = {} /\ (v \in AbsLeave \/ ~AbsMarked)}
<1>4. cut \subseteq cut' /\ \A v \in Versions : v \in hit =>
        \/ pc[p] = "wipe" \/ (pc[p] \in {"unlink", "remove"} /\ job[p].v = v)
  <2>1. cut \subseteq cut'
    BY DEF Crash
  <2>2. ASSUME NEW v \in Versions, v \in hit, pc[p] # "wipe"
        PROVE  pc[p] \in {"unlink", "remove"} /\ job[p].v = v
    <3>1. pc[p] \in {"unlink", "remove"} => job[p].v \in Versions
      BY <1>1 DEF JobOfStep, OfVersion, RemoveJobs
    <3>2. pc[p] \in {"chmod", "flag", "truncate"} => job[p].v \in Versions
      BY <1>1 DEF JobOfStep, OfVersion, Installed
    <3>3. pc[p] \in {"unpack", "undo"} => job[p].now \in Addons
      BY <1>1 DEF JobOfStep
    <3>4. PICK marks :
            /\ cut' = cut \cup marks
            /\ pc[p] \in {"unlink", "remove"} => marks \subseteq {Inst(job[p].v)}
            /\ pc[p] = "chmod" => marks = {Mode(job[p].v), Active(job[p].v)}
            /\ pc[p] \in {"flag", "truncate"} => marks = {Active(job[p].v)}
            /\ pc[p] = "config" => marks = {Active(w) : w \in Versions}
            /\ pc[p] \in {"unpack", "undo"} => marks \subseteq {Addon(job[p].now)}
            /\ pc[p] = "copy" => marks = {MMDB}
            /\ pc[p] \notin {"wipe", "unlink", "remove", "chmod", "flag", "truncate",
                             "config", "unpack", "undo", "copy"} => marks = {}
      BY <2>2 DEF Crash, Used
    <3>5. Inst(v) \in cut' /\ Inst(v) \notin cut
      BY <2>2
    <3>6. Inst(v) \in marks
      BY <3>4, <3>5
    <3>7. pc[p] \notin {"chmod", "flag", "truncate", "config"}
      BY <3>2, <3>4, <3>6, MarkFacts
    <3>8. pc[p] \notin {"unpack", "undo", "copy"}
      BY <3>3, <3>4, <3>6, MarkFacts
    <3>9. pc[p] \in {"unlink", "remove"} /\ Inst(v) = Inst(job[p].v)
      BY <2>2, <3>4, <3>6, <3>7, <3>8
    <3>10. QED
      BY <3>1, <3>9, MarkFacts
  <2>3. QED
    BY <2>1, <2>2
<1>5. hit \subseteq may
  <2> SUFFICES ASSUME NEW v \in Versions, v \in hit
               PROVE  AbsMade = {} /\ (v \in AbsLeave \/ ~AbsMarked)
    OBVIOUS
  <2>1. CASE pc[p] = "wipe"
    <3>1. pc[p] \notin Installed
      BY <2>1 DEF Installed
    <3>2. QED
      BY <1>1, <2>1, <3>1, NothingMade DEF FlagInv, At, AbsMarked
  <2>2. CASE pc[p] \in {"unlink", "remove"} /\ job[p].v = v
    <3>1. pc[p] \notin Installed
      BY <2>2 DEF Installed
    <3>2. Removes(p, v)
      BY <1>1, <2>2 DEF JobOfStep, OfVersion, FetchJobs, RemoveJobs, Removes
    <3>3. QED
      BY <3>1, <3>2, NothingMade, OneView
  <2>3. QED
    BY <1>4, <2>1, <2>2
<1>6. ASSUME NEW v \in Versions, AbsInstall[v] = "torn" PROVE v \in hit
  <2>1. Has(Inst(v), "dir") /\ Inst(v) \notin cut
        /\ ~(Whole(Inst(v)) /\ Has(Inst(v), "ver"))
    BY <1>6 DEF AbsInstall, State
  <2>2. PICK q \in Procs : pc[q] = "wipe" \/ (pc[q] \in {"unlink", "remove"} /\ job[q].v = v)
    BY <2>1 DEF OneIInv, InstInv, Removing, At
  <2>3. q = p
    BY DEF OneAtATime
  <2>4. In(Inst(v), "dir") \in Entries(Inst(v)) /\ Inst(v) \in Dirs
    BY <2>1, PlaceFacts DEF Has, Entries, In
  <2>5. Inst(v) \in Used(Dirs) /\ Inst(v) \in Used({Inst(v)})
    BY <2>4 DEF Used
  <2>6. Inst(v) \in cut'
    BY <2>2, <2>3, <2>5 DEF Crash
  <2>7. QED
    BY <2>1, <2>6
<1>7. Abs!Spoil(hit)
  <2>1. \A v \in Versions : Same(Inst(v))
    BY <1>1 DEF Same, Has
  <2>2. /\ \A v \in hit : Inst(v) \in cut'
        /\ \A v \in Versions \ hit : Inst(v) \in cut' <=> Inst(v) \in cut
    BY <1>4
  <2>3. hit \in SUBSET Versions
    OBVIOUS
  <2> HIDE DEF hit
  <2>4. QED
    BY <2>1, <2>2, <2>3, Spoils
<1>8. AbsActive' = AbsActive
  BY <1>1 DEF AbsActive
<1>9. may = Abs!Going
  BY DEF Abs!Going
<1> HIDE DEF hit, may
<1>10. QED
  BY <1>1, <1>3, <1>5, <1>6, <1>7, <1>8, <1>9 DEF Abs!Die

(* For every set of versions, addons and files, whatever is listed: with    *)
(* processes that follow one another, fail and crash anywhere, each step of *)
(* the cache is a step of Installer or changes nothing that its users see.  *)
(* (fetch.go:679-790, 930-933)                                              *)
THEOREM CacheImplementsInstaller == ASSUME OneAtATime PROVE Spec => InstallsAtOnce
<1>1. Init => Abs!Init
  <2> SUFFICES ASSUME Init PROVE Abs!Init
    OBVIOUS
  <2>1. \A p \in Procs : pc[p] = "idle" /\ result[p] = None
    BY DEF Init
  <2>2. \A p \in Procs : Busy(p) = FALSE /\ \A v \in Versions : ~Removes(p, v) /\ ~Made(p, v)
    BY <2>1 DEF Busy, Removes, Made, At, Installed
  <2>3. AbsWorking = FALSE /\ AbsLeave = {} /\ AbsMade = {} /\ AbsAnswer = {}
    BY <2>1, <2>2 DEF AbsWorking, AbsLeave, AbsMade, AbsAnswer
  <2>4. AbsInstall = [v \in Versions |-> "absent"] /\ AbsActive = {} /\ served = {}
    BY DEF Init, AbsInstall, State, Has, AbsActive
  <2>5. AbsMarked = FALSE /\ AbsHurt = FALSE
    BY DEF Init, AbsMarked, AbsHurt
  <2>6. QED
    BY <2>3, <2>4, <2>5 DEF Abs!Init
<1>2. OneIInv /\ [Next]_vars => [Abs!Next]_(Abs!vars)
  <2> SUFFICES ASSUME OneIInv, [Next]_vars PROVE [Abs!Next]_(Abs!vars)
    OBVIOUS
  <2>0. TypeOK /\ JobOfStep /\ pc \in [Procs -> Steps] /\ DirInv
    BY DEF OneIInv, TypeOK
  <2>1. ASSUME NEW p \in Procs, NEW j, NEW step \in {"compat", "remove", "addon", "age"},
               Begin(p, j, step), NEW vs \in {{}} \cup {{v} : v \in Versions},
               \A v \in Versions :
                 v \in vs <=> /\ j.op \in {"fetch", "remove"} /\ j.v = v
                              /\ j.op = "fetch" => j.replace
        PROVE  Abs!Next
    <3>1. Abs!Begin(vs)
      BY <2>1, Begins DEF Ongoing, Steps, Installed
    <3>2. QED
      BY <3>1 DEF Abs!Next
  <2>2. ASSUME NEW p \in Procs, NEW replace \in BOOLEAN, NEW pre \in BOOLEAN,
               BeginFetch(p, replace, pre)
        PROVE  Abs!Next
    <3> DEFINE j == [op |-> "fetch", replace |-> replace, repo |-> 1, v |-> Finds[pre],
                     wrote |-> {}]
               vs == IF replace /\ Finds[pre] # None THEN {Finds[pre]} ELSE {}
    <3>1. Finds[pre] \in Versions \cup {None} /\ None \notin Versions
      BY CacheAssumption
    <3>2. Begin(p, j, "compat")
      BY <2>2 DEF BeginFetch
    <3>3. vs \in {{}} \cup {{v} : v \in Versions}
      BY <3>1
    <3>4. \A v \in Versions : v \in vs <=> j.v = v /\ j.replace
      BY <3>1
    <3>5. j.op = "fetch"
      OBVIOUS
    <3> HIDE DEF j, vs
    <3>6. QED
      BY <2>1, <3>2, <3>3, <3>4, <3>5
  <2>3. ASSUME NEW p \in Procs, NEW v \in Versions, BeginRemove(p, v) PROVE Abs!Next
    <3> DEFINE j == [op |-> "remove", v |-> v]
    <3>1. Begin(p, j, "remove") /\ j.op = "remove" /\ j.v = v
      BY <2>3 DEF BeginRemove
    <3> HIDE DEF j
    <3>2. {v} \in {{}} \cup {{w} : w \in Versions}
      OBVIOUS
    <3>3. \A w \in Versions :
            w \in {v} <=> /\ j.op \in {"fetch", "remove"} /\ j.v = w
                          /\ j.op = "fetch" => j.replace
      BY <3>1
    <3>4. QED
      BY <2>1, <3>1, <3>2, <3>3
  <2>4. ASSUME NEW p \in Procs,
               BeginGeoIP(p) \/ \E todo \in SUBSET Addons : BeginAddons(p, todo)
        PROVE  Abs!Next
    <3>1. ASSUME NEW j, NEW step \in {"addon", "age"}, Begin(p, j, step),
                 j.op \notin {"fetch", "remove"}
          PROVE  Abs!Next
      <4>1. {} \in {{}} \cup {{v} : v \in Versions}
        OBVIOUS
      <4>2. QED
        BY <2>1, <3>1, <4>1
    <3>2. CASE BeginGeoIP(p)
      <4>1. Begin(p, [op |-> "geoip", url |-> 1], "age")
        BY <3>2 DEF BeginGeoIP
      <4>2. [op |-> "geoip", url |-> 1].op \notin {"fetch", "remove"}
        OBVIOUS
      <4>3. QED
        BY <3>1, <4>1, <4>2
    <3>3. ASSUME NEW todo \in SUBSET Addons, BeginAddons(p, todo) PROVE Abs!Next
      <4> DEFINE j == [op |-> "addons", todo |-> todo, now |-> None, wrote |-> {}]
      <4>1. Begin(p, j, "addon") /\ j.op \notin {"fetch", "remove"}
        BY <3>3 DEF BeginAddons
      <4> HIDE DEF j
      <4>2. QED
        BY <3>1, <4>1
    <3>4. QED
      BY <2>4, <3>2, <3>3
  <2>5. ASSUME NEW p \in Procs, RepoFails(p) \/ Abandon(p) PROVE [Abs!Next]_(Abs!vars)
    <3>1. CASE pc'[p] = "returned"
      <4>1. /\ Return(p, "error") /\ pc[p] \in {"scan", "clear", "abandon"}
            /\ served' = served /\ cut' = cut /\ hurt \subseteq hurt'
            /\ Abandon(p) \/ disk' = disk
        BY <2>0, <2>5, <3>1 DEF RepoFails, Abandon, NextRepo, Goto
      <4>2. KeepsInsts /\ KeepsCut
        BY <2>0, <4>1, ElsewhereSteps DEF KeepsCut
      <4>3. Busy(p) /\ pc[p] \notin Installed
        BY <4>1 DEF Busy, Installed
      <4>4. QED
        BY <4>1, <4>2, <4>3, Refuses DEF Abs!Next
    <3>2. CASE pc'[p] # "returned"
      BY <2>5, <3>2, FetchStutters, FetchFails DEF Abs!Next
    <3>3. QED
      BY <3>1, <3>2
  <2>6. ASSUME NEW p \in Procs, DownloadFails(p) \/ OpenMMDB(p) PROVE [Abs!Next]_(Abs!vars)
    <3>1. CASE pc'[p] = "returned"
      <4>1. /\ Return(p, "error") \/ Return(p, "ok")
            /\ pc[p] \in {"download", "copy", "open"} /\ served' = served /\ disk' = disk
            /\ cut' = cut \/ cut' = cut \cup {MMDB}
            /\ hurt' = hurt
        BY <2>0, <2>6, <3>1 DEF DownloadFails, OpenMMDB, Goto
      <4>2. KeepsInsts
        <5>1. KeepsMarks
          BY <4>1 DEF KeepsMarks
        <5>2. QED
          BY <4>1, <5>1 DEF KeepsInsts, SameSettings, Same, Has
      <4>3. KeepsCut
        BY <4>1, MarkFacts DEF KeepsCut
      <4>4. Busy(p) /\ pc[p] \notin Installed
        BY <4>1 DEF Busy, Installed
      <4>5. job[p].op = "geoip"
        BY <2>0, <4>1 DEF JobOfStep, GeoIPJobs
      <4>6. QED
        BY <4>1, <4>2, <4>3, <4>4, <4>5, Refuses, Finishes DEF Abs!Next
    <3>2. CASE pc'[p] # "returned"
      <4>1. DownloadFails(p)
        BY <2>0, <2>6, <3>2 DEF OpenMMDB, Return, Goto
      <4>2. QED
        BY <3>2, <4>1, OthersStutter
    <3>3. QED
      BY <3>1, <3>2
  <2>7. ASSUME NEW p \in Procs, ReturnAddons(p) PROVE Abs!Next
    <3>1. /\ Return(p, "ok") /\ pc[p] = "addon" /\ UNCHANGED <<disk, cut, served, hurt>>
      BY <2>7 DEF ReturnAddons
    <3>2. KeepsInsts /\ KeepsCut
      BY <2>0, <3>1, ElsewhereSteps DEF KeepsCut
    <3>3. Busy(p) /\ pc[p] \notin Installed
      BY <3>1 DEF Busy, Installed
    <3>4. job[p].op = "addons"
      BY <2>0, <3>1 DEF JobOfStep, AddonsJobs
    <3>5. QED
      BY <3>1, <3>2, <3>3, <3>4, Finishes DEF Abs!Next
  <2>8. ASSUME NEW p \in Procs, RemoveOld(p) \/ Remove(p) PROVE Abs!Next
    <3>1. PICK v \in Versions : job[p].v = v
      BY <2>0, <2>8 DEF RemoveOld, Remove, JobOfStep, OfVersion, RemoveJobs
    <3>2. RemoveOld(p) => pc'[p] # "returned"
      BY <2>0 DEF RemoveOld, Goto
    <3>3. CASE pc'[p] = "returned"
      BY <2>8, <3>1, <3>2, <3>3, RemoveReturns DEF Abs!Next
    <3>4. CASE pc'[p] # "returned"
      BY <2>8, <3>1, <3>4, Withdraws DEF Abs!Next
    <3>5. QED
      BY <3>3, <3>4
  <2>9. ASSUME NEW p \in Procs,
               FindInstalled(p) \/ WriteConfigJSON(p) \/ WriteConfigFails(p)
        PROVE  Abs!Next
    <3>1. job[p].v \in Versions
      BY <2>0, <2>9
      DEF FindInstalled, WriteConfigJSON, WriteConfigFails, JobOfStep, FetchJobs,
          OfVersion, Installed
    <3>2. Abs!HandOut(job[p].v)
      BY <2>9, HandsOutFound, HandsOutMade, HandsOutUnnamed
    <3>3. QED
      BY <3>1, <3>2 DEF Abs!Next
  <2>10. ASSUME NEW p \in Procs, Rename(p) PROVE [Abs!Next]_(Abs!vars)
    <3>1. PICK v \in Versions : job[p].v = v
      BY <2>0, <2>10 DEF Rename, JobOfStep, OfVersion, Installing
    <3>2. QED
      BY <2>10, <3>1, Installs DEF Abs!Next
  <2>11. ASSUME NEW p \in Procs, Wipe(p) PROVE [Abs!Next]_(Abs!vars)
    BY <2>11, Empties DEF Abs!Next
  <2>12. ASSUME NEW p \in Procs, ChmodExec(p) \/ TouchFlag(p) \/ TruncateConfig(p)
         PROVE  [Abs!Next]_(Abs!vars)
    BY <2>12, Completes DEF Abs!Next
  <2>13. ASSUME NEW p \in Procs, Crash(p) PROVE Abs!Next
    BY <2>13, Dies DEF Abs!Next
  <2>14. ASSUME NEW p \in Procs,
                \/ CheckCompat(p) \/ FindNew(p) \/ ClearTmp(p) \/ Extract(p)
                \/ WriteVersionJSON(p)
         PROVE  [Abs!Next]_(Abs!vars)
    <3>1. pc'[p] # "returned"
      BY <2>0, <2>14
      DEF CheckCompat, FindNew, ClearTmp, Extract, WriteVersionJSON, Goto
    <3>2. QED
      BY <2>14, <3>1, FetchStutters
  <2>15. ASSUME NEW p \in Procs,
                \/ (\E a \in Addons : NextAddon(p, a) \/ NextAddonFails(p, a))
                \/ Unpack(p) \/ UnpackFails(p) \/ UndoAddon(p)
                \/ UndoAddonGivesUp(p) \/ NeedsUpdate(p) \/ DownloadOne(p) \/ CopyFile(p)
         PROVE  [Abs!Next]_(Abs!vars)
    <3>1. pc'[p] # "returned"
      BY <2>0, <2>15
      DEF NextAddon, NextAddonFails, Unpack, UnpackFails, UndoAddon, UndoAddonGivesUp,
          NeedsUpdate, DownloadOne, CopyFile, Goto
    <3>2. QED
      BY <2>15, <3>1, OthersStutter
  <2>16. ASSUME NEW p \in Procs,
                \/ FindUnreadable(p) \/ ClearTmpGivesUp(p) \/ InstallFails(p)
                \/ ChmodExecFails(p) \/ TouchFlagFails(p)
         PROVE  Abs!Next
    <3>1. pc'[p] # "returned"
      BY <2>0, <2>16
      DEF FindUnreadable, ClearTmpGivesUp, InstallFails, ChmodExecFails, TouchFlagFails,
          Drops, Goto
    <3>2. QED
      BY <2>16, <3>1, FetchFails DEF Abs!Next
  <2>17. ASSUME NEW p \in Procs, WipeGivesUp(p) \/ RemoveOldGivesUp(p) \/ RemoveFails(p)
         PROVE  Abs!Next
    BY <2>17, GivesUp, RemoveRefuses DEF Abs!Next
  <2>18. CASE UNCHANGED vars
    <3> USE DEF vars
    <3>1. AbsInstall' = AbsInstall /\ AbsActive' = AbsActive /\ AbsMarked' = AbsMarked
          /\ AbsHurt' = AbsHurt
      BY <2>18 DEF AbsInstall, State, AbsActive, Has, Whole, AbsMarked, AbsHurt
    <3>2. /\ AbsWorking' = AbsWorking /\ AbsLeave' = AbsLeave /\ AbsMade' = AbsMade
          /\ AbsAnswer' = AbsAnswer
      BY <2>18 DEF AbsWorking, AbsLeave, AbsMade, AbsAnswer, Busy, Removes, Made, At
    <3>3. QED
      BY <2>18, <3>1, <3>2 DEF Abs!vars
  <2>19. QED
    BY <2>2, <2>3, <2>4, <2>5, <2>6, <2>7, <2>8, <2>9, <2>10, <2>11, <2>12, <2>13,
       <2>14, <2>15, <2>16, <2>17, <2>18
    DEF Next, FetchStep, RemoveStep, AddonsStep, GeoIPStep
<1>3. QED
  BY <1>1, <1>2, OneCorrect, PTL DEF Spec, InstallsAtOnce, Abs!Spec
=============================================================================
