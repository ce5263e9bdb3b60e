---------------------------- MODULE BrowserCache ----------------------------
(***************************************************************************)
(* The cache directory shared by fetch.Fetch and fetch.Remove, addons.     *)
(* Resolve and geoip.Resolve.  A member of Procs is the process that runs  *)
(* at the moment, one after another: with one member they follow each      *)
(* other, with two they overlap.  Each performs one of the operations; it  *)
(* may crash between any two file-system steps and leaves what it wrote,   *)
(* and each step that writes or removes may fail, the ones whose error the *)
(* code drops included: it goes on as if they had been done.               *)
(*                                                                         *)
(* disk is the set of entries that exist, an entry being <<kind, owner,    *)
(* file>>: <<kind, owner>> is a place, and a directory is the entry "dir"  *)
(* of its place.  RemoveAll deletes the entries one by one, in any order,  *)
(* a directory after its files, until none is left.                        *)
(* Left out: the archive's temporary file (deleted by a defer, never read  *)
(* again), the progress callback, HTTP headers, and the paths themselves.  *)
(***************************************************************************)
EXTENDS Naturals, FiniteSets

CONSTANTS
  Procs,      (* how many processes use the cache at the same time         *)
  Versions,
  Finds,      (* what scanReleases finds in the listing, by                *)
              (* IncludePrerelease (Releases)                              *)
  Addons,     (* the default addons a launch asks for                      *)
  Others,     (* the files of an archive besides the executable            *)
  None

ASSUME CacheAssumption ==
  /\ Finds \in [BOOLEAN -> Versions \cup {None}]
  /\ None \notin Versions \cup Addons
  /\ "error" \notin Versions          (* outcomes are told from versions,  *)
  /\ None \notin {"ok", "error"}      (* and from none                     *)

Repos == 1..2
Files == {"exe"} \cup Others               (* what an archive holds; for   *)
                                           (* an addon, "exe" is its       *)
                                           (* manifest                     *)

VARIABLES
  disk,
  pc,
  job,      (* a process's operation and its local variables               *)
  result,
  (* history *)
  cut,      (* places a crash or a failed write left half done             *)
  served,   (* versions some Fetch has returned since the last Remove,     *)
            (* Replace or wipe of them                                     *)
  hurt      (* processes whose Fetch or Remove network or disk has failed  *)

vars == <<disk, pc, job, result, cut, served, hurt>>

Inst(v)  == <<"inst", v>>                  (* browsers/official/v          *)
Tmp(v)   == <<"tmp", v>>                   (* browsers/official/v.tmp      *)
Addon(a) == <<"addon", a>>                 (* addons/a                     *)
MMDB     == <<"mmdb", None>>               (* geoip/mmdb: "torn", "whole"  *)
Mode(v)  == <<"mode", v>>                  (* only in cut: chmodExec of v  *)
Active(v) == <<"active", v>>               (* ... config.json naming v     *)
FlagMark == <<"flag", None>>               (* ... the compatibility flag   *)
In(place, file)  == <<place[1], place[2], file>>
Entries(place)   == {e \in disk : e[1] = place[1] /\ e[2] = place[2]}
Has(place, file) == In(place, file) \in disk
Whole(place)     == \A f \in Files : Has(place, f)

Flag      == In(FlagMark, "file")          (* .0.5_FLAG                    *)
Config(v) == <<"config", v, "file">>       (* config.json naming v; None:  *)
                                           (* truncated                    *)
Configs   == {Config(v) : v \in Versions \cup {None}}

Dirs   == {Inst(v) : v \in Versions} \cup {Tmp(v) : v \in Versions}
            \cup {Addon(a) : a \in Addons}
Places == Dirs \cup {MMDB, FlagMark} \cup {Mode(v) : v \in Versions}
            \cup {Active(v) : v \in Versions}
Used(places) == {place \in places : Entries(place) # {}}

FetchJobs  == [op : {"fetch"}, replace : BOOLEAN,
               repo : Repos, v : Versions \cup {None}, wrote : SUBSET Files]
RemoveJobs == [op : {"remove"}, v : Versions]
AddonsJobs == [op : {"addons"}, todo : SUBSET Addons, now : Addons \cup {None},
               wrote : SUBSET Files]
GeoIPJobs  == [op : {"geoip"}, url : Repos]
Jobs == FetchJobs \cup RemoveJobs \cup AddonsJobs \cup GeoIPJobs

Steps == {"idle", "compat", "wipe", "scan", "unlink", "clear", "extract", "version",
          "rename", "abandon", "chmod", "flag", "truncate", "config", "remove",
          "addon", "unpack", "undo", "age", "download", "copy", "open",
          "returned"}

Marks == Files \cup {"dir", "ver", "mode"}   (* what a directory holds *)

TypeOK ==
  /\ disk \subseteq {In(d, f) : d \in Dirs, f \in Marks}
                     \cup {Flag, In(MMDB, "torn"), In(MMDB, "whole")} \cup Configs
  /\ pc \in [Procs -> Steps] /\ job \in [Procs -> Jobs \cup {None}]
  /\ result \in [Procs -> Versions \cup {None, "ok", "error"}]
  /\ cut \subseteq Places /\ served \subseteq Versions /\ hurt \subseteq Procs

Init ==
  /\ disk = {}
  /\ pc = [p \in Procs |-> "idle"] /\ job = [p \in Procs |-> None]
  /\ result = [p \in Procs |-> None]
  /\ cut = {} /\ served = {} /\ hurt = {}

Goto(p, step)  == pc' = [pc EXCEPT ![p] = step]
Return(p, res) ==
  /\ Goto(p, "returned") /\ result' = [result EXCEPT ![p] = res]
  /\ job' = [job EXCEPT ![p] = None]
Busy(p)        == pc[p] \notin {"idle", "returned"}

Begin(p, j, step) ==
  /\ ~Busy(p)
  /\ job' = [job EXCEPT ![p] = j] /\ result' = [result EXCEPT ![p] = None]
  /\ hurt' = hurt \ {p}
  /\ Goto(p, step)
  /\ UNCHANGED <<disk, cut, served>>

(* One step of os.RemoveAll on the entries among: what can be unlinked is  *)
(* a file, or a directory without files.                                   *)
Unlink(among) ==
  \E e \in among :
    /\ e[3] = "dir" => Entries(<<e[1], e[2]>>) = {e}
    /\ disk' = disk \ {e}

-----------------------------------------------------------------------------
(* fetch.Fetch.  Both repositories list the same releases. *)

BeginFetch(p, replace, pre) ==
  Begin(p, [op |-> "fetch", replace |-> replace, repo |-> 1, v |-> Finds[pre],
           wrote |-> {}], "compat")

(* A cache that is not empty and lacks the flag is of an older layout: it  *)
(* is wiped.                                                               *)
CheckCompat(p) ==
  /\ pc[p] = "compat"
  /\ Goto(p, IF disk # {} /\ Flag \notin disk THEN "wipe" ELSE "scan")
  /\ UNCHANGED <<disk, job, result, cut, served, hurt>>

(* An error that the code drops: it goes on, and what it should have done  *)
(* counts as cut.                                                          *)
Drops(p, from, to, lost) ==
  /\ pc[p] = from /\ Goto(p, to)
  /\ cut' = cut \cup lost /\ hurt' = hurt \cup {p}
  /\ UNCHANGED <<disk, job, result>>

Wipe(p) ==
  /\ pc[p] = "wipe"
  /\ \/ Unlink(disk) /\ UNCHANGED <<pc, cut>>
     \/ disk = {} /\ Goto(p, "scan") /\ cut' = {} /\ UNCHANGED disk
  /\ served' = {}
  /\ UNCHANGED <<job, result, hurt>>

WipeGivesUp(p) ==
  /\ disk # {}
  /\ Drops(p, "wipe", "scan", Used(Dirs) \cup {FlagMark})
  /\ served' = {}

(* The next repository, or the last error. *)
NextRepo(p) ==
  /\ IF job[p].repo + 1 \in Repos
     THEN Goto(p, "scan") /\ job' = [job EXCEPT ![p].repo = @ + 1] /\ UNCHANGED result
     ELSE Return(p, "error")

(* fetchReleases fails, the listing has nothing for this platform, the     *)
(* temporary directory cannot be made, or not be removed.                  *)
RepoFails(p) ==
  /\ pc[p] \in {"scan", "clear", "abandon"}
  /\ NextRepo(p)
  /\ hurt' = hurt \cup {p}
  /\ UNCHANGED <<disk, cut, served>>

(* An installed version is returned at once, unless it is to be replaced. *)
FindInstalled(p) ==
  /\ pc[p] = "scan" /\ job[p].v # None
  /\ ~job[p].replace /\ Has(Inst(job[p].v), "ver")
  /\ Return(p, job[p].v)
  /\ served' = served \cup {job[p].v}
  /\ UNCHANGED <<disk, cut, hurt>>

FindNew_KeepsOld(p) ==
  /\ pc[p] = "scan" /\ job[p].v # None
  /\ job[p].replace \/ ~Has(Inst(job[p].v), "ver")
  /\ job' = [job EXCEPT ![p].wrote = {}]
  /\ Goto(p, "clear")
  /\ UNCHANGED <<disk, result, cut, served, hurt>>

FindNew(p) ==
  /\ pc[p] = "scan" /\ job[p].v # None
  /\ job[p].replace \/ ~Has(Inst(job[p].v), "ver")
  /\ job' = [job EXCEPT ![p].wrote = {}]
  /\ Goto(p, IF job[p].replace /\ Has(Inst(job[p].v), "dir") THEN "unlink" ELSE "clear")
  /\ UNCHANGED <<disk, result, cut, served, hurt>>

(* Its version.json cannot be read: it is installed again, over itself. *)
FindUnreadable(p) ==
  /\ pc[p] = "scan" /\ job[p].v # None
  /\ ~job[p].replace /\ Has(Inst(job[p].v), "ver")
  /\ job' = [job EXCEPT ![p].wrote = {}]
  /\ Goto(p, "clear")
  /\ hurt' = hurt \cup {p}
  /\ UNCHANGED <<disk, result, cut, served>>

(* The directory of v is gone, or about to be replaced by a whole one. *)
Repaired(v) == cut' = cut \ {Inst(v), Mode(v), Active(v)}

(* RemoveAll of the old install, before anything has been downloaded. *)
RemoveOld(p) ==
  /\ pc[p] = "unlink"
  /\ LET inst == Entries(Inst(job[p].v))
     IN \/ Unlink(inst) /\ UNCHANGED <<pc, cut>>
        \/ inst = {} /\ Goto(p, "clear") /\ Repaired(job[p].v) /\ UNCHANGED disk
  /\ served' = served \ {job[p].v}
  /\ UNCHANGED <<job, result, hurt>>

RemoveOldGivesUp(p) ==
  /\ Drops(p, "unlink", "clear", Used({Inst(job[p].v)}))
  /\ served' = served \ {job[p].v}

(* RemoveAll of iPath.tmp, then MkdirAll. *)
ClearTmp(p) ==
  /\ pc[p] = "clear"
  /\ LET tmp == Tmp(job[p].v)
     IN \/ Unlink(Entries(tmp)) /\ UNCHANGED pc
        \/ /\ Entries(tmp) = {}
           /\ disk' = disk \cup {In(tmp, "dir")} /\ Goto(p, "extract")
  /\ UNCHANGED <<job, result, cut, served, hurt>>

(* Some of it stays, and is extracted over. *)
ClearTmpGivesUp(p) ==
  /\ pc[p] = "clear"
  /\ disk' = disk \cup {In(Tmp(job[p].v), "dir")} /\ Goto(p, "extract")
  /\ hurt' = hurt \cup {p}
  /\ UNCHANGED <<job, result, cut, served>>

(* extractZip writes the next entry, and the directories it needs. *)
WriteEntry(p, place) ==
  \E f \in Files \ job[p].wrote :
    /\ disk' = disk \cup {In(place, f), In(place, "dir")}
    /\ job' = [job EXCEPT ![p].wrote = @ \cup {f}]

(* downloadAndExtract *)
Extract_IgnoresErrors(p) ==
  /\ pc[p] = "extract"
  /\ \/ WriteEntry(p, Tmp(job[p].v)) /\ UNCHANGED pc
     \/ Goto(p, "version") /\ UNCHANGED <<disk, job>>
  /\ UNCHANGED <<result, cut, served, hurt>>

Extract(p) ==
  /\ pc[p] = "extract"
  /\ LET tmp == Tmp(job[p].v)
     IN \/ WriteEntry(p, tmp) /\ UNCHANGED pc
        \/ job[p].wrote = Files /\ Goto(p, "version") /\ UNCHANGED <<disk, job>>
  /\ UNCHANGED <<result, cut, served, hurt>>

(* The download, the extraction, the write of version.json or the rename   *)
(* fails for a reason outside the cache.                                   *)
InstallFails(p) ==
  /\ pc[p] \in {"extract", "version", "rename"}
  /\ Goto(p, "abandon")
  /\ hurt' = hurt \cup {p}
  /\ UNCHANGED <<disk, job, result, cut, served>>

WriteVersionJSON(p) ==
  /\ pc[p] = "version"
  /\ LET tmp == Tmp(job[p].v)
     IN IF Has(tmp, "dir")
        THEN disk' = disk \cup {In(tmp, "ver")} /\ Goto(p, "rename")
        ELSE Goto(p, "abandon") /\ UNCHANGED disk
  /\ UNCHANGED <<job, result, cut, served, hurt>>

(* os.Rename refuses a target that is a directory. *)
Rename(p) ==
  /\ pc[p] = "rename"
  /\ LET tmp == Tmp(job[p].v)  inst == Inst(job[p].v)
     IN IF Has(tmp, "dir") /\ Entries(inst) = {}
        THEN /\ disk' = (disk \ Entries(tmp)) \cup {In(inst, e[3]) : e \in Entries(tmp)}
             /\ Repaired(job[p].v)
             /\ Goto(p, "chmod")
        ELSE Goto(p, "abandon") /\ UNCHANGED <<disk, cut>>
  /\ UNCHANGED <<job, result, served, hurt>>

Abandon(p) ==
  /\ pc[p] = "abandon"
  /\ LET tmp == Entries(Tmp(job[p].v))
     IN \/ Unlink(tmp) /\ UNCHANGED <<pc, job, result>>
        \/ tmp = {} /\ NextRepo(p) /\ UNCHANGED disk
  /\ UNCHANGED <<cut, served, hurt>>

ChmodExec(p) ==
  /\ pc[p] = "chmod"
  /\ LET inst == Inst(job[p].v)
     IN disk' = IF Has(inst, "dir") THEN disk \cup {In(inst, "mode")} ELSE disk
  /\ Goto(p, "flag")
  /\ UNCHANGED <<job, result, cut, served, hurt>>

ChmodExecFails(p) ==
  Drops(p, "chmod", "flag", {Mode(job[p].v)}) /\ UNCHANGED served

TouchFlag_Forgotten(p) ==
  /\ pc[p] = "flag"
  /\ Goto(p, "truncate")
  /\ UNCHANGED <<disk, job, result, cut, served, hurt>>

TouchFlag(p) ==
  /\ pc[p] = "flag"
  /\ disk' = disk \cup {Flag} /\ cut' = cut \ {FlagMark}
  /\ Goto(p, "truncate")
  /\ UNCHANGED <<job, result, served, hurt>>

TouchFlagFails(p) ==
  /\ Flag \notin disk
  /\ Drops(p, "flag", "truncate", {FlagMark}) /\ UNCHANGED served

(* writeConfigJSON: os.WriteFile truncates, then writes.  Fetch returns,   *)
(* and config.json names a version again.                                  *)
TruncateConfig(p) ==
  /\ pc[p] = "truncate"
  /\ disk' = (disk \ Configs) \cup {Config(None)}
  /\ Goto(p, "config")
  /\ UNCHANGED <<job, result, cut, served, hurt>>

WriteConfigJSON(p) ==
  /\ pc[p] = "config"
  /\ disk' = (disk \ Configs) \cup {Config(job[p].v)}
  /\ Return(p, job[p].v)
  /\ served' = served \cup {job[p].v}
  /\ cut' = cut \ {Active(v) : v \in Versions}
  /\ UNCHANGED hurt

(* Fetch returns all the same, whatever config.json is left with. *)
WriteConfigFails(p) ==
  /\ pc[p] \in {"truncate", "config"}
  /\ Return(p, job[p].v)
  /\ served' = served \cup {job[p].v}
  /\ cut' = cut \cup IF pc[p] = "truncate" THEN {Active(job[p].v)}
                     ELSE {Active(v) : v \in Versions}
  /\ hurt' = hurt \cup {p}
  /\ UNCHANGED disk

(* InstalledVersion and ExecPath return v rather than ErrNotInstalled. *)
InstalledVersion(v) == Config(v) \in disk /\ Has(Inst(v), "ver")
ExecPath(v)         == InstalledVersion(v) /\ Has(Inst(v), "exe")

(* fetch.Remove *)
BeginRemove(p, v) ==
  Begin(p, [op |-> "remove", v |-> v], "remove")

Remove(p) ==
  /\ pc[p] = "remove"
  /\ LET inst == Entries(Inst(job[p].v))
     IN \/ Unlink(inst) /\ UNCHANGED <<pc, job, result, cut>>
        \/ inst = {} /\ Return(p, "ok") /\ Repaired(job[p].v) /\ UNCHANGED disk
  /\ served' = served \ {job[p].v}
  /\ UNCHANGED hurt

RemoveFails(p) ==
  /\ pc[p] = "remove"
  /\ Return(p, "error")
  /\ cut' = cut \cup Used({Inst(job[p].v)}) /\ served' = served \ {job[p].v}
  /\ hurt' = hurt \cup {p}
  /\ UNCHANGED disk

-----------------------------------------------------------------------------
(* addons.Resolve, for the default addons that are not excluded *)

BeginAddons(p, todo) ==
  Begin(p, [op |-> "addons", todo |-> todo, now |-> None, wrote |-> {}], "addon")

(* A directory that exists is reused as it is. *)
NextAddon(p, a) ==
  /\ pc[p] = "addon" /\ a \in job[p].todo
  /\ LET place == Addon(a)
     IN IF Has(place, "dir")
        THEN /\ job' = [job EXCEPT ![p].todo = @ \ {a}] /\ UNCHANGED <<disk, pc>>
        ELSE /\ job' = [job EXCEPT ![p].todo = @ \ {a}, ![p].now = a, ![p].wrote = {}]
             /\ disk' = disk \cup {In(place, "dir")} /\ Goto(p, "unpack")
  /\ UNCHANGED <<result, cut, served, hurt>>

(* MkdirAll fails: the addon is skipped. *)
NextAddonFails(p, a) ==
  /\ pc[p] = "addon" /\ a \in job[p].todo
  /\ ~Has(Addon(a), "dir")
  /\ job' = [job EXCEPT ![p].todo = @ \ {a}]
  /\ UNCHANGED <<disk, pc, result, cut, served, hurt>>

Unpack(p) ==
  /\ pc[p] = "unpack"
  /\ LET place == Addon(job[p].now)
     IN \/ WriteEntry(p, place) /\ UNCHANGED pc
        \/ job[p].wrote = Files /\ Goto(p, "addon") /\ UNCHANGED <<disk, job>>
  /\ UNCHANGED <<result, cut, served, hurt>>

UnpackFails_KeepsDir(p) ==
  /\ pc[p] = "unpack"
  /\ Goto(p, "addon")
  /\ UNCHANGED <<disk, job, result, cut, served, hurt>>

UnpackFails(p) ==
  /\ pc[p] = "unpack"
  /\ Goto(p, "undo")
  /\ UNCHANGED <<disk, job, result, cut, served, hurt>>

(* The addon is skipped; its directory must not pass for a finished one.   *)
UndoAddon(p) ==
  /\ pc[p] = "undo"
  /\ LET place == Entries(Addon(job[p].now))
     IN \/ Unlink(place) /\ UNCHANGED pc
        \/ place = {} /\ Goto(p, "addon") /\ UNCHANGED disk
  /\ UNCHANGED <<job, result, cut, served, hurt>>

UndoAddonGivesUp(p) ==
  /\ pc[p] = "undo"
  /\ Goto(p, "addon") /\ cut' = cut \cup Used({Addon(job[p].now)})
  /\ UNCHANGED <<disk, job, result, served, hurt>>

ReturnAddons(p) ==
  /\ pc[p] = "addon" /\ job[p].todo = {}
  /\ Return(p, "ok")
  /\ UNCHANGED <<disk, cut, served, hurt>>

-----------------------------------------------------------------------------
(* geoip.Resolve *)

BeginGeoIP(p) == Begin(p, [op |-> "geoip", url |-> 1], "age")

(* needsUpdate: missing, or older than updateMaxAge, as any time may have  *)
(* passed.                                                                 *)
NeedsUpdate(p) ==
  /\ pc[p] = "age"
  /\ \/ Goto(p, "download")
     \/ Entries(MMDB) # {} /\ Goto(p, "open")
  /\ UNCHANGED <<disk, job, result, cut, served, hurt>>

Put(data) == disk' = (disk \ Entries(MMDB)) \cup {In(MMDB, data)}

(* downloadOne has fetched a temporary file outside the cache and copies   *)
(* it over the database in place: os.Create truncates ...                  *)
DownloadOne(p) ==
  /\ pc[p] = "download"
  /\ Put("torn")
  /\ Goto(p, "copy")
  /\ UNCHANGED <<job, result, cut, served, hurt>>

CopyFile(p) ==
  /\ pc[p] = "copy"
  /\ Put("whole")
  /\ cut' = cut \ {MMDB}
  /\ Goto(p, "open")
  /\ UNCHANGED <<job, result, served, hurt>>

(* The transfer or the copy fails: the next URL, or an error although an   *)
(* old database may be there.                                              *)
DownloadFails(p) ==
  /\ pc[p] \in {"download", "copy"}
  /\ IF job[p].url + 1 \in Repos
     THEN /\ job' = [job EXCEPT ![p].url = @ + 1]
          /\ Goto(p, "download") /\ UNCHANGED result
     ELSE Return(p, "error")
  /\ cut' = IF pc[p] = "copy" THEN cut \cup {MMDB} ELSE cut
  /\ UNCHANGED <<disk, served, hurt>>

OpenMMDB(p) ==
  /\ pc[p] = "open"
  /\ Return(p, IF Has(MMDB, "whole") THEN "ok" ELSE "error")
  /\ UNCHANGED <<disk, cut, served, hurt>>

-----------------------------------------------------------------------------
(* A process dies.  What it was changing at the time is cut. *)
Crash(p) ==
  /\ Busy(p)
  /\ Goto(p, "idle") /\ job' = [job EXCEPT ![p] = None]
  /\ cut' = cut \cup
       CASE pc[p] = "wipe"                 -> Used(Dirs)
         [] pc[p] \in {"unlink", "remove"} -> Used({Inst(job[p].v)})
         [] pc[p] = "chmod"                -> {Mode(job[p].v), Active(job[p].v)}
         [] pc[p] \in {"flag", "truncate"} -> {Active(job[p].v)}
         [] pc[p] = "config"               -> {Active(v) : v \in Versions}
         [] pc[p] \in {"unpack", "undo"}   -> Used({Addon(job[p].now)})
         [] pc[p] = "copy"                 -> {MMDB}
         [] OTHER                          -> {}
  /\ UNCHANGED <<disk, result, served, hurt>>

FetchStep(p) ==
  \/ \E replace, pre \in BOOLEAN : BeginFetch(p, replace, pre)
  \/ CheckCompat(p) \/ Wipe(p) \/ WipeGivesUp(p) \/ RepoFails(p)
  \/ FindInstalled(p) \/ FindUnreadable(p) \/ FindNew(p)
  \/ RemoveOld(p) \/ RemoveOldGivesUp(p) \/ ClearTmp(p) \/ ClearTmpGivesUp(p)
  \/ Extract(p) \/ InstallFails(p) \/ WriteVersionJSON(p) \/ Rename(p) \/ Abandon(p)
  \/ ChmodExec(p) \/ ChmodExecFails(p) \/ TouchFlag(p) \/ TouchFlagFails(p)
  \/ TruncateConfig(p) \/ WriteConfigJSON(p) \/ WriteConfigFails(p)

RemoveStep(p) ==
  (\E v \in Versions : BeginRemove(p, v)) \/ Remove(p) \/ RemoveFails(p)

AddonsStep(p) ==
  \/ \E todo \in SUBSET Addons : BeginAddons(p, todo)
  \/ \E a \in Addons : NextAddon(p, a) \/ NextAddonFails(p, a)
  \/ Unpack(p) \/ UnpackFails(p) \/ UndoAddon(p) \/ UndoAddonGivesUp(p)
  \/ ReturnAddons(p)

GeoIPStep(p) ==
  \/ BeginGeoIP(p) \/ NeedsUpdate(p) \/ DownloadOne(p) \/ CopyFile(p)
  \/ DownloadFails(p) \/ OpenMMDB(p)

Next ==
  \E p \in Procs :
    FetchStep(p) \/ RemoveStep(p) \/ AddonsStep(p) \/ GeoIPStep(p) \/ Crash(p)

Spec == Init /\ [][Next]_vars

-----------------------------------------------------------------------------
(* What a Fetch has returned has all its files until it is removed,        *)
(* whatever state the processes before it died in; excepted is an install  *)
(* whose removal was cut short, by a crash or by a failure.                *)
FetchedIsWhole ==
  \A v \in served : Whole(Inst(v)) \/ Inst(v) \in cut

(* It is also executable, unless a crash came before that step or its      *)
(* chmod failed (fetch.go:771); it is what ExecPath finds, unless another  *)
(* version was made active, or is being, or config.json was not or not     *)
(* wholly written (787); and no check for an older layout takes its cache  *)
(* for one, although the flag that says so is only written after the       *)
(* rename, unless that very write failed (776), or a wipe.                 *)
FetchedIsReady ==
  /\ FetchedIsWhole
  /\ (\E p \in Procs : pc[p] = "wipe") => served = {} \/ FlagMark \in cut
  /\ \A v \in served : Inst(v) \in cut \/
       /\ Has(Inst(v), "mode") \/ Mode(v) \in cut
       /\ \/ ExecPath(v) \/ Active(v) \in cut
          \/ \E w \in Versions \ {v} : Config(w) \in disk
          \/ \E p \in Procs : pc[p] = "config"

(* The leftovers of a process that died never make a later Fetch fail: it  *)
(* fails only when the network or the disk fails it, or over an install    *)
(* whose removal was cut short.                                            *)
InstallNeverStuck ==
  [][\A p \in Procs :
       pc[p] # "returned" /\ pc'[p] = "returned" /\ result'[p] = "error"
         /\ job[p].op = "fetch" =>
       p \in hurt' \/ Inst(job[p].v) \in cut]_vars

(* What InstalledVersion reports to a process that did not fetch it has    *)
(* all its files, so that ExecPath finds its executable: version.json is   *)
(* in the directory only with the rest.  Excepted is an install that is    *)
(* being removed, or whose removal was cut short.                          *)
Removing(v) ==
  \E p \in Procs :
    pc[p] = "wipe" \/ (pc[p] \in {"unlink", "remove"} /\ job[p].v = v)
ActiveIsWhole ==
  \A v \in Versions :
    InstalledVersion(v) => Whole(Inst(v)) \/ Inst(v) \in cut \/ Removing(v)

(* What addons.Resolve and geoip.Resolve will reuse, being there, is       *)
(* whole, unless a crash or a write that failed has left it half done.     *)
ReusedIsWhole ==
  LET filling(a) == \E p \in Procs : /\ pc[p] \in {"unpack", "undo"}
                                     /\ job[p].now = a
      wiping == \E p \in Procs : pc[p] = "wipe"
  IN /\ \A a \in Addons :
          Has(Addon(a), "dir") /\ ~filling(a) /\ ~wiping =>
            Whole(Addon(a)) \/ Addon(a) \in cut
     /\ Has(MMDB, "torn") => (\E p \in Procs : pc[p] = "copy") \/ MMDB \in cut

-----------------------------------------------------------------------------
(* The inductive strengthenings the proofs use. *)

(* Processes use the cache one after another: what the properties above,   *)
(* the history they use and all of the following but the first two assume. *)
OneAtATime == \A p, q \in Procs : p = q

(* A process has the local variables that its step reads. *)
Installing == {"clear", "extract", "version", "rename"}
Installed  == {"chmod", "flag", "truncate", "config"}
OfVersion  == Installing \cup Installed \cup {"unlink", "abandon"}
JobOfStep ==
  \A p \in Procs :
    /\ pc[p] \in OfVersion \cup {"compat", "wipe", "scan"} => job[p] \in FetchJobs
    /\ pc[p] \in OfVersion => job[p].v \in Versions
    /\ pc[p] = "unlink" => job[p].replace
    /\ pc[p] = "remove" => job[p] \in RemoveJobs
    /\ pc[p] \in {"addon", "unpack", "undo"} => job[p] \in AddonsJobs
    /\ pc[p] \in {"unpack", "undo"} => job[p].now \in Addons
    /\ pc[p] \in {"age", "download", "copy", "open"} => job[p] \in GeoIPJobs

(* A directory is removed after its files and made before them. *)
DirInv == \A place \in Dirs, file \in Marks : Has(place, file) => Has(place, "dir")

(* What the running Fetch has made of the new install. *)
At(p, steps) == pc[p] \in steps
MadeInv ==
  \A p \in Procs :
    /\ At(p, {"unlink", "clear"}) => job[p].wrote = {}
    /\ At(p, {"extract"}) => \A f \in job[p].wrote \cup {"dir"} : Has(Tmp(job[p].v), f)
    /\ At(p, {"version", "rename"}) => Whole(Tmp(job[p].v)) /\ Has(Tmp(job[p].v), "dir")
    /\ At(p, {"rename"}) => Has(Tmp(job[p].v), "ver")
    /\ At(p, Installed) => Whole(Inst(job[p].v)) /\ Has(Inst(job[p].v), "ver")
    /\ At(p, Installed \ {"chmod"}) =>
         Has(Inst(job[p].v), "mode") \/ Mode(job[p].v) \in cut

(* An install is whole with its version.json, made executable and active,  *)
(* or is being removed, or something was cut short.                        *)
ModeSet(v) ==
  \/ Has(Inst(v), "mode") \/ Mode(v) \in cut
  \/ \E p \in Procs : At(p, {"chmod"}) /\ job[p].v = v
ActiveSet(v) ==
  \/ (\E w \in Versions : Config(w) \in disk) \/ Active(v) \in cut
  \/ \E p \in Procs : At(p, {"config"}) \/ (At(p, Installed) /\ job[p].v = v)
InstInv ==
  \A v \in Versions : Has(Inst(v), "dir") =>
    \/ Inst(v) \in cut \/ Removing(v)
    \/ Whole(Inst(v)) /\ Has(Inst(v), "ver") /\ ModeSet(v) /\ ActiveSet(v)

(* A cache with an install a Fetch has returned has the flag, and so has   *)
(* one with any install that a Fetch finds after its check, unless the     *)
(* write of the flag, or the wipe, failed.                                 *)
Unmarked(p) == p \in hurt /\ FlagMark \in cut
FlagInv ==
  /\ served # {} => Flag \in disk \/ FlagMark \in cut
  /\ \A p \in Procs :
       /\ At(p, {"wipe"}) => Flag \notin disk
       /\ At(p, {"truncate", "config"}) => Flag \in disk \/ Unmarked(p)
       /\ At(p, Installing \cup {"scan", "unlink", "abandon"}) =>
            Flag \in disk \/ Unmarked(p) \/ \A v \in Versions : ~Has(Inst(v), "dir")

ReadyInv ==
  /\ FetchedIsReady
  /\ \A v \in served : Has(Inst(v), "ver")

(* Where an install is put there is none, or a half removed one, or one    *)
(* that could not be read.                                                 *)
RoomInv ==
  \A p \in Procs :
    /\ At(p, Installing) =>
         ~Has(Inst(job[p].v), "dir") \/ Inst(job[p].v) \in cut \/ p \in hurt
    /\ At(p, {"abandon"}) => p \in hurt \/ Inst(job[p].v) \in cut

ReuseInv ==
  /\ ReusedIsWhole
  /\ \A p \in Procs : At(p, {"unpack"}) =>
       \A f \in job[p].wrote \cup {"dir"} : Has(Addon(job[p].now), f)

OneIInv ==
  /\ TypeOK /\ JobOfStep /\ DirInv /\ MadeInv /\ InstInv /\ FlagInv /\ ReadyInv
  /\ RoomInv /\ ReuseInv

-----------------------------------------------------------------------------
(* The cache as its users see it. *)

State(v) ==
  IF ~Has(Inst(v), "dir") THEN "absent"
  ELSE IF Inst(v) \in cut THEN "spoilt"
  ELSE IF Whole(Inst(v)) /\ Has(Inst(v), "ver") THEN "whole" ELSE "torn"

Removes(p, v) ==                           (* p is to take v away          *)
  /\ Busy(p) /\ job[p].op \in {"fetch", "remove"} /\ job[p].v = v
  /\ job[p].op = "fetch" => job[p].replace
Made(p, v) == At(p, Installed) /\ job[p].v = v

AbsInstall == [v \in Versions |-> State(v)]
AbsActive  == {v \in Versions : Config(v) \in disk}
AbsWorking == \E p \in Procs : Busy(p)
AbsLeave   == {v \in Versions : \E p \in Procs : Removes(p, v)}
AbsMade    == {v \in Versions : \E p \in Procs : Made(p, v)}
AbsAnswer  == {result[p] : p \in Procs} \ {None}
AbsMarked  == Flag \in disk
AbsHurt    == hurt # {}

Abs == INSTANCE Installer WITH
         install <- AbsInstall, active <- AbsActive, promised <- served,
         working <- AbsWorking, leave <- AbsLeave, made <- AbsMade, answer <- AbsAnswer,
         marked <- AbsMarked, hurt <- AbsHurt

(* To processes that follow one another the cache keeps the promise of     *)
(* Installer: an install appears at once, by the rename (fetch.go:764), is *)
(* neither wiped nor touched until it is to be replaced or removed, a      *)
(* Fetch hands out what it made, or what was there, and a step that fails  *)
(* without Fetch's saying so (699, 735, 771-787) costs the active version, *)
(* the flag or an install that was to go, and nothing else.                *)
InstallsAtOnce == Abs!Spec
=============================================================================
