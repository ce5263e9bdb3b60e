------------------------------- MODULE Launch -------------------------------
(***************************************************************************)
(* camoufox.Launch and Browser.Close: the options laid over the            *)
(* fingerprint, the virtual display, at most two attempts to start the     *)
(* browser and shake hands with it, and the Stop of a browser, by Launch   *)
(* after a failure and by any number of concurrent Close calls after a     *)
(* success.  Stop is about the process of the last attempt: there is no    *)
(* other when it runs.                                                     *)
(*                                                                         *)
(* External: the operating system (a browser that exits when it likes, or  *)
(* never, but dies when killed, and that reads its pipe or lets it fill),  *)
(* and the handshake, which client.Call bounds.                            *)
(***************************************************************************)
EXTENDS LaunchConfig, FiniteSets

CONSTANTS
  Closers,    \* the calls of Browser.Close
  Setups      \* [config, own, auto, proxy, inherited, extra]

(* The CAMOU_CONFIG variables that this process inherited and those of     *)
(* Options.Env are functions of their numbers, any numbers and any values. *)
ASSUME LaunchAssumption ==
  \A s \in Setups :
    /\ s.config \in Options /\ {s.own, s.auto, s.proxy} \subseteq BOOLEAN
    /\ DOMAIN s.inherited \subseteq Nat \ {0} /\ DOMAIN s.extra \subseteq Nat \ {0}

Launcher == "launch"
Actors   == Closers \cup {Launcher}

ASSUME ActorAssumption == Launcher \notin Closers /\ None \notin Actors

VARIABLES
  setup,      \* the options of this Launch
  cfg,        \* the config map
  env,        \* CAMOU_CONFIG_k of the last browser's environment
  pc,         \* where each actor is
  attempt,    \* the attempts begun
  ready,      \* connect succeeded: there is a Browser
  gone,       \* ctx is done
  full,       \* the browser does not read, and its pipe is full
  xvfb,       \* the display server
  child,      \* the browser process of each attempt
  ends,       \* the pipe ends this process holds for each attempt
  dirs,       \* temporary profiles on the disk
  kept,       \* those that could not be removed (history)
  lock,       \* who holds Process.mu
  stopped     \* Process.stopped of the last attempt

config == <<setup, cfg, env>>
disk   == <<dirs, kept>>
os     == <<xvfb, child, ends, disk>>
proc   == <<lock, stopped>>
world  == <<gone, full>>
vars   == <<config, os, proc, pc, attempt, ready, world>>

Attempts == 1..2
OurEnds  == {"toW", "fromR"}
AllEnds  == OurEnds \cup {"toR", "fromW"}
Starting == {"options", "display", "profile", "prefs", "env", "pipes", "exec",
             "enable", "proxy", "next"}
Stopping == {"lock", "send", "wait", "reap", "client", "remove", "unlock", "cleanup"}
Over     == {"open", "failed", "closed"}

TypeOK ==
  /\ setup \in Setups
  /\ cfg \in [Keys -> {None, "base", "geo", "user", "sample"}]
  /\ pc \in [Actors -> {"idle"} \cup Starting \cup Stopping \cup Over]
  /\ attempt \in {0} \cup Attempts /\ ready \in BOOLEAN
  /\ gone \in BOOLEAN /\ full \in BOOLEAN
  /\ xvfb \in {"none", "running", "killed", "reaped"}
  /\ child \in [Attempts -> {"none", "running", "dying", "exited", "reaped"}]
  /\ ends \in [Attempts -> SUBSET AllEnds] 
  /\ dirs \subseteq Attempts /\ kept \subseteq Attempts
  /\ lock \in Actors \cup {None} /\ stopped \in BOOLEAN

Init ==
  /\ setup \in Setups
  /\ cfg = fingerprint(setup.config.base) /\ env = <<>>
  /\ pc = [a \in Actors |-> IF a = Launcher THEN "options" ELSE "idle"]
  /\ attempt = 0 /\ ready = FALSE /\ gone = FALSE /\ full = FALSE
  /\ xvfb = "none" /\ child = [k \in Attempts |-> "none"]
  /\ ends = [k \in Attempts |-> {}] /\ dirs = {} /\ kept = {}
  /\ lock = None /\ stopped = FALSE

At(a, here)       == pc[a] = here
Goto(a, there)    == pc' = [pc EXCEPT ![a] = there]
Move(here, there) == At(Launcher, here) /\ Goto(Launcher, there)
Holds(es)         == ends' = [ends EXCEPT ![attempt] = es]

(* os.RemoveAll; its error is ignored. *)
DropProfile ==
  \/ dirs' = dirs \ {attempt} /\ UNCHANGED kept
  \/ attempt \in dirs /\ kept' = kept \cup {attempt} /\ UNCHANGED dirs

-----------------------------------------------------------------------------
(* Launch up to the attempts. *)

Display == IF setup.auto THEN "display" ELSE "profile"

ApplyOptions ==
  /\ Move("options", Display)
  /\ cfg' \in applyLaunchOptions(setup.config, cfg)
  /\ UNCHANGED <<setup, env, os, proc, attempt, ready, world>>

(* An invalid locale, pair or address, or a failed download. *)
OptionsFail ==
  /\ Move("options", "failed")
  /\ UNCHANGED <<config, os, proc, attempt, ready, world>>

StartXvfb ==
  /\ Move("display", "profile")
  /\ xvfb' = "running"
  /\ UNCHANGED <<config, child, ends, disk, proc, attempt, ready, world>>

(* Not there, or silent for ten seconds: then it is killed, not waited for. *)
XvfbFails ==
  /\ Move("display", "failed")
  /\ xvfb' \in {"none", "killed"}
  /\ UNCHANGED <<config, child, ends, disk, proc, attempt, ready, world>>

-----------------------------------------------------------------------------
(* launch.Start, once in each attempt. *)

Stat(there) ==
  /\ Move("profile", there)
  /\ attempt' = attempt + 1 /\ stopped' = FALSE
  /\ UNCHANGED <<config, xvfb, child, ends, lock, ready, world>>
MkdirTemp ==
  /\ Stat("prefs") /\ UNCHANGED kept
  /\ dirs' = IF setup.own THEN dirs \cup {attempt'} ELSE dirs
NoProfile == Stat("next") /\ UNCHANGED disk

Started == <<setup, cfg, xvfb, child, proc, attempt, ready, world>>

WriteUserJS == Move("prefs", "env") /\ UNCHANGED <<env, ends, disk, Started>>

BuildEnv ==
  /\ Move("env", "pipes")
  /\ env' = buildEnv(setup.inherited, EnvVars(Text(cfg)), setup.extra)
  /\ UNCHANGED <<ends, disk, Started>>

OpenPipes == Move("pipes", "exec") /\ Holds(AllEnds) /\ UNCHANGED <<env, disk, Started>>

(* Each step may fail: the ends that are open are closed, and the profile  *)
(* goes when it is a temporary one.                                        *)
StartFails_KeepsProfile ==
  /\ \E here \in {"prefs", "env", "pipes", "exec"} : Move(here, "next")
  /\ Holds({}) /\ UNCHANGED disk
  /\ UNCHANGED <<env, Started>>
StartFails ==
  /\ \E here \in {"prefs", "env", "pipes", "exec"} : Move(here, "next")
  /\ Holds({}) /\ DropProfile
  /\ UNCHANGED <<env, Started>>

(* The child has its own copies of the ends it uses. *)
ExecStart ==
  /\ Move("exec", "enable")
  /\ Holds(OurEnds)
  /\ child' = [child EXCEPT ![attempt] = "running"]
  /\ UNCHANGED <<config, xvfb, disk, proc, attempt, ready, world>>

-----------------------------------------------------------------------------
(* connect's handshake, the proxy, and the second attempt. *)

Enabled ==
  /\ Move("enable", IF setup.proxy THEN "proxy" ELSE "open")
  /\ ready' = TRUE
  /\ UNCHANGED <<config, os, proc, attempt, world>>

Waiting == <<config, os, proc, attempt, ready, world>>

(* An error, the end of the pipe, or the deadline: proc.Stop, b.Close. *)
EnableFails == Move("enable", "lock") /\ UNCHANGED Waiting
ProxySet    == Move("proxy", "open") /\ UNCHANGED Waiting
ProxyFails  == Move("proxy", "lock") /\ UNCHANGED Waiting

Retry_Thrice ==
  attempt < 3 /\ ~gone /\ Move("next", "profile") /\ UNCHANGED Waiting
Retry ==
  attempt < 2 /\ ~gone /\ Move("next", "profile") /\ UNCHANGED Waiting

KillXvfb == xvfb' = IF xvfb = "running" THEN "reaped" ELSE xvfb

GiveUp ==
  /\ attempt = 2 \/ gone
  /\ Move("next", "failed")
  /\ KillXvfb
  /\ UNCHANGED <<config, child, ends, disk, proc, attempt, ready, world>>

-----------------------------------------------------------------------------
(* Process.Stop, and the cleanup of Browser.Close. *)

Close(c) ==
  /\ At(c, "idle") /\ At(Launcher, "open")
  /\ Goto(c, "lock")
  /\ UNCHANGED Waiting

Lock(a) ==
  /\ At(a, "lock") /\ lock = None
  /\ lock' = a /\ stopped' = TRUE
  /\ Goto(a, IF stopped THEN "unlock" ELSE "send")
  /\ UNCHANGED <<config, os, attempt, ready, world>>

(* Browser.close is written to the pipe before the timer is set: with a     *)
(* full pipe this waits until the browser reads, or is gone (EPIPE).        *)
Hung == full /\ child[attempt] = "running"
Send(a) == At(a, "send") /\ ~Hung /\ Goto(a, "wait") /\ UNCHANGED Waiting

WaitReturns(a) ==
  /\ At(a, "wait") \/ At(a, "reap")
  /\ child[attempt] = "exited"
  /\ child' = [child EXCEPT ![attempt] = "reaped"]
  /\ Goto(a, "client")
  /\ UNCHANGED <<config, xvfb, ends, disk, proc, attempt, ready, world>>

(* Five seconds: the browser is killed and waited for. *)
Kill(a, there) ==
  /\ At(a, "wait")
  /\ child' = [child EXCEPT ![attempt] = IF @ = "running" THEN "dying" ELSE @]
  /\ Goto(a, there)
  /\ UNCHANGED <<config, xvfb, ends, disk, proc, attempt, ready, world>>
TimerFires_NoWait(a) == Kill(a, "client")
TimerFires_Never(a)  == FALSE /\ Kill(a, "reap")
TimerFires(a)        == Kill(a, "reap")

CloseClient(a) ==
  /\ At(a, "client") /\ Goto(a, "remove")
  /\ Holds({})
  /\ UNCHANGED <<config, xvfb, child, disk, proc, attempt, ready, world>>

RemoveProfile(a) ==
  /\ At(a, "remove") /\ Goto(a, "unlock")
  /\ DropProfile
  /\ UNCHANGED <<config, xvfb, child, ends, proc, attempt, ready, world>>

Unlock(a) ==
  /\ At(a, "unlock") /\ lock' = None
  /\ Goto(a, IF a = Launcher /\ ~ready THEN "next" ELSE "cleanup")
  /\ UNCHANGED <<config, os, stopped, attempt, ready, world>>

Cleanup(a) ==
  /\ At(a, "cleanup") /\ Goto(a, IF a = Launcher THEN "failed" ELSE "closed")
  /\ KillXvfb
  /\ UNCHANGED <<config, child, ends, disk, proc, attempt, ready, world>>

-----------------------------------------------------------------------------
(* The world: the browser exits by itself or because it was killed, it     *)
(* stops reading while calls are made, and may read again, and the         *)
(* caller's context ends.                                                  *)

Ends(k, was) ==
  /\ child[k] = was
  /\ child' = [child EXCEPT ![k] = "exited"]
  /\ UNCHANGED <<config, xvfb, ends, disk, proc, pc, attempt, ready, world>>
Exits(k) == Ends(k, "running")
Dies(k)  == Ends(k, "dying")

PipeFills ==
  /\ At(Launcher, "open") /\ child[attempt] = "running"
  /\ full' = TRUE
  /\ UNCHANGED <<config, os, proc, pc, attempt, ready, gone>>
PipeDrains ==
  /\ Hung /\ full' = FALSE
  /\ UNCHANGED <<config, os, proc, pc, attempt, ready, gone>>

ContextEnds ==
  /\ ~gone /\ gone' = TRUE
  /\ UNCHANGED <<config, os, proc, pc, attempt, ready, full>>

LaunchStep ==
  \/ ApplyOptions \/ OptionsFail \/ StartXvfb \/ XvfbFails
  \/ MkdirTemp \/ NoProfile \/ WriteUserJS \/ BuildEnv \/ OpenPipes \/ StartFails
  \/ ExecStart \/ Enabled \/ EnableFails \/ ProxySet \/ ProxyFails \/ Retry \/ GiveUp
StopStep(a) ==
  \/ Lock(a) \/ Send(a) \/ WaitReturns(a) \/ TimerFires(a) \/ CloseClient(a)
  \/ RemoveProfile(a) \/ Unlock(a) \/ Cleanup(a)

Next ==
  \/ LaunchStep
  \/ \E a \in Actors : StopStep(a)
  \/ \E c \in Closers : Close(c)
  \/ \E k \in Attempts : Exits(k) \/ Dies(k)
  \/ PipeFills \/ PipeDrains \/ ContextEnds

(* Code runs on, a write goes through when there is room in the pipe again *)
(* and again, and a killed process dies.                                   *)
Fairness ==
  /\ WF_vars(LaunchStep)
  /\ \A a \in Actors : WF_vars(StopStep(a)) /\ SF_vars(Send(a))
  /\ \A k \in Attempts : WF_vars(Dies(k))
Spec == Init /\ [][Next]_vars /\ Fairness

-----------------------------------------------------------------------------
(* Properties. *)

Live == {k \in Attempts : child[k] \in {"running", "dying"}}

(* Once Launch has failed, whichever step it was, or any one of the        *)
(* concurrent Close calls has returned, nothing is left of the browser: no *)
(* process or unreaped child, no pipe end, no temporary profile but one    *)
(* whose removal failed, and a display server only as a child that was     *)
(* killed and not waited for, when it was StartXvfb itself that failed.    *)
(* (camoufox.go:246-272, 360-366; launch.go:79-125, 161-189;               *)
(* xvfb.go:88-99)                                                          *)
NothingLeaks ==
  At(Launcher, "failed") \/ (\E c \in Closers : At(c, "closed"))
    => /\ \A k \in Attempts : child[k] \in {"none", "reaped"} /\ ends[k] = {}
       /\ dirs \subseteq kept
       /\ xvfb \in {"none", "reaped"} \/ (xvfb = "killed" /\ attempt = 0)

(* Two browsers never share a profile, the second attempt comes when the   *)
(* first browser is dead, and a live browser keeps its profile and its     *)
(* pipe.  (camoufox.go:246-269; launch.go:177-187)                         *)
BrowserOwnsProfile ==
  /\ Cardinality(Live) <= 1
  /\ \A k \in Live : (setup.own => k \in dirs) /\ ends[k] = OurEnds

(* The layer that gives the language names no script. *)
Scriptless(o) ==
  IF o.locale # None THEN ~o.localeScript ELSE o.geo # None /\ ~o.geoScript

(* Who is to give a key: the caller before GeoIP, GeoIP before the map     *)
(* that is laid over.  The script goes with the language, and the rest of  *)
(* a WebGL sample with its pair; a pair of the map that the database does  *)
(* not have gets the rest of a random one.                                 *)
Givers(o, k) ==
  LET base == IF k \in o.base THEN "base" ELSE None
      first(own, geo) == IF own THEN {"user"} ELSE IF geo THEN {"geo"} ELSE {base}
      geoIP  == o.geo # None
      locale == o.locale # None
      sampled == o.webGl # "blocked" /\ o.known
  IN CASE k = "timezone" -> first(o.timezone, geoIP)
       [] k = "language" -> first(locale, geoIP)
       [] k = "script"   -> IF Scriptless(o) THEN {None} ELSE first(locale, geoIP)
       [] k = "locales"  -> first(o.locale = "list", FALSE)
       [] k = "position" -> first(FALSE, geoIP)
       [] k = "webrtc4"  -> first(o.webRTCIP, o.geo = "ipv4" /\ ~o.blockWebRTC)
       [] k = "webrtc6"  -> first(FALSE, o.geo = "ipv6" /\ ~o.blockWebRTC)
       [] k = "fonts"    -> first(o.fonts, FALSE)
       [] k \in {"addons", "window"} -> first(o.rest, FALSE)
       [] k = "allowMainWorld" ->
            IF base = None THEN first(o.rest, FALSE) ELSE {base}
       [] k = "webGl" ->
            IF o.webGl = "forced" THEN {"user"}
            ELSE IF base = None /\ sampled THEN {"sample"} ELSE {base}
       [] k = "webGlParams" ->
            IF o.webGl = "forced" THEN {"user"}
            ELSE IF base # None \/ ~sampled THEN {base}
            ELSE IF "webGl" \in o.base THEN {"base", "sample"} ELSE {"sample"}

(* Where the code lets a lower layer win: its script under a language that *)
(* comes without one; and the WebGL pair of the map, or the rest of its    *)
(* sample, under a forced pair, which is dropped if the map names no OS.   *)
Overruled(o) ==
  {k \in {"script"} : /\ Scriptless(o)
                      /\ k \in o.base \/ (o.geo # None /\ o.geoScript)} \cup
  {k \in {"webGl", "webGlParams"} : o.webGl = "forced" /\ (k \in o.base \/ ~o.known)}

(* Nobody else's variable follows the last one, or replaces one, of the    *)
(* text.                                                                   *)
Untouched ==
  /\ Ceil(Len(Text(cfg))) + 1 \notin DOMAIN setup.inherited
  /\ DOMAIN setup.extra = {}

(* A running browser has a configuration in which every key has the giver  *)
(* that takes precedence, where the code does not overrule it; and, joining*)
(* its CAMOU_CONFIG variables, it reads the whole of it and nothing else,  *)
(* however long it is and whatever lower or far higher variables were      *)
(* inherited.  (config.go:44-71, launch.go:133-142, launchopts.go:74-229)  *)
ConfigArrives ==
  Live # {} =>
    /\ \A key \in Keys \ Overruled(setup.config) : cfg[key] \in Givers(setup.config, key)
    /\ Untouched => Decode(env) = Text(cfg)

(* Launch comes to an answer, and every Close returns, with a browser that *)
(* exits early, never answers or ignores Browser.close; unless it hangs    *)
(* for good with its pipe full: then the write that comes before the timer *)
(* keeps a Close, and with it every other, waiting.  (launch.go:161-189)   *)
LaunchAndCloseReturn ==
  /\ ~At(Launcher, "idle") ~> pc[Launcher] \in Over
  /\ (\A c \in Closers : ~At(c, "idle") ~> pc[c] \in Over) \/ <>[]Hung
=============================================================================
