---------------------------- MODULE LaunchProofs ----------------------------
(* Theorems about Launch, for every set of concurrent Close calls, every    *)
(* set of options and every chunk size.                                     *)
EXTENDS Launch, FiniteSetTheorems, SequenceTheorems, WellFoundedInduction, TLAPS

Values  == {None, "base", "geo", "user", "sample"}
Phase   == pc[Launcher]
Mid     == {"send", "wait", "reap", "client", "remove"}
Through == {"unlock", "cleanup", "closed"}
Idle    == {"options", "display", "profile", "next", "failed"}

(* Nothing is left of attempt k but a profile that could not be removed;    *)
(* the browser of the last attempt has what it needs, be it running, dying  *)
(* or waiting to be reaped.                                                 *)
Clean(k) == child[k] \in {"none", "reaped"} /\ ends[k] = {} /\ (k \in dirs => k \in kept)
Up == /\ child[attempt] \in {"running", "dying", "exited"}
      /\ ends[attempt] = OurEnds
      /\ setup.own => attempt \in dirs

(* The attempts before the last one are over. *)
AttemptInv ==
  /\ Phase \in {"options", "display"} => attempt = 0 /\ xvfb = "none"
  /\ Phase = "profile" => attempt < 2
  /\ Phase \notin {"options", "display", "profile", "failed"} => attempt \in Attempts
  /\ \A k \in Attempts : k # attempt => Clean(k)

(* Who is inside Stop holds the lock, and nobody is through before him. *)
LockInv ==
  /\ \A a \in Actors : pc[a] \in Mid \cup {"unlock"} => lock = a
  /\ \A a \in Actors : pc[a] \in Mid \cup Through => stopped
  /\ \A c \in Closers : /\ pc[c] # "idle" => Phase = "open"
                        /\ pc[c] \in {"idle", "lock"} \cup Mid \cup Through
  /\ Phase \notin {"idle", "closed"}
  /\ \A a, b \in Actors : pc[a] \in Mid => pc[b] \notin Through

(* What there is of the last attempt at each stage. *)
StageInv ==
  /\ Phase \in Idle => \A k \in Attempts : Clean(k)
  /\ Phase \in {"prefs", "env", "pipes", "exec"} =>
       /\ child[attempt] \in {"none", "reaped"}
       /\ setup.own => attempt \in dirs
       /\ ~stopped
  /\ Phase \in {"prefs", "env", "pipes"} => ends[attempt] = {}
  /\ Phase \in {"enable", "proxy"} => ~stopped
  /\ Phase \in {"enable", "proxy", "open", "lock"} /\ ~stopped => Up
  /\ \A a \in Actors : pc[a] \in {"send", "wait", "reap"} => Up
  /\ \A a \in Actors : pc[a] \in {"client", "remove"} => child[attempt] = "reaped"
  /\ \A a \in Actors : pc[a] = "remove" => ends[attempt] = {}
  /\ stopped /\ (\A a \in Actors : pc[a] \notin Mid) => \A k \in Attempts : Clean(k)

(* Only a StartXvfb that fails leaves a killed display server unreaped.     *)
DisplayInv ==
  /\ Phase = "failed" \/ (\E c \in Closers : pc[c] = "closed") => xvfb # "running"
  /\ xvfb = "killed" => Phase = "failed" /\ attempt = 0

IInv == TypeOK /\ AttemptInv /\ LockInv /\ StageInv /\ DisplayInv

-----------------------------------------------------------------------------
(* EnvVars: division by the chunk size, and where the text goes. *)
LEMMA DivMod ==
  ASSUME NEW m \in Nat, NEW c \in Nat \ {0}
  PROVE  /\ m \div c \in Nat /\ m % c \in 0..(c - 1)
         /\ m = c * (m \div c) + (m % c)
  BY Z3

LEMMA DivAtLeast ==
  ASSUME NEW m \in Nat, NEW c \in Nat \ {0}, NEW a \in Nat, a * c <= m
  PROVE  a <= m \div c
<1> DEFINE d == m \div c
<1>1. d \in Nat /\ m < c * d + c
  BY DivMod
<1>2. SUFFICES ASSUME a >= d + 1 PROVE FALSE
  BY <1>1
<1>3. a * c >= (d + 1) * c
  BY <1>1, <1>2, Z3
<1>4. (d + 1) * c = c * d + c
  BY <1>1, Z3
<1> QED BY <1>1, <1>3, <1>4

(* Every rune of the configuration is in the variable, at the place, where  *)
(* a browser that joins the variables looks for it, and no variable is      *)
(* empty or longer than the chunk size, whatever the length of the text;    *)
(* also when it is a multiple of the chunk size.  (config.go:44-71)         *)
THEOREM ChunksHoldText ==
  ASSUME NEW S, NEW text \in Seq(S), NEW j \in 1..Len(text)
  PROVE  \E i \in 1..Len(EnvVars(text)) :
           /\ Len(EnvVars(text)[i]) \in 1..ChunkSize
           /\ j - (i - 1) * ChunkSize \in 1..Len(EnvVars(text)[i])
           /\ EnvVars(text)[i][j - (i - 1) * ChunkSize] = text[j]
<1> USE ChunkAssumption
<1> DEFINE C == ChunkSize
           n == Len(text)
           q == (j - 1) \div C
           r == (j - 1) % C
           last == IF (q + 1) * C > n THEN n ELSE (q + 1) * C
<1>1. n \in Nat /\ j \in Nat /\ j >= 1 /\ j <= n /\ j - 1 \in Nat /\ n + C - 1 \in
       Nat
  OBVIOUS
<1>2. q \in Nat /\ r \in 0..(C - 1) /\ j - 1 = C * q + r
  BY <1>1, DivMod, Zenon
<1>3. q * C = C * q /\ (q + 1) * C = C * q + C
  BY <1>2, Z3
<1>4. q + 1 <= (n + C - 1) \div C
  <2> HIDE DEF q, r
  <2>1. (q + 1) * C <= n + C - 1 /\ q + 1 \in Nat
    BY <1>1, <1>2, <1>3
  <2> QED BY <1>1, <2>1, DivAtLeast, Zenon
<1>5. (n + C - 1) \div C \in Nat
  BY <1>1, DivMod, Zenon
<1>6. q + 1 \in 1..Ceil(n)
  BY <1>2, <1>4, <1>5 DEF Ceil
<1>7. Len(EnvVars(text)) = Ceil(n)
  BY <1>5, <1>1 DEF EnvVars, Ceil
<1>8. EnvVars(text)[q + 1] = SubSeq(text, C * q + 1, last)
  <2> HIDE DEF q, r
  <2>1. EnvVars(text)[q + 1] = SubSeq(text, ((q + 1) - 1) * C + 1, last)
    BY <1>6 DEF EnvVars
  <2>2. ((q + 1) - 1) * C + 1 = C * q + 1
    BY <1>2, <1>3
  <2> QED BY <2>1, <2>2
<1>9. last \in Nat /\ last <= n /\ last >= j /\ last <= C * q + C
  BY <1>1, <1>2, <1>3
<1>10. /\ Len(SubSeq(text, C * q + 1, last)) = last - C * q
       /\ \A p \in 1..(last - C * q) : SubSeq(text, C * q + 1, last)[p] = text[C * q + p]
  BY <1>1, <1>2, <1>3, <1>9
<1>11. (q + 1) - 1 = q /\ j - q * C = r + 1 /\ C * q + (r + 1) = j /\ last - C * q
       \in 1..C
  BY <1>1, <1>2, <1>3, <1>9
<1> HIDE DEF q, r, last
<1>12. /\ Len(EnvVars(text)[q + 1]) \in 1..C
       /\ j - q * C \in 1..Len(EnvVars(text)[q + 1])
  BY <1>2, <1>8, <1>9, <1>10, <1>11, <1>1
<1>13. EnvVars(text)[q + 1][j - q * C] = text[j]
  BY <1>2, <1>8, <1>9, <1>10, <1>11, <1>12
<1> QED BY <1>6, <1>7, <1>11, <1>12, <1>13

-----------------------------------------------------------------------------
(* The keys have one of the givers as their value. *)
LEMMA OptionsTyped ==
  ASSUME NEW o \in Options, NEW c \in [Keys -> Values], NEW d \in applyLaunchOptions(o, c)
  PROVE  d \in [Keys -> Values]
<1> USE DEF Values
<1>1. \A m \in [Keys -> Values], v \in Values : \A ks :
        Set(m, ks, v) \in [Keys -> Values] /\ Default(m, ks, v) \in [Keys -> Values]
  BY DEF Set, Default
<1>2. \A m \in [Keys -> Values] : \A b, ks : If(b, ks, m) \in [Keys -> Values]
  BY <1>1 DEF If
<1>3. \A m \in [Keys -> Values] : GeoIP(o, m) \in [Keys -> Values]
  BY <1>1 DEF GeoIP
<1>4. \A m \in [Keys -> Values] : Locale(o, m) \in [Keys -> Values]
  BY <1>1 DEF Locale, Options
<1>5. \A m \in [Keys -> Values] : WebGL(o, m) \subseteq [Keys -> Values]
  <2> SUFFICES ASSUME NEW m \in [Keys -> Values]
               PROVE  WebGL(o, m) \subseteq [Keys -> Values]
    OBVIOUS
  <2>1. "webGl" \in Keys
    BY KeyOrder[9] = "webGl", 9 \in DOMAIN KeyOrder DEF Keys, KeyOrder
  <2>2. sampleWebGL(o, m) \subseteq Values
    BY <2>1 DEF sampleWebGL
  <2> QED BY <1>1, <2>2 DEF WebGL
<1> QED
  <2> DEFINE fonts == If(o.fonts, {"fonts"}, c)
             place == Locale(o, GeoIP(o, fonts))
             own   == If(o.webRTCIP, {"webrtc4"}, If(o.timezone, {"timezone"}, place))
             main  == IF o.rest THEN Default(own, {"allowMainWorld"}, "user") ELSE own
  <2>1. place \in [Keys -> Values]
    BY <1>2, <1>3, <1>4
  <2>2. own \in [Keys -> Values]
    BY <1>2, <2>1
  <2>3. main \in [Keys -> Values]
    BY <1>1, <2>2
  <2>4. WebGL(o, main) \subseteq [Keys -> Values]
    BY <1>5, <2>3
  <2>5. PICK w \in WebGL(o, main) : d = If(o.rest, {"addons", "window"}, w)
    BY DEF applyLaunchOptions
  <2> QED BY <1>2, <2>4, <2>5

-----------------------------------------------------------------------------
(* Type correctness *)

LEMMA InitTyped == Init => TypeOK
<1> SUFFICES ASSUME Init PROVE TypeOK
  OBVIOUS
<1>1. cfg \in [Keys -> {None, "base", "geo", "user", "sample"}]
  BY DEF Init, fingerprint
<1>2. pc \in [Actors -> {"idle"} \cup Starting \cup Stopping \cup Over]
  BY DEF Init, Starting
<1> QED BY <1>1, <1>2 DEF Init, TypeOK, Attempts

LEMMA StepTyped == TypeOK /\ AttemptInv /\ [Next]_vars => TypeOK'
<1> SUFFICES ASSUME TypeOK, AttemptInv, [Next]_vars PROVE TypeOK'
  OBVIOUS
<1> USE DEF TypeOK, config, os, disk, world, proc, Attempts, Starting, Stopping, Over, Goto,
       At, Move
<1>1. ASSUME ApplyOptions PROVE TypeOK'
  <2>1. setup.config \in Options
    BY LaunchAssumption
  <2>2. cfg' \in [Keys -> Values]
    BY <1>1, <2>1, OptionsTyped DEF ApplyOptions, Values
  <2> QED BY <1>1, <2>2 DEF ApplyOptions, Display, Values
<1>2. ASSUME OptionsFail PROVE TypeOK'
  BY <1>2 DEF OptionsFail
<1>3. ASSUME StartXvfb PROVE TypeOK'
  BY <1>3 DEF StartXvfb
<1>4. ASSUME XvfbFails PROVE TypeOK'
  BY <1>4 DEF XvfbFails
<1>5. ASSUME MkdirTemp PROVE TypeOK'
  <2>1. attempt \in {0, 1} /\ attempt' = attempt + 1
    BY <1>5 DEF MkdirTemp, Stat, AttemptInv, Phase
  <2>2. attempt' \in Attempts
    BY <2>1
  <2> QED BY <1>5, <2>2 DEF MkdirTemp, Stat
<1>6. ASSUME NoProfile PROVE TypeOK'
  <2>1. attempt \in {0, 1} /\ attempt' = attempt + 1
    BY <1>6 DEF NoProfile, Stat, AttemptInv, Phase
  <2>2. attempt' \in Attempts
    BY <2>1
  <2> QED BY <1>6, <2>2 DEF NoProfile, Stat
<1>7. ASSUME WriteUserJS PROVE TypeOK'
  BY <1>7 DEF WriteUserJS, Started
<1>8. ASSUME BuildEnv PROVE TypeOK'
  BY <1>8 DEF BuildEnv, Started
<1>9. ASSUME OpenPipes PROVE TypeOK'
  BY <1>9 DEF OpenPipes, Holds, Started, OurEnds, AllEnds
<1>10. ASSUME StartFails PROVE TypeOK'
  <2>1. dirs' \subseteq Attempts /\ kept' \subseteq Attempts
    BY <1>10 DEF StartFails, DropProfile
  <2>2. pc' \in [Actors -> {"idle"} \cup Starting \cup Stopping \cup Over]
    BY <1>10 DEF StartFails
  <2>3. ends' \in [Attempts -> SUBSET AllEnds]
    BY <1>10 DEF StartFails, Holds
  <2> QED BY <1>10, <2>1, <2>2, <2>3 DEF StartFails, Started
<1>11. ASSUME ExecStart PROVE TypeOK'
  BY <1>11 DEF ExecStart, Holds, OurEnds, AllEnds
<1>12. ASSUME Enabled PROVE TypeOK'
  BY <1>12 DEF Enabled
<1>13. ASSUME EnableFails PROVE TypeOK'
  BY <1>13 DEF EnableFails, Waiting
<1>14. ASSUME ProxySet PROVE TypeOK'
  BY <1>14 DEF ProxySet, Waiting
<1>15. ASSUME ProxyFails PROVE TypeOK'
  BY <1>15 DEF ProxyFails, Waiting
<1>16. ASSUME Retry PROVE TypeOK'
  BY <1>16 DEF Retry, Waiting
<1>17. ASSUME GiveUp PROVE TypeOK'
  BY <1>17 DEF GiveUp, KillXvfb
<1>18. ASSUME NEW a \in Actors, StopStep(a) PROVE TypeOK'
  <2>1. CASE Lock(a)
    BY <2>1 DEF Lock
  <2>2. CASE Send(a)
    BY <2>2 DEF Send, Waiting
  <2>3. CASE WaitReturns(a)
    BY <2>3 DEF WaitReturns
  <2>4. CASE TimerFires(a)
    BY <2>4 DEF TimerFires, Kill
  <2>5. CASE CloseClient(a)
    BY <2>5 DEF CloseClient, Holds, OurEnds, AllEnds
  <2>6. CASE RemoveProfile(a)
    BY <2>6 DEF RemoveProfile, DropProfile
  <2>7. CASE Unlock(a)
    BY <2>7 DEF Unlock
  <2>8. CASE Cleanup(a)
    BY <2>8 DEF Cleanup, KillXvfb
  <2> QED BY <1>18, <2>1, <2>2, <2>3, <2>4, <2>5, <2>6, <2>7, <2>8 DEF StopStep
<1>19. ASSUME NEW c \in Closers, Close(c) PROVE TypeOK'
  BY <1>19 DEF Close, Waiting, Actors
<1>20. ASSUME NEW k \in Attempts, Exits(k) \/ Dies(k) PROVE TypeOK'
  BY <1>20 DEF Exits, Dies, Ends
<1>21. ASSUME ContextEnds \/ PipeFills \/ PipeDrains PROVE TypeOK'
  BY <1>21 DEF ContextEnds, PipeFills, PipeDrains
<1>22. ASSUME UNCHANGED vars PROVE TypeOK'
  BY <1>22 DEF vars
<1> QED BY <1>1, <1>2, <1>3, <1>4, <1>5, <1>6, <1>7, <1>8, <1>9, <1>10, <1>11,
       <1>12, <1>13, <1>14, <1>15, <1>16, <1>17, <1>18, <1>19, <1>20, <1>21, <1>22
       DEF Next, LaunchStep
-----------------------------------------------------------------------------
(* The step lemmas: the parts of IInv, each kept by every action. *)

(* Only the last attempt is ever touched. *)
LEMMA AttemptStep ==
  IInv /\ [Next]_vars => AttemptInv'
<1> SUFFICES ASSUME IInv, [Next]_vars PROVE AttemptInv'
  OBVIOUS
<1> USE ActorAssumption DEF IInv, TypeOK, config, os, disk, world, proc, Goto, At, Move,
       Actors, Phase, Attempts, AttemptInv, StageInv, Clean, Idle, Starting,
       Stopping, Over
<1>1. ASSUME ApplyOptions PROVE AttemptInv'
  BY <1>1 DEF ApplyOptions, Display
<1>2. ASSUME OptionsFail PROVE AttemptInv'
  BY <1>2 DEF OptionsFail
<1>3. ASSUME StartXvfb PROVE AttemptInv'
  BY <1>3 DEF StartXvfb
<1>4. ASSUME XvfbFails PROVE AttemptInv'
  BY <1>4 DEF XvfbFails
<1>5. ASSUME MkdirTemp PROVE AttemptInv'
  BY <1>5 DEF MkdirTemp, Stat
<1>6. ASSUME NoProfile PROVE AttemptInv'
  BY <1>6 DEF NoProfile, Stat
<1>7. ASSUME WriteUserJS PROVE AttemptInv'
  BY <1>7 DEF WriteUserJS, Started
<1>8. ASSUME BuildEnv PROVE AttemptInv'
  BY <1>8 DEF BuildEnv, Started
<1>9. ASSUME OpenPipes PROVE AttemptInv'
  BY <1>9 DEF OpenPipes, Holds, Started
<1>10. ASSUME StartFails PROVE AttemptInv'
  BY <1>10 DEF StartFails, Holds, DropProfile, Started
<1>11. ASSUME ExecStart PROVE AttemptInv'
  BY <1>11 DEF ExecStart, Holds
<1>12. ASSUME Enabled PROVE AttemptInv'
  BY <1>12 DEF Enabled
<1>13. ASSUME EnableFails PROVE AttemptInv'
  BY <1>13 DEF EnableFails, Waiting
<1>14. ASSUME ProxySet PROVE AttemptInv'
  BY <1>14 DEF ProxySet, Waiting
<1>15. ASSUME ProxyFails PROVE AttemptInv'
  BY <1>15 DEF ProxyFails, Waiting
<1>16. ASSUME Retry PROVE AttemptInv'
  BY <1>16 DEF Retry, Waiting
<1>17. ASSUME GiveUp PROVE AttemptInv'
  BY <1>17 DEF GiveUp, KillXvfb
<1>18. ASSUME NEW a \in Actors, StopStep(a) PROVE AttemptInv'
  <2>1. CASE Lock(a)
    BY <2>1 DEF Lock
  <2>2. CASE Send(a)
    BY <2>2 DEF Send, Waiting
  <2>3. CASE WaitReturns(a)
    BY <2>3 DEF WaitReturns
  <2>4. CASE TimerFires(a)
    BY <2>4 DEF TimerFires, Kill
  <2>5. CASE CloseClient(a)
    BY <2>5 DEF CloseClient, Holds
  <2>6. CASE RemoveProfile(a)
    BY <2>6 DEF RemoveProfile, DropProfile
  <2>7. CASE Unlock(a)
    BY <2>7 DEF Unlock
  <2>8. CASE Cleanup(a)
    BY <2>8 DEF Cleanup, KillXvfb
  <2> QED BY <1>18, <2>1, <2>2, <2>3, <2>4, <2>5, <2>6, <2>7, <2>8 DEF StopStep
<1>19. ASSUME NEW c \in Closers, Close(c) PROVE AttemptInv'
  BY <1>19 DEF Close, Waiting
<1>20. ASSUME NEW k \in Attempts, Exits(k) \/ Dies(k) PROVE AttemptInv'
  BY <1>20 DEF Exits, Dies, Ends
<1>21. ASSUME ContextEnds \/ PipeFills \/ PipeDrains PROVE AttemptInv'
  BY <1>21 DEF ContextEnds, PipeFills, PipeDrains
<1>22. ASSUME UNCHANGED vars PROVE AttemptInv'
  BY <1>22 DEF vars
<1> QED BY <1>1, <1>2, <1>3, <1>4, <1>5, <1>6, <1>7, <1>8, <1>9, <1>10, <1>11,
       <1>12, <1>13, <1>14, <1>15, <1>16, <1>17, <1>18, <1>19, <1>20, <1>21, <1>22
       DEF Next, LaunchStep

(* Process.mu lets one actor at a time through Stop. *)
LEMMA LockStep ==
  IInv /\ [Next]_vars => LockInv'
<1> SUFFICES ASSUME IInv, [Next]_vars PROVE LockInv'
  OBVIOUS
<1> USE ActorAssumption DEF IInv, TypeOK, config, os, disk, world, proc, Goto, At, Move,
       Actors, Phase, Attempts, AttemptInv, LockInv, StageInv, Mid, Through
<1>1. ASSUME ApplyOptions PROVE LockInv'
  BY <1>1 DEF ApplyOptions, Display
<1>2. ASSUME OptionsFail PROVE LockInv'
  BY <1>2 DEF OptionsFail
<1>3. ASSUME StartXvfb PROVE LockInv'
  BY <1>3 DEF StartXvfb
<1>4. ASSUME XvfbFails PROVE LockInv'
  BY <1>4 DEF XvfbFails
<1>5. ASSUME MkdirTemp PROVE LockInv'
  BY <1>5 DEF MkdirTemp, Stat
<1>6. ASSUME NoProfile PROVE LockInv'
  BY <1>6 DEF NoProfile, Stat
<1>7. ASSUME WriteUserJS PROVE LockInv'
  BY <1>7 DEF WriteUserJS, Started
<1>8. ASSUME BuildEnv PROVE LockInv'
  BY <1>8 DEF BuildEnv, Started
<1>9. ASSUME OpenPipes PROVE LockInv'
  BY <1>9 DEF OpenPipes, Holds, Started
<1>10. ASSUME StartFails PROVE LockInv'
  BY <1>10 DEF StartFails, Holds, DropProfile, Started
<1>11. ASSUME ExecStart PROVE LockInv'
  BY <1>11 DEF ExecStart, Holds
<1>12. ASSUME Enabled PROVE LockInv'
  BY <1>12 DEF Enabled
<1>13. ASSUME EnableFails PROVE LockInv'
  BY <1>13 DEF EnableFails, Waiting
<1>14. ASSUME ProxySet PROVE LockInv'
  BY <1>14 DEF ProxySet, Waiting
<1>15. ASSUME ProxyFails PROVE LockInv'
  BY <1>15 DEF ProxyFails, Waiting
<1>16. ASSUME Retry PROVE LockInv'
  BY <1>16 DEF Retry, Waiting
<1>17. ASSUME GiveUp PROVE LockInv'
  BY <1>17 DEF GiveUp, KillXvfb
<1>18. ASSUME NEW a \in Actors, StopStep(a) PROVE LockInv'
  <2>1. CASE Lock(a)
    BY <2>1 DEF Lock
  <2>2. CASE Send(a)
    BY <2>2 DEF Send, Waiting
  <2>3. CASE WaitReturns(a)
    BY <2>3 DEF WaitReturns
  <2>4. CASE TimerFires(a)
    BY <2>4 DEF TimerFires, Kill
  <2>5. CASE CloseClient(a)
    BY <2>5 DEF CloseClient, Holds
  <2>6. CASE RemoveProfile(a)
    BY <2>6 DEF RemoveProfile, DropProfile
  <2>7. CASE Unlock(a)
    BY <2>7 DEF Unlock
  <2>8. CASE Cleanup(a)
    BY <2>8 DEF Cleanup, KillXvfb
  <2> QED BY <1>18, <2>1, <2>2, <2>3, <2>4, <2>5, <2>6, <2>7, <2>8 DEF StopStep
<1>19. ASSUME NEW c \in Closers, Close(c) PROVE LockInv'
  BY <1>19 DEF Close, Waiting
<1>20. ASSUME NEW k \in Attempts, Exits(k) \/ Dies(k) PROVE LockInv'
  BY <1>20 DEF Exits, Dies, Ends
<1>21. ASSUME ContextEnds \/ PipeFills \/ PipeDrains PROVE LockInv'
  BY <1>21 DEF ContextEnds, PipeFills, PipeDrains
<1>22. ASSUME UNCHANGED vars PROVE LockInv'
  BY <1>22 DEF vars
<1> QED BY <1>1, <1>2, <1>3, <1>4, <1>5, <1>6, <1>7, <1>8, <1>9, <1>10, <1>11,
       <1>12, <1>13, <1>14, <1>15, <1>16, <1>17, <1>18, <1>19, <1>20, <1>21, <1>22
       DEF Next, LaunchStep

(* Each stage leaves the next one what it expects. *)
LEMMA StageStep ==
  IInv /\ [Next]_vars => StageInv'
<1> SUFFICES ASSUME IInv, [Next]_vars PROVE StageInv'
  OBVIOUS
<1> USE ActorAssumption DEF IInv, TypeOK, config, os, disk, world, proc, Goto, At, Move,
       Actors, Phase, Attempts, AttemptInv, LockInv, StageInv, Clean, Up, Mid,
       Through, Idle
<1>1. ASSUME ApplyOptions PROVE StageInv'
  BY <1>1 DEF ApplyOptions, Display
<1>2. ASSUME OptionsFail PROVE StageInv'
  BY <1>2 DEF OptionsFail
<1>3. ASSUME StartXvfb PROVE StageInv'
  BY <1>3 DEF StartXvfb
<1>4. ASSUME XvfbFails PROVE StageInv'
  BY <1>4 DEF XvfbFails
<1>5. ASSUME MkdirTemp PROVE StageInv'
  BY <1>5 DEF MkdirTemp, Stat
<1>6. ASSUME NoProfile PROVE StageInv'
  BY <1>6 DEF NoProfile, Stat
<1>7. ASSUME WriteUserJS PROVE StageInv'
  BY <1>7 DEF WriteUserJS, Started
<1>8. ASSUME BuildEnv PROVE StageInv'
  BY <1>8 DEF BuildEnv, Started
<1>9. ASSUME OpenPipes PROVE StageInv'
  BY <1>9 DEF OpenPipes, Holds, Started
<1>10. ASSUME StartFails PROVE StageInv'
  BY <1>10 DEF StartFails, Holds, DropProfile, Started
<1>11. ASSUME ExecStart PROVE StageInv'
  BY <1>11 DEF ExecStart, Holds
<1>12. ASSUME Enabled PROVE StageInv'
  BY <1>12 DEF Enabled
<1>13. ASSUME EnableFails PROVE StageInv'
  BY <1>13 DEF EnableFails, Waiting
<1>14. ASSUME ProxySet PROVE StageInv'
  BY <1>14 DEF ProxySet, Waiting
<1>15. ASSUME ProxyFails PROVE StageInv'
  BY <1>15 DEF ProxyFails, Waiting
<1>16. ASSUME Retry PROVE StageInv'
  BY <1>16 DEF Retry, Waiting
<1>17. ASSUME GiveUp PROVE StageInv'
  BY <1>17 DEF GiveUp, KillXvfb
<1>18. ASSUME NEW a \in Actors, StopStep(a) PROVE StageInv'
  <2>1. CASE Lock(a)
    BY <2>1 DEF Lock
  <2>2. CASE Send(a)
    BY <2>2 DEF Send, Waiting
  <2>3. CASE WaitReturns(a)
    BY <2>3 DEF WaitReturns
  <2>4. CASE TimerFires(a)
    BY <2>4 DEF TimerFires, Kill
  <2>5. CASE CloseClient(a)
    BY <2>5 DEF CloseClient, Holds
  <2>6. CASE RemoveProfile(a)
    BY <2>6 DEF RemoveProfile, DropProfile
  <2>7. CASE Unlock(a)
    BY <2>7 DEF Unlock
  <2>8. CASE Cleanup(a)
    BY <2>8 DEF Cleanup, KillXvfb
  <2> QED BY <1>18, <2>1, <2>2, <2>3, <2>4, <2>5, <2>6, <2>7, <2>8 DEF StopStep
<1>19. ASSUME NEW c \in Closers, Close(c) PROVE StageInv'
  BY <1>19 DEF Close, Waiting
<1>20. ASSUME NEW k \in Attempts, Exits(k) \/ Dies(k) PROVE StageInv'
  BY <1>20 DEF Exits, Dies, Ends
<1>21. ASSUME ContextEnds \/ PipeFills \/ PipeDrains PROVE StageInv'
  BY <1>21 DEF ContextEnds, PipeFills, PipeDrains
<1>22. ASSUME UNCHANGED vars PROVE StageInv'
  BY <1>22 DEF vars
<1> QED BY <1>1, <1>2, <1>3, <1>4, <1>5, <1>6, <1>7, <1>8, <1>9, <1>10, <1>11,
       <1>12, <1>13, <1>14, <1>15, <1>16, <1>17, <1>18, <1>19, <1>20, <1>21, <1>22
       DEF Next, LaunchStep

(* The display server goes before anybody is done. *)
LEMMA DisplayStep ==
  IInv /\ [Next]_vars => DisplayInv'
<1> SUFFICES ASSUME IInv, [Next]_vars PROVE DisplayInv'
  OBVIOUS
<1> USE ActorAssumption DEF IInv, TypeOK, config, os, disk, world, proc, Goto, At, Move,
       Actors, Phase, Attempts, AttemptInv, LockInv, DisplayInv, Through, Mid
<1>1. ASSUME ApplyOptions PROVE DisplayInv'
  BY <1>1 DEF ApplyOptions, Display
<1>2. ASSUME OptionsFail PROVE DisplayInv'
  BY <1>2 DEF OptionsFail
<1>3. ASSUME StartXvfb PROVE DisplayInv'
  BY <1>3 DEF StartXvfb
<1>4. ASSUME XvfbFails PROVE DisplayInv'
  BY <1>4 DEF XvfbFails
<1>5. ASSUME MkdirTemp PROVE DisplayInv'
  BY <1>5 DEF MkdirTemp, Stat
<1>6. ASSUME NoProfile PROVE DisplayInv'
  BY <1>6 DEF NoProfile, Stat
<1>7. ASSUME WriteUserJS PROVE DisplayInv'
  BY <1>7 DEF WriteUserJS, Started
<1>8. ASSUME BuildEnv PROVE DisplayInv'
  BY <1>8 DEF BuildEnv, Started
<1>9. ASSUME OpenPipes PROVE DisplayInv'
  BY <1>9 DEF OpenPipes, Holds, Started
<1>10. ASSUME StartFails PROVE DisplayInv'
  BY <1>10 DEF StartFails, Holds, DropProfile, Started
<1>11. ASSUME ExecStart PROVE DisplayInv'
  BY <1>11 DEF ExecStart, Holds
<1>12. ASSUME Enabled PROVE DisplayInv'
  BY <1>12 DEF Enabled
<1>13. ASSUME EnableFails PROVE DisplayInv'
  BY <1>13 DEF EnableFails, Waiting
<1>14. ASSUME ProxySet PROVE DisplayInv'
  BY <1>14 DEF ProxySet, Waiting
<1>15. ASSUME ProxyFails PROVE DisplayInv'
  BY <1>15 DEF ProxyFails, Waiting
<1>16. ASSUME Retry PROVE DisplayInv'
  BY <1>16 DEF Retry, Waiting
<1>17. ASSUME GiveUp PROVE DisplayInv'
  BY <1>17 DEF GiveUp, KillXvfb
<1>18. ASSUME NEW a \in Actors, StopStep(a) PROVE DisplayInv'
  <2>1. CASE Lock(a)
    BY <2>1 DEF Lock
  <2>2. CASE Send(a)
    BY <2>2 DEF Send, Waiting
  <2>3. CASE WaitReturns(a)
    BY <2>3 DEF WaitReturns
  <2>4. CASE TimerFires(a)
    BY <2>4 DEF TimerFires, Kill
  <2>5. CASE CloseClient(a)
    BY <2>5 DEF CloseClient, Holds
  <2>6. CASE RemoveProfile(a)
    BY <2>6 DEF RemoveProfile, DropProfile
  <2>7. CASE Unlock(a)
    BY <2>7 DEF Unlock
  <2>8. CASE Cleanup(a)
    BY <2>8 DEF Cleanup, KillXvfb
  <2> QED BY <1>18, <2>1, <2>2, <2>3, <2>4, <2>5, <2>6, <2>7, <2>8 DEF StopStep
<1>19. ASSUME NEW c \in Closers, Close(c) PROVE DisplayInv'
  BY <1>19 DEF Close, Waiting
<1>20. ASSUME NEW k \in Attempts, Exits(k) \/ Dies(k) PROVE DisplayInv'
  BY <1>20 DEF Exits, Dies, Ends
<1>21. ASSUME ContextEnds \/ PipeFills \/ PipeDrains PROVE DisplayInv'
  BY <1>21 DEF ContextEnds, PipeFills, PipeDrains
<1>22. ASSUME UNCHANGED vars PROVE DisplayInv'
  BY <1>22 DEF vars
<1> QED BY <1>1, <1>2, <1>3, <1>4, <1>5, <1>6, <1>7, <1>8, <1>9, <1>10, <1>11,
       <1>12, <1>13, <1>14, <1>15, <1>16, <1>17, <1>18, <1>19, <1>20, <1>21, <1>22
       DEF Next, LaunchStep

-----------------------------------------------------------------------------
LEMMA InitInv == Init => IInv
<1> SUFFICES ASSUME Init PROVE IInv
  OBVIOUS
<1> USE ActorAssumption DEF Init, Phase, Actors, Attempts
<1>1. TypeOK
  BY InitTyped
<1>2. AttemptInv
  BY DEF AttemptInv, Clean
<1>3. LockInv
  BY DEF LockInv, Mid, Through
<1>4. StageInv
  BY DEF StageInv, Clean, Up, Mid, Idle
<1>5. DisplayInv
  BY DEF DisplayInv
<1> QED BY <1>1, <1>2, <1>3, <1>4, <1>5 DEF IInv

THEOREM LaunchInvariant == Spec => []IInv
<1>1. Init => IInv
  BY InitInv
<1>2. IInv /\ [Next]_vars => IInv'
  BY StepTyped, AttemptStep, LockStep, StageStep, DisplayStep DEF IInv
<1> QED BY <1>1, <1>2, PTL DEF Spec

(* Every state of Launch and of its Close calls has the types TypeOK gives; *)
(* in particular there is no third attempt.  (camoufox.go:251-269)          *)
THEOREM LaunchTypeCorrect == Spec => []TypeOK
<1>1. IInv => TypeOK
  BY DEF IInv
<1> QED BY <1>1, LaunchInvariant, PTL

(* Two browsers never share a profile or live at the same time, and a live  *)
(* one has its profile and its pipe.  (camoufox.go:246-269, launch.go:71-189) *)
THEOREM ProfileIsOwned == Spec => []BrowserOwnsProfile
<1>1. IInv => BrowserOwnsProfile
  <2> SUFFICES ASSUME IInv PROVE BrowserOwnsProfile
    OBVIOUS
  <2>1. \A k \in Live : k = attempt
    BY DEF IInv, AttemptInv, Clean, Live
  <2>2. \A k \in Live : (setup.own => k \in dirs) /\ ends[k] = OurEnds
    <3> SUFFICES ASSUME attempt \in Live
                 PROVE  (setup.own => attempt \in dirs) /\ ends[attempt] = OurEnds
      BY <2>1
    <3>1. child[attempt] \in {"running", "dying"} /\ attempt \in Attempts
      BY DEF Live
    <3>2. ~Clean(attempt)
      BY <3>1 DEF Clean
    <3>3. Up
      BY <3>1, <3>2 DEF IInv, StageInv, LockInv, TypeOK, Mid, Through, Idle, Phase,
                        Actors, Starting, Stopping, Over
    <3> QED BY <3>3 DEF Up
  <2>3. Cardinality(Live) <= 1
    <3>1. Live \subseteq {attempt}
      BY <2>1
    <3>2. IsFiniteSet({attempt}) /\ Cardinality({attempt}) = 1
      BY FS_Singleton
    <3>3. Cardinality(Live) <= Cardinality({attempt})
      BY <3>1, <3>2, FS_Subset
    <3> QED BY <3>2, <3>3
  <2> QED BY <2>2, <2>3 DEF BrowserOwnsProfile
<1> QED BY <1>1, LaunchInvariant, PTL

(* When Launch has failed, or any one of the concurrent Close calls has     *)
(* returned, nothing is left but a temporary profile whose removal failed   *)
(* and the killed display server of a StartXvfb that failed, unreaped.      *)
(* (camoufox.go:246-272, 360-366; launch.go:79-125, 161-189; xvfb.go:88-99) *)
THEOREM NothingIsLeft == Spec => []NothingLeaks
<1>1. IInv => NothingLeaks
  <2> SUFFICES ASSUME IInv, Phase = "failed" \/ \E c \in Closers : pc[c] = "closed"
               PROVE  /\ \A k \in Attempts : Clean(k)
                      /\ xvfb # "running"
    BY DEF NothingLeaks, Clean, At, Phase, IInv, TypeOK, Attempts, DisplayInv
  <2>1. CASE Phase = "failed"
    BY <2>1 DEF IInv, StageInv, Idle, DisplayInv
  <2>2. CASE \E c \in Closers : pc[c] = "closed"
    <3>1. PICK c \in Closers : pc[c] = "closed"
      BY <2>2
    <3>2. stopped /\ \A a \in Actors : pc[a] \notin Mid
      BY <3>1 DEF IInv, LockInv, Through, Actors
    <3> QED BY <3>1, <3>2 DEF IInv, StageInv, DisplayInv
  <2> QED BY <2>1, <2>2
<1> QED BY <1>1, LaunchInvariant, PTL
-----------------------------------------------------------------------------
(* Induction over the natural numbers, for a set of numbers rather than a   *)
(* predicate, and functions defined by recursion over them.                 *)
LEMMA LeastNumber ==
  ASSUME NEW T \in SUBSET Nat, T # {}
  PROVE  \E n \in T : \A m \in T : n <= m
<1>1. PICK n \in T : \A m \in T : ~(<<m, n>> \in OpToRel(<, Nat))
  BY NatLessThanWellFounded, WFMin, Zenon
<1>2. \A m \in T : ~(m < n)
  BY <1>1 DEF OpToRel
<1> QED BY <1>2

LEMMA Induction ==
  ASSUME NEW T \in SUBSET Nat, 0 \in T, \A n \in T : n + 1 \in T
  PROVE  T = Nat
<1>1. SUFFICES ASSUME Nat \ T # {} PROVE FALSE
  OBVIOUS
<1>2. PICK n \in Nat \ T : \A m \in Nat \ T : n <= m
  BY <1>1, LeastNumber
<1>3. n - 1 \in T
  BY <1>2
<1> QED BY <1>2, <1>3

(* There is a function that starts with v and goes on as step says: for     *)
(* each bound there is one, by induction, and its values up to the bound    *)
(* are the only ones there are.                                             *)
Follows(g, n, v, step) ==
  /\ g[0] = v
  /\ \A i \in Nat : i < n => g[i + 1] = step[i + 1][g[i]]

Recurs(f, m, v, step) ==
  /\ f[0] = v
  /\ \A n \in 1..m : f[n] = step[n][f[n - 1]]

LEMMA RecursionDefines ==
  ASSUME NEW V, NEW v \in V, NEW m \in Nat, NEW step \in [1..m -> [V -> V]]
  PROVE  \E f \in [0..m -> V] : Recurs(f, m, v, step)
<1> DEFINE T == {n \in Nat : n <= m => \E g \in [Nat -> V] : Follows(g, n, v, step)}
<1>1. 0 \in T
  <2>1. Follows([i \in Nat |-> v], 0, v, step)
    BY DEF Follows
  <2> QED BY <2>1
<1>2. ASSUME NEW n \in T PROVE n + 1 \in T
  <2>1. SUFFICES ASSUME n + 1 <= m
                 PROVE  \E g \in [Nat -> V] : Follows(g, n + 1, v, step)
    OBVIOUS
  <2>2. PICK g \in [Nat -> V] : Follows(g, n, v, step)
    BY <2>1
  <2>3. n + 1 \in 1..m
    BY <2>1
  <2> DEFINE h == [g EXCEPT ![n + 1] = step[n + 1][g[n]]]
  <2>4. h \in [Nat -> V]
    BY <2>3
  <2>5. Follows(h, n + 1, v, step)
    BY <2>2, <2>3 DEF Follows
  <2> HIDE DEF h
  <2> QED BY <2>4, <2>5
<1>3. T = Nat
  <2> HIDE DEF T
  <2>1. T \in SUBSET Nat
    BY DEF T
  <2> QED BY <1>1, <1>2, <2>1, Induction
<1>4. PICK g \in [Nat -> V] : Follows(g, m, v, step)
  <2>1. m \in T
    BY <1>3
  <2> QED BY <2>1
<1> DEFINE f == [i \in 0..m |-> g[i]]
<1>5. f \in [0..m -> V] /\ f[0] = v
  BY <1>4 DEF Follows
<1>6. ASSUME NEW n \in 1..m PROVE f[n] = step[n][f[n - 1]]
  <2>1. n - 1 \in Nat /\ n - 1 < m /\ (n - 1) + 1 = n
    OBVIOUS
  <2>2. g[(n - 1) + 1] = step[(n - 1) + 1][g[n - 1]]
    BY <1>4, <2>1 DEF Follows
  <2> QED BY <2>1, <2>2
<1> HIDE DEF f
<1>7. Recurs(f, m, v, step)
  BY <1>5, <1>6 DEF Recurs
<1> QED BY <1>5, <1>7

-----------------------------------------------------------------------------
(* Text: the braces, and one entry for every key that has a value. *)
Entry(c, i)   == <<KeyOrder[i], c[KeyOrder[i]]>>
Given(c, n)   == {Entry(c, i) : i \in {j \in 1..n : c[KeyOrder[j]] # None}}
Entries(text) == {text[i] : i \in 1..Len(text)}

LEMMA KeyOrderTyped == Len(KeyOrder) = 13 /\ \A i \in 1..13 : KeyOrder[i] \in Keys
<1>1. Len(KeyOrder) = 13 /\ DOMAIN KeyOrder = 1..13
  BY DEF KeyOrder
<1> QED BY <1>1 DEF Keys

Texts == Seq((Keys \X Values) \cup {Braces})
Longer(c) == [n \in 1..13 |-> [s \in Texts |->
                IF c[KeyOrder[n]] = None THEN s ELSE Append(s, Entry(c, n))]]

LEMMA TextDefined ==
  ASSUME NEW c \in [Keys -> Values]
  PROVE  \E t : /\ t[0] = <<Braces>> /\ Text(c) = t[13]
                /\ \A n \in 1..13 :
                     t[n] = IF c[KeyOrder[n]] = None THEN t[n - 1]
                            ELSE Append(t[n - 1], Entry(c, n))
<1> DEFINE Body(t) == [i \in 0..Len(KeyOrder) |->
                 IF i = 0 THEN <<Braces>>
                 ELSE IF c[KeyOrder[i]] = None THEN t[i - 1]
                 ELSE Append(t[i - 1], <<KeyOrder[i], c[KeyOrder[i]]>>)]
           IsText(t) == t = Body(t)
           text == CHOOSE t : IsText(t)
<1>1. Longer(c) \in [1..13 -> [Texts -> Texts]]
  BY KeyOrderTyped DEF Longer, Entry, Texts
<1>2. <<Braces>> \in Texts /\ 13 \in Nat
  BY DEF Texts
<1>3. PICK t \in [0..13 -> Texts] :
             t[0] = <<Braces>> /\ \A n \in 1..13 : t[n] = Longer(c)[n][t[n - 1]]
  <2>1. \E t \in [0..13 -> Texts] : Recurs(t, 13, <<Braces>>, Longer(c))
    BY <1>1, <1>2, RecursionDefines, Zenon
  <2> QED BY <2>1 DEF Recurs
<1>4. ASSUME NEW n \in 1..13
      PROVE  t[n] = IF c[KeyOrder[n]] = None THEN t[n - 1] ELSE Append(t[n - 1], Entry(c, n))
  <2>1. n - 1 \in 0..13
    OBVIOUS
  <2>2. t[n - 1] \in Texts /\ t[n] = Longer(c)[n][t[n - 1]]
    BY <1>3, <2>1
  <2> QED BY <2>2 DEF Longer
<1>5. \A i \in 0..13 : Body(t)[i] = t[i]
  <2> TAKE i \in 0..13
  <2>1. CASE i = 0
    BY <1>3, <2>1, KeyOrderTyped
  <2>2. CASE i # 0
    <3>1. i \in 1..13
      BY <2>2
    <3> QED BY <1>4, <2>2, <3>1, KeyOrderTyped DEF Entry
  <2> QED BY <2>1, <2>2
<1>6. DOMAIN Body(t) = 0..13 /\ Body(t) = [i \in DOMAIN Body(t) |-> Body(t)[i]]
  BY KeyOrderTyped
<1>7. IsText(t)
  <2> HIDE DEF Body
  <2> QED BY <1>3, <1>5, <1>6
<1>8. IsText(text)
  <2> HIDE DEF IsText
  <2> QED BY <1>7
<1>9. Text(c) = text[13]
  BY KeyOrderTyped DEF Text
<1>10. \A i \in 0..13 : text[i] = Body(text)[i]
  <2> HIDE DEF text, Body
  <2> QED BY <1>8
<1>11. text[0] = <<Braces>>
  <2> HIDE DEF text
  <2>1. text[0] = Body(text)[0]
    BY <1>10
  <2> QED BY <2>1, KeyOrderTyped
<1>12. ASSUME NEW n \in 1..13
       PROVE  text[n] = IF c[KeyOrder[n]] = None THEN text[n - 1]
                        ELSE Append(text[n - 1], Entry(c, n))
  <2> HIDE DEF text
  <2>1. n \in 0..13
    OBVIOUS
  <2>2. text[n] = Body(text)[n]
    BY <1>10, <2>1
  <2> QED BY <2>1, <2>2, KeyOrderTyped DEF Entry
<1> HIDE DEF text
<1> QED BY <1>9, <1>11, <1>12

LEMMA TextHolds ==
  ASSUME NEW c \in [Keys -> Values]
  PROVE  Text(c) \in Texts /\ Entries(Text(c)) = Given(c, 13) \cup {Braces}
<1>1. PICK t : /\ t[0] = <<Braces>> /\ Text(c) = t[13]
               /\ \A n \in 1..13 :
                    t[n] = IF c[KeyOrder[n]] = None THEN t[n - 1]
                           ELSE Append(t[n - 1], Entry(c, n))
  BY TextDefined
<1> DEFINE Right(n) == t[n] \in Texts /\ Entries(t[n]) = Given(c, n) \cup {Braces}
           T == {n \in Nat : n <= 13 => Right(n)}
<1>2. 0 \in T
  <2>1. <<Braces>> \in Texts /\ Entries(<<Braces>>) = {Braces} /\ Given(c, 0) = {}
    BY DEF Entries, Given, Texts
  <2> QED BY <1>1, <2>1
<1>3. ASSUME NEW n \in T PROVE n + 1 \in T
  <2>1. SUFFICES ASSUME n + 1 <= 13 PROVE Right(n + 1)
    OBVIOUS
  <2>2. n \in Nat /\ Right(n)
    BY <2>1
  <2>3. n + 1 \in 1..13 /\ (n + 1) - 1 = n
    BY <2>1
  <2>4. t[n + 1] = IF c[KeyOrder[n + 1]] = None THEN t[n] ELSE Append(t[n], Entry(c, n + 1))
    BY <1>1, <2>3
  <2>5. CASE c[KeyOrder[n + 1]] = None
    <3>1. Given(c, n + 1) = Given(c, n)
      BY <2>2, <2>5 DEF Given
    <3> QED BY <2>2, <2>4, <2>5, <3>1
  <2>6. CASE c[KeyOrder[n + 1]] # None
    <3> DEFINE e == Entry(c, n + 1)
    <3>1. Given(c, n + 1) = Given(c, n) \cup {e}
      BY <2>2, <2>6 DEF Given
    <3>2. e \in Keys \X Values
      BY <2>3, KeyOrderTyped DEF Entry
    <3>3. t[n + 1] = Append(t[n], e)
      BY <2>4, <2>6
    <3> HIDE DEF e
    <3>4. Append(t[n], e) \in Texts /\ Entries(Append(t[n], e)) = Entries(t[n]) \cup {e}
      <4> DEFINE s == t[n]
      <4>1. /\ Append(s, e) \in Texts
            /\ Len(s) \in Nat /\ Len(Append(s, e)) = Len(s) + 1
            /\ \A i \in 1..Len(s) : Append(s, e)[i] = s[i]
            /\ Append(s, e)[Len(s) + 1] = e
        BY <2>2, <3>2 DEF Texts
      <4> HIDE DEF s
      <4>2. 1..(Len(s) + 1) = 1..Len(s) \cup {Len(s) + 1}
        BY <4>1
      <4> QED BY <4>1, <4>2 DEF Entries, s
    <3> QED BY <2>2, <3>1, <3>2, <3>3, <3>4
  <2> QED BY <2>5, <2>6
<1>4. 13 \in T
  <2> HIDE DEF T
  <2>1. T \in SUBSET Nat
    BY DEF T
  <2> QED BY <1>2, <1>3, <2>1, Induction
<1> QED BY <1>1, <1>4

-----------------------------------------------------------------------------
(* Decode joins the variables up to the first number that is missing. *)
Joins(e, S, N) == [n \in 1..N |-> [s \in Seq(S) |-> s \o e[n]]]

Joined(j, e, N) ==
  /\ j[0] = <<>> /\ Decode(e) = j[N]
  /\ \A n \in 1..N : j[n] = j[n - 1] \o e[n]

LEMMA DecodeJoins ==
  ASSUME NEW S, NEW N \in Nat, NEW e, DOMAIN e \subseteq Nat \ {0},
         1..N \subseteq DOMAIN e, N + 1 \notin DOMAIN e, \A n \in 1..N : e[n] \in Seq(S)
  PROVE  \E j : Joined(j, e, N)
<1> DEFINE IsLast(n) == n + 1 \notin DOMAIN e /\ 1..n \subseteq DOMAIN e
           last == CHOOSE n \in {0} \cup DOMAIN e : IsLast(n)
           Body(f) == [n \in 0..last |-> IF n = 0 THEN <<>> ELSE f[n - 1] \o e[n]]
           join == CHOOSE f : f = Body(f)
<1>1. last = N
  <2>1. N \in {0} \cup DOMAIN e /\ IsLast(N)
    OBVIOUS
  <2>2. ASSUME NEW n \in {0} \cup DOMAIN e, IsLast(n) PROVE n = N
    <3>1. n \in Nat
      OBVIOUS
    <3>2. CASE n < N
      BY <2>2, <3>1, <3>2, n + 1 \in 1..N
    <3>3. CASE n > N
      BY <2>2, <3>1, <3>3, N + 1 \in 1..n
    <3> QED BY <3>1, <3>2, <3>3
  <2> HIDE DEF IsLast
  <2>3. last \in {0} \cup DOMAIN e /\ IsLast(last)
    BY <2>1
  <2> QED BY <2>2, <2>3
<1>2. Decode(e) = join[last]
  BY DEF Decode
<1> HIDE DEF last
<1>3. \E f : f = Body(f)
  <2> DEFINE step == Joins(e, S, N)
  <2>1. <<>> \in Seq(S) /\ step \in [1..N -> [Seq(S) -> Seq(S)]]
    BY DEF Joins
  <2>2. \A n \in 1..N, s \in Seq(S) : step[n][s] = s \o e[n]
    BY DEF Joins
  <2> HIDE DEF step
  <2>3. PICK f \in [0..N -> Seq(S)] :
             /\ f[0] = <<>>
             /\ \A n \in 1..N : f[n] = step[n][f[n - 1]]
    <3>1. \E f \in [0..N -> Seq(S)] : Recurs(f, N, <<>>, step)
      BY <2>1, RecursionDefines, Zenon
    <3> QED BY <3>1 DEF Recurs
  <2>4. \A n \in 0..N : Body(f)[n] = f[n]
    <3> TAKE n \in 0..N
    <3>1. CASE n = 0
      BY <1>1, <2>3, <3>1
    <3>2. CASE n # 0
      <4>1. n \in 1..N /\ n - 1 \in 0..N
        BY <3>2
      <4>2. f[n - 1] \in Seq(S)
        BY <2>3, <4>1
      <4>3. f[n] = f[n - 1] \o e[n]
        BY <2>2, <2>3, <4>1, <4>2
      <4> QED BY <1>1, <3>2, <4>3
    <3> QED BY <3>1, <3>2
  <2>5. DOMAIN Body(f) = 0..N /\ Body(f) = [n \in DOMAIN Body(f) |-> Body(f)[n]]
    BY <1>1
  <2> HIDE DEF Body
  <2>6. f = Body(f)
    BY <2>3, <2>4, <2>5
  <2> QED BY <2>6
<1>4. join = Body(join)
  <2> HIDE DEF Body
  <2> QED BY <1>3
<1>5. \A n \in 0..N : join[n] = IF n = 0 THEN <<>> ELSE join[n - 1] \o e[n]
  <2> HIDE DEF join
  <2> TAKE n \in 0..N
  <2>1. join[n] = Body(join)[n]
    <3> HIDE DEF Body
    <3> QED BY <1>4
  <2> QED BY <1>1, <2>1
<1> HIDE DEF join
<1>6. join[0] = <<>>
  BY <1>5
<1>7. ASSUME NEW n \in 1..N PROVE join[n] = join[n - 1] \o e[n]
  <2>1. n \in 0..N /\ n # 0
    OBVIOUS
  <2> QED BY <1>5, <2>1
<1>8. Joined(join, e, N)
  BY <1>1, <1>2, <1>6, <1>7 DEF Joined
<1> QED BY <1>8

(* Where the n-th variable ends. *)
Cut(text, n) == IF n * ChunkSize > Len(text) THEN Len(text) ELSE n * ChunkSize

LEMMA EnoughChunks ==
  ASSUME NEW n \in Nat \ {0}
  PROVE  /\ Ceil(n) \in Nat \ {0}
         /\ Ceil(n) * ChunkSize >= n
         /\ \A i \in Nat : i < Ceil(n) => i * ChunkSize < n
<1> DEFINE C == ChunkSize
           q == (n + C - 1) \div C
           r == (n + C - 1) % C
<1> USE ChunkAssumption
<1>1. q \in Nat /\ r \in 0..(C - 1) /\ n + C - 1 = C * q + r
  BY n + C - 1 \in Nat, DivMod, Zenon
<1>2. Ceil(n) = q
  BY DEF Ceil
<1> HIDE DEF q, r
<1>3. C * q >= n /\ C * q <= n + C - 1
  BY <1>1
<1>4. q # 0
  BY <1>1, <1>3, Z3
<1>5. q * C = C * q
  BY <1>1, Z3
<1>6. ASSUME NEW i \in Nat, i < q PROVE i * C < n
  <2>1. (i + 1) * C <= q * C
    BY <1>1, <1>6, Z3
  <2>2. (i + 1) * C = i * C + C /\ i * C \in Nat
    BY Z3
  <2>3. q * C \in Nat
    BY <1>1, Z3
  <2> QED BY <1>3, <1>5, <2>1, <2>2, <2>3
<1> QED BY <1>1, <1>2, <1>3, <1>4, <1>5, <1>6

(* A browser that joins its CAMOU_CONFIG variables reads the whole text and *)
(* nothing else, whatever its length and whatever other variables were      *)
(* inherited, if not the one whose number follows the last chunk's: a       *)
(* variable of that number is the one that is joined too.                   *)
(* (config.go:44-71, launch.go:133-142)                                     *)
THEOREM TextArrives ==
  ASSUME NEW S, NEW text \in Seq(S), text # <<>>,
         NEW inherited, DOMAIN inherited \subseteq Nat \ {0},
         Ceil(Len(text)) + 1 \notin DOMAIN inherited,
         NEW extra, DOMAIN extra = {}
  PROVE  Decode(buildEnv(inherited, EnvVars(text), extra)) = text
<1> USE ChunkAssumption
<1> DEFINE C == ChunkSize
           N == Ceil(Len(text))
           e == buildEnv(inherited, EnvVars(text), extra)
<1>1. Len(text) \in Nat \ {0}
  OBVIOUS
<1>2. N \in Nat \ {0} /\ N * C >= Len(text) /\ \A i \in Nat : i < N => i * C < Len(text)
  BY <1>1, EnoughChunks
<1>3. \A n \in 0..N : Cut(text, n) \in 0..Len(text) /\ n * C \in Nat
  <2> TAKE n \in 0..N
  <2>1. n * C \in Nat
    BY <1>2, Z3
  <2> QED BY <2>1, <1>1 DEF Cut
<1>4. ASSUME NEW n \in 1..N
      PROVE  /\ (n - 1) * C = Cut(text, n - 1)
             /\ Cut(text, n - 1) \in 0..Cut(text, n)
  <2>1. n - 1 \in 0..N /\ n \in 0..N /\ n - 1 < N
    BY <1>2
  <2>2. (n - 1) * C < Len(text)
    BY <1>2, <2>1
  <2>3. (n - 1) * C + C = n * C
    BY <1>2, Z3
  <2> QED BY <1>1, <1>3, <2>1, <2>2, <2>3 DEF Cut
<1>0. N + 1 \notin DOMAIN inherited
  OBVIOUS
<1> HIDE DEF N
<1>5. /\ DOMAIN EnvVars(text) = 1..N
      /\ \A n \in 1..N : EnvVars(text)[n] = SubSeq(text, (n - 1) * C + 1, Cut(text, n))
  BY DEF EnvVars, Cut, N
<1>6. \A n \in 1..N : EnvVars(text)[n] = SubSeq(text, Cut(text, n - 1) + 1, Cut(text, n))
  BY <1>4, <1>5
<1>7. /\ DOMAIN e \subseteq Nat \ {0} /\ 1..N \subseteq DOMAIN e /\ N + 1 \notin DOMAIN e
      /\ \A n \in 1..N : e[n] = EnvVars(text)[n]
  <2> HIDE DEF e
  <2>1. DOMAIN e = DOMAIN inherited \cup DOMAIN EnvVars(text)
    BY DEF e, buildEnv
  <2>2. \A n \in DOMAIN EnvVars(text) : e[n] = EnvVars(text)[n]
    BY DEF e, buildEnv
  <2>3. 1..N \subseteq Nat \ {0} /\ N + 1 \notin 1..N
    BY <1>2
  <2> QED BY <1>0, <1>5, <2>1, <2>2, <2>3
<1> HIDE DEF e
<1>9. ASSUME NEW n \in 1..N PROVE e[n] \in Seq(S)
  <2>1. n \in 0..N /\ n - 1 \in 0..N
    BY <1>2
  <2>2. Cut(text, n) \in 0..Len(text) /\ Cut(text, n - 1) \in 0..Len(text)
    BY <1>3, <2>1
  <2>3. e[n] = SubSeq(text, Cut(text, n - 1) + 1, Cut(text, n))
    BY <1>6, <1>7
  <2>4. \A k, l \in 0..Len(text) : SubSeq(text, k + 1, l) \in Seq(S)
    BY <1>1
  <2> QED BY <2>2, <2>3, <2>4
<1>11. PICK j : /\ j[0] = <<>> /\ Decode(e) = j[N]
                /\ \A n \in 1..N : j[n] = j[n - 1] \o e[n]
  <2>1. N \in Nat
    BY <1>2
  <2>2. PICK j : Joined(j, e, N)
    BY <1>7, <1>9, <2>1, DecodeJoins, Zenon
  <2> QED BY <2>2 DEF Joined
<1> DEFINE T == {n \in Nat : n <= N => j[n] = SubSeq(text, 1, Cut(text, n))}
<1>12. 0 \in T
  <2>1. Cut(text, 0) = 0
    BY <1>1 DEF Cut
  <2>2. SubSeq(text, 1, 0) = <<>>
    BY SubSeqEmpty
  <2> QED BY <1>11, <2>1, <2>2
<1>13. ASSUME NEW n \in T PROVE n + 1 \in T
  <2>1. SUFFICES ASSUME n + 1 <= N
                 PROVE  j[n + 1] = SubSeq(text, 1, Cut(text, n + 1))
    OBVIOUS
  <2>2. n \in Nat /\ n + 1 \in 1..N /\ (n + 1) - 1 = n
    BY <1>2, <2>1
  <2>3. j[n] = SubSeq(text, 1, Cut(text, n))
    BY <1>2, <2>1, <2>2
  <2> DEFINE k == Cut(text, n)
             l == Cut(text, n + 1)
  <2>4. k \in 0..l /\ l \in 0..Len(text)
    BY <1>2, <1>3, <1>4, <2>2
  <2>5. j[n + 1] = j[n] \o SubSeq(text, k + 1, l)
    BY <1>6, <1>7, <1>11, <2>2
  <2> HIDE DEF k, l
  <2>6. SubSeq(text, 1, k) \o SubSeq(text, k + 1, l) = SubSeq(text, 1, l)
    <3>1. 1 \in 1..(Len(text) + 1) /\ k \in (1 - 1)..Len(text) /\ l \in k..Len(text)
      BY <1>1, <2>4
    <3> QED BY <3>1, ConcatAdjacentSubSeq
  <2> QED BY <2>3, <2>5, <2>6 DEF k, l
<1>14. N \in T
  <2> HIDE DEF T
  <2>1. T \in SUBSET Nat
    BY DEF T
  <2> QED BY <1>2, <1>12, <1>13, <2>1, Induction
<1>15. Cut(text, N) = Len(text)
  BY <1>1, <1>2 DEF Cut
<1>16. SubSeq(text, 1, Len(text)) = text
  BY SubSeqFull
<1> QED BY <1>2, <1>11, <1>14, <1>15, <1>16 DEF e

-----------------------------------------------------------------------------
(* What each layer of applyLaunchOptions gives a key. *)
LEMMA KeysAre ==
  Keys = {"addons", "allowMainWorld", "fonts", "language", "locales", "position", "script",
          "timezone", "webGl", "webGlParams", "webrtc4", "webrtc6", "window"}
<1>1. DOMAIN KeyOrder = 1..13
  BY DEF KeyOrder
<1>2. \A i \in 1..13 : i \in {1, 2, 3, 4, 5, 6, 7, 8, 9, 10, 11, 12, 13}
  OBVIOUS
<1>3. /\ KeyOrder[1] = "addons" /\ KeyOrder[2] = "allowMainWorld" /\ KeyOrder[3] = "fonts"
      /\ KeyOrder[4] = "language" /\ KeyOrder[5] = "locales" /\ KeyOrder[6] = "position"
      /\ KeyOrder[7] = "script" /\ KeyOrder[8] = "timezone" /\ KeyOrder[9] = "webGl"
      /\ KeyOrder[10] = "webGlParams" /\ KeyOrder[11] = "webrtc4"
      /\ KeyOrder[12] = "webrtc6" /\ KeyOrder[13] = "window"
  BY DEF KeyOrder
<1>4. Keys = {KeyOrder[i] : i \in 1..13}
  BY <1>1 DEF Keys
<1>5. {KeyOrder[i] : i \in 1..13} \subseteq
        {"addons", "allowMainWorld", "fonts", "language", "locales", "position", "script",
         "timezone", "webGl", "webGlParams", "webrtc4", "webrtc6", "window"}
  BY <1>2, <1>3
<1> QED BY <1>3, <1>4, <1>5

LEMMA SetGives ==
  \A m, ks, v : \A k \in Keys :
    /\ Set(m, ks, v)[k] = IF k \in ks THEN v ELSE m[k]
    /\ Default(m, ks, v)[k] = IF k \in ks /\ m[k] = None THEN v ELSE m[k]
  BY DEF Set, Default

LEMMA IfGives ==
  \A b \in BOOLEAN : \A m, ks : \A k \in Keys :
    If(b, ks, m)[k] = IF b /\ k \in ks THEN "user" ELSE m[k]
  BY SetGives DEF If

LEMMA GeoIPGives ==
  ASSUME NEW o \in Options, NEW m, NEW k \in Keys
  PROVE  GeoIP(o, m)[k] =
           IF \/ k \in {"position", "timezone", "language"} /\ o.geo # None
              \/ k = "script" /\ o.geo # None /\ o.geoScript
              \/ k = "webrtc4" /\ o.geo = "ipv4" /\ ~o.blockWebRTC
              \/ k = "webrtc6" /\ o.geo = "ipv6" /\ ~o.blockWebRTC
           THEN "geo" ELSE m[k]
<1>1. o.geo \in {None, "ipv4", "ipv6"} /\ o.blockWebRTC \in BOOLEAN /\ o.geoScript \in BOOLEAN
  BY DEF Options
<1>2. None \notin {"ipv4", "ipv6"}
  BY NoneAssumption
<1>3. CASE o.geo = None
  BY <1>2, <1>3 DEF GeoIP
<1>4. CASE o.geo = "ipv4"
  BY <1>1, <1>2, <1>4, SetGives DEF GeoIP
<1>5. CASE o.geo = "ipv6"
  BY <1>1, <1>2, <1>5, SetGives DEF GeoIP
<1> QED BY <1>1, <1>3, <1>4, <1>5

LEMMA LocaleGives ==
  ASSUME NEW o \in Options, NEW m, NEW k \in Keys
  PROVE  Locale(o, m)[k] =
           IF o.locale # None /\ (\/ k = "language" \/ (k = "script" /\ o.localeScript)
                                  \/ (k = "locales" /\ o.locale = "list"))
           THEN "user" ELSE m[k]
<1>1. o.localeScript \in BOOLEAN
  BY DEF Options
<1>2. CASE o.locale = None
  BY <1>2 DEF Locale
<1>3. CASE o.locale # None
  <2> DEFINE ks == {"language"} \cup (IF o.localeScript THEN {"script"} ELSE {})
                                \cup (IF o.locale = "list" THEN {"locales"} ELSE {})
  <2>1. Locale(o, m)[k] = IF k \in ks THEN "user" ELSE m[k]
    BY <1>3, SetGives DEF Locale
  <2> QED BY <1>1, <1>3, <2>1
<1> QED BY <1>2, <1>3

LEMMA WebGLGives ==
  ASSUME NEW o, NEW m, NEW w \in WebGL(o, m)
  PROVE  IF o.webGl = "blocked" \/ ~o.known THEN w = m
         ELSE \E s \in sampleWebGL(o, m) : \A k \in Keys :
                w[k] = IF k \in {"webGl", "webGlParams"} /\ m[k] = None THEN s ELSE m[k]
<1>1. CASE o.webGl = "blocked" \/ ~o.known
  BY <1>1 DEF WebGL
<1>2. CASE ~(o.webGl = "blocked" \/ ~o.known)
  <2>1. PICK s \in sampleWebGL(o, m) : w = Default(m, {"webGl", "webGlParams"}, s)
    BY <1>2 DEF WebGL
  <2> QED BY <1>2, <2>1, SetGives
<1> QED BY <1>1, <1>2

(* Whatever the options and the map they are laid over, each key has the    *)
(* value of the layer that takes precedence: the caller's before that of    *)
(* GeoIP, that of GeoIP before the map's, and a WebGL sample only where the *)
(* map has nothing; but for the keys that Overruled names.                  *)
(* (launchopts.go:74-229)                                                   *)
THEOREM LayersTakePrecedence ==
  ASSUME NEW o \in Options, NEW d \in applyLaunchOptions(o, fingerprint(o.base)),
         NEW k \in Keys \ Overruled(o)
  PROVE  d[k] \in Givers(o, k)
<1> DEFINE base  == fingerprint(o.base)
           fonts == If(o.fonts, {"fonts"}, base)
           geo   == GeoIP(o, fonts)
           place == Locale(o, geo)
           zone  == If(o.timezone, {"timezone"}, place)
           own   == If(o.webRTCIP, {"webrtc4"}, zone)
           main  == IF o.rest THEN Default(own, {"allowMainWorld"}, "user") ELSE own
<1>1. /\ o.fonts \in BOOLEAN /\ o.timezone \in BOOLEAN /\ o.webRTCIP \in BOOLEAN
      /\ o.rest \in BOOLEAN /\ o.geoScript \in BOOLEAN /\ o.localeScript \in BOOLEAN
      /\ o.blockWebRTC \in BOOLEAN /\ o.known \in BOOLEAN
      /\ o.geo \in {None, "ipv4", "ipv6"} /\ o.locale \in {None, "one", "list"}
      /\ o.webGl \in {None, "forced", "blocked"}
  BY DEF Options
<1>2. PICK w \in WebGL(o, main) : d = If(o.rest, {"addons", "window"}, w)
  BY DEF applyLaunchOptions
<1>3. None \notin {"base", "geo", "user", "sample", "ipv4", "ipv6", "list", "forced", "blocked"}
  BY NoneAssumption
<1>4. \A key \in Keys : base[key] = IF key \in o.base THEN "base" ELSE None
  BY DEF fingerprint
<1>5. \A key \in Keys : fonts[key] = IF o.fonts /\ key \in {"fonts"} THEN "user" ELSE base[key]
  BY <1>1, IfGives
<1> HIDE DEF base, fonts
<1>6. \A key \in Keys :
        geo[key] = IF \/ key \in {"position", "timezone", "language"} /\ o.geo # None
                      \/ key = "script" /\ o.geo # None /\ o.geoScript
                      \/ key = "webrtc4" /\ o.geo = "ipv4" /\ ~o.blockWebRTC
                      \/ key = "webrtc6" /\ o.geo = "ipv6" /\ ~o.blockWebRTC
                   THEN "geo" ELSE fonts[key]
  BY GeoIPGives
<1> HIDE DEF geo
<1>7. \A key \in Keys :
        place[key] = IF o.locale # None /\ (\/ key = "language"
                                            \/ (key = "script" /\ o.localeScript)
                                            \/ (key = "locales" /\ o.locale = "list"))
                     THEN "user" ELSE geo[key]
  BY LocaleGives
<1> HIDE DEF place
<1>8. \A key \in Keys :
        zone[key] = IF o.timezone /\ key \in {"timezone"} THEN "user" ELSE place[key]
  BY <1>1, IfGives
<1> HIDE DEF zone
<1>9. \A key \in Keys : own[key] = IF o.webRTCIP /\ key \in {"webrtc4"} THEN "user" ELSE zone[key]
  BY <1>1, IfGives
<1> HIDE DEF own
<1>10. \A key \in Keys :
         main[key] = IF o.rest /\ key = "allowMainWorld" /\ own[key] = None THEN "user"
                     ELSE own[key]
  BY <1>1, SetGives
<1> HIDE DEF main
<1>11. IF o.webGl = "blocked" \/ ~o.known THEN w = main
       ELSE \E s \in sampleWebGL(o, main) : \A key \in Keys :
              w[key] = IF key \in {"webGl", "webGlParams"} /\ main[key] = None THEN s
                       ELSE main[key]
  BY <1>2, WebGLGives
<1>12. \A key \in Keys :
         d[key] = IF o.rest /\ key \in {"addons", "window"} THEN "user" ELSE w[key]
  BY <1>1, <1>2, IfGives
<1>13. k \in Keys /\ {"webGl", "webGlParams"} \subseteq Keys
  BY KeysAre
<1>14. CASE k \notin {"webGl", "webGlParams", "script"}
  <2>1. w[k] = main[k]
    BY <1>11, <1>13, <1>14
  <2>2. k \in {"addons", "allowMainWorld", "fonts", "language", "locales", "position",
               "timezone", "webrtc4", "webrtc6", "window"}
    BY <1>13, <1>14, KeysAre
  <2> QED BY <1>1, <1>3, <1>4, <1>5, <1>6, <1>7, <1>8, <1>9, <1>10, <1>12, <1>13, <2>1, <2>2
          DEF Givers
<1>15. CASE k = "script"
  <2>1. d[k] = place[k]
    BY <1>8, <1>9, <1>10, <1>11, <1>12, <1>13, <1>15
  <2>2. place[k] = IF o.locale # None /\ o.localeScript THEN "user"
                   ELSE IF o.geo # None /\ o.geoScript THEN "geo"
                   ELSE IF k \in o.base THEN "base" ELSE None
    BY <1>4, <1>5, <1>6, <1>7, <1>13, <1>15
  <2>3. ~(Scriptless(o) /\ (k \in o.base \/ (o.geo # None /\ o.geoScript)))
    BY <1>15 DEF Overruled
  <2> QED BY <1>1, <1>15, <2>1, <2>2, <2>3 DEF Givers, Scriptless
<1>16. CASE k \in {"webGl", "webGlParams"}
  <2>1. \A key \in {"webGl", "webGlParams"} : main[key] = IF key \in o.base THEN "base" ELSE None
    BY <1>4, <1>5, <1>6, <1>7, <1>8, <1>9, <1>10, <1>13
  <2>2. d[k] = w[k]
    BY <1>12, <1>13, <1>16
  <2>3. ~(o.webGl = "forced" /\ (k \in o.base \/ ~o.known))
    BY <1>16 DEF Overruled
  <2>4. CASE o.webGl = "blocked" \/ ~o.known
    <3>1. d[k] = IF k \in o.base THEN "base" ELSE None
      BY <1>11, <1>16, <2>1, <2>2, <2>4
    <3>2. o.webGl # "forced"
      BY <2>3, <2>4
    <3> QED BY <1>16, <2>4, <3>1, <3>2 DEF Givers
  <2>5. CASE ~(o.webGl = "blocked" \/ ~o.known)
    <3>1. PICK s \in sampleWebGL(o, main) :
                 d[k] = IF k \in o.base THEN "base" ELSE s
      BY <1>3, <1>11, <1>13, <1>16, <2>1, <2>2, <2>5
    <3>2. /\ o.webGl = "forced" => s = "user"
          /\ o.webGl # "forced" => s \in IF "webGl" \in o.base THEN {"base", "sample"}
                                         ELSE {"sample"}
      BY <1>3, <2>1 DEF sampleWebGL
    <3> QED BY <1>3, <1>16, <2>3, <2>5, <3>1, <3>2 DEF Givers
  <2> QED BY <2>4, <2>5
<1> QED BY <1>14, <1>15, <1>16

-----------------------------------------------------------------------------
(* The map of the options is made once, before any browser, and each        *)
(* browser has been given the whole of it.                                  *)
Applied == cfg \in applyLaunchOptions(setup.config, fingerprint(setup.config.base))
Passed  == env = buildEnv(setup.inherited, EnvVars(Text(cfg)), setup.extra)
ArriveInv ==
  /\ Phase = "options" => /\ cfg = fingerprint(setup.config.base)
                          /\ \A k \in Attempts : child[k] = "none"
  /\ Phase \notin {"options", "failed"} => Applied
  /\ Phase \in {"pipes", "exec"} => Passed
  /\ \A k \in Attempts : child[k] # "none" => Applied /\ Passed

LEMMA ArriveInit == Init => ArriveInv
  BY DEF Init, ArriveInv, Phase, Actors, Attempts

LEMMA ArriveStep == TypeOK /\ ArriveInv /\ [Next]_vars => ArriveInv'
<1> SUFFICES ASSUME TypeOK, ArriveInv, [Next]_vars PROVE ArriveInv'
  OBVIOUS
<1> USE DEF TypeOK, ArriveInv, Phase, config, os, disk, world, proc, Goto, At, Move
<1>0. Launcher \in Actors /\ \A c \in Closers : c # Launcher
  BY ActorAssumption DEF Actors
<1>1. ASSUME ApplyOptions PROVE ArriveInv'
  BY <1>0, <1>1 DEF ApplyOptions, Display, Applied, Passed
<1>2. ASSUME UNCHANGED config, pc'[Launcher] = pc[Launcher],
             \A k \in Attempts : child'[k] # "none" => child[k] # "none"
      PROVE  ArriveInv'
  BY <1>2 DEF Applied, Passed
<1>3. ASSUME OptionsFail PROVE ArriveInv'
  BY <1>0, <1>3 DEF OptionsFail, Applied, Passed
<1>4. ASSUME StartXvfb \/ XvfbFails PROVE ArriveInv'
  BY <1>0, <1>4 DEF StartXvfb, XvfbFails, Applied, Passed
<1>5. ASSUME MkdirTemp \/ NoProfile PROVE ArriveInv'
  BY <1>0, <1>5 DEF MkdirTemp, NoProfile, Stat, Applied, Passed
<1>6. ASSUME WriteUserJS \/ OpenPipes \/ StartFails PROVE ArriveInv'
  BY <1>0, <1>6 DEF WriteUserJS, OpenPipes, StartFails, Started, Applied, Passed
<1>7. ASSUME BuildEnv PROVE ArriveInv'
  BY <1>0, <1>7 DEF BuildEnv, Started, Applied, Passed
<1>8. ASSUME ExecStart PROVE ArriveInv'
  BY <1>0, <1>8 DEF ExecStart, Applied, Passed
<1>9. ASSUME Enabled \/ EnableFails \/ ProxySet \/ ProxyFails \/ Retry \/ GiveUp
      PROVE  ArriveInv'
  BY <1>0, <1>9 DEF Enabled, EnableFails, ProxySet, ProxyFails, Retry, GiveUp, Waiting,
                    Applied, Passed
<1>10. ASSUME NEW a \in Actors, StopStep(a) PROVE ArriveInv'
  <2>1. /\ UNCHANGED config
        /\ pc'[Launcher] = pc[Launcher] \/ pc[Launcher] \in Stopping
        /\ pc'[Launcher] = pc[Launcher] \/ pc'[Launcher] \in Stopping \cup {"next", "failed"}
    BY <1>0, <1>10 DEF StopStep, Lock, Send, WaitReturns, TimerFires, Kill, CloseClient,
                       RemoveProfile, Unlock, Cleanup, Waiting, Stopping
  <2>2. \A k \in Attempts : child'[k] # "none" => child[k] # "none"
    BY <1>10 DEF StopStep, Lock, Send, WaitReturns, TimerFires, Kill, CloseClient,
                 RemoveProfile, Unlock, Cleanup, Waiting
  <2> QED BY <2>1, <2>2 DEF Applied, Passed, Stopping
<1>11. ASSUME NEW c \in Closers, Close(c) PROVE ArriveInv'
  <2>1. UNCHANGED config /\ pc'[Launcher] = pc[Launcher] /\ child' = child
    BY <1>0, <1>11 DEF Close, Waiting
  <2> QED BY <1>2, <2>1
<1>12. ASSUME NEW k \in Attempts, Exits(k) \/ Dies(k) PROVE ArriveInv'
  <2>1. UNCHANGED config /\ pc' = pc
    BY <1>12 DEF Exits, Dies, Ends
  <2>2. \A i \in Attempts : child'[i] # "none" => child[i] # "none"
    BY <1>12 DEF Exits, Dies, Ends
  <2> QED BY <1>2, <2>1, <2>2
<1>13. ASSUME ContextEnds \/ PipeFills \/ PipeDrains \/ UNCHANGED vars PROVE ArriveInv'
  BY <1>2, <1>13 DEF ContextEnds, PipeFills, PipeDrains, vars
<1> QED BY <1>1, <1>3, <1>4, <1>5, <1>6, <1>7, <1>8, <1>9, <1>10, <1>11, <1>12, <1>13
       DEF Next, LaunchStep

THEOREM OptionsReachBrowser == Spec => []ArriveInv
<1>1. Init => ArriveInv
  BY ArriveInit
<1>2. TypeOK /\ ArriveInv /\ [Next]_vars => ArriveInv'
  BY ArriveStep
<1> QED BY <1>1, <1>2, LaunchTypeCorrect, PTL DEF Spec

(* A running browser has a configuration in which every key that the code   *)
(* does not overrule has the giver that takes precedence, and, joining its  *)
(* CAMOU_CONFIG variables, reads the whole of it and nothing else where     *)
(* nobody else's variable follows it, in both attempts.                     *)
(* (config.go:44-71, launch.go:133-142, launchopts.go:74-229,               *)
(* camoufox.go:246-269)                                                     *)
THEOREM ConfigReachesBrowser == Spec => []ConfigArrives
<1>1. TypeOK /\ ArriveInv => ConfigArrives
  <2> SUFFICES ASSUME TypeOK, ArriveInv, Live # {}
               PROVE  /\ \A key \in Keys \ Overruled(setup.config) :
                           cfg[key] \in Givers(setup.config, key)
                      /\ Untouched => Decode(env) = Text(cfg)
    BY DEF ConfigArrives
  <2>1. Applied /\ Passed
    BY DEF ArriveInv, Live
  <2>2. setup.config \in Options /\ DOMAIN setup.inherited \subseteq Nat \ {0}
    BY LaunchAssumption DEF TypeOK
  <2>3. cfg \in [Keys -> Values]
    BY DEF TypeOK, Values
  <2>4. ASSUME NEW key \in Keys \ Overruled(setup.config)
        PROVE  cfg[key] \in Givers(setup.config, key)
    BY <2>1, <2>2, LayersTakePrecedence DEF Applied
  <2>5. ASSUME Untouched PROVE Decode(env) = Text(cfg)
    <3>1. Text(cfg) \in Texts /\ Braces \in Entries(Text(cfg))
      BY <2>3, TextHolds
    <3>2. Text(cfg) # <<>>
      BY <3>1 DEF Entries
    <3> DEFINE text == Text(cfg)
    <3> HIDE DEF text
    <3>3. text \in Seq((Keys \X Values) \cup {Braces}) /\ text # <<>>
      BY <3>1, <3>2 DEF Texts, text
    <3>4. Ceil(Len(text)) + 1 \notin DOMAIN setup.inherited /\ DOMAIN setup.extra = {}
      BY <2>5 DEF Untouched, text
    <3>5. Decode(buildEnv(setup.inherited, EnvVars(text), setup.extra)) = text
      BY <2>2, <3>3, <3>4, TextArrives
    <3> QED BY <2>1, <3>5 DEF Passed, text
  <2> QED BY <2>4, <2>5
<1> QED BY <1>1, LaunchTypeCorrect, OptionsReachBrowser, PTL
=============================================================================
