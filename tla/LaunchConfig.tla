---------------------------- MODULE LaunchConfig ----------------------------
(***************************************************************************)
(* The configuration a launched browser gets: the fingerprint's map, what  *)
(* applyLaunchOptions lays over it, and the CAMOU_CONFIG_k environment     *)
(* variables that carry it.  A value is named by who gave it.              *)
(***************************************************************************)
EXTENDS Naturals, Sequences

CONSTANTS
  ChunkSize,   (* runes in an environment variable                         *)
  None         (* an absent key                                            *)

ASSUME ChunkAssumption == ChunkSize \in Nat \ {0}

ASSUME NoneAssumption ==
  None \notin {"base", "geo", "user", "sample"} \cup       (* who gives a value *)
            {"ipv4", "ipv6", "one", "list", "forced", "blocked"}      (* options *)

(* Keys that are always set together are one key here: "language" is       *)
(* locale:language and locale:region, "position" the latitude and          *)
(* longitude, "webGl" the vendor and renderer, "webGlParams" the rest of a *)
(* sample, "window" the window's outer and inner size and place.           *)
KeyOrder == <<"addons", "allowMainWorld", "fonts", "language", "locales",
              "position", "script", "timezone", "webGl", "webGlParams", "webrtc4",
              "webrtc6", "window">>
Keys == {KeyOrder[i] : i \in DOMAIN KeyOrder}

(* Assignments of cfg[k] = v, and of SetDefault. *)
Set(cfg, ks, v)     == [k \in Keys |-> IF k \in ks THEN v ELSE cfg[k]]
Default(cfg, ks, v) == [k \in Keys |-> IF k \in ks /\ cfg[k] = None THEN v ELSE cfg[k]]

-----------------------------------------------------------------------------
(* The map that is laid over: a generated fingerprint, which has fonts and   *)
(* may have a time zone and a WebGL pair, or the caller's own map, which is *)
(* changed in place and so may be one that an earlier Launch has filled.    *)
fingerprint(ks) == [k \in Keys |-> IF k \in ks THEN "base" ELSE None]

(* The part of Options that is laid over the map.  localeScript: the first  *)
(* locale names a script; known: the map names an OS there is WebGL data    *)
(* for; rest: addons, a main world and a window size.                       *)
Options == [geo : {None, "ipv4", "ipv6"}, geoScript : BOOLEAN,
            locale : {None, "one", "list"}, localeScript : BOOLEAN, timezone : BOOLEAN,
            webRTCIP : BOOLEAN, blockWebRTC : BOOLEAN, fonts : BOOLEAN,
            webGl : {None, "forced", "blocked"}, known : BOOLEAN,
            rest : BOOLEAN, base : SUBSET Keys]

(* Geolocation.ConfigKeys, and the WebRTC address. *)
GeoIP(o, cfg) ==
  LET rtc == IF o.blockWebRTC THEN {} ELSE IF o.geo = "ipv4" THEN {"webrtc4"} ELSE {"webrtc6"}
      loc == {"position", "timezone", "language"} \cup IF o.geoScript THEN {"script"} ELSE {}
  IN IF o.geo = None THEN cfg ELSE Set(cfg, rtc \cup loc, "geo")

(* locale.Handle: the first locale's keys, the list when there are several. *)
Locale(o, cfg) ==
  IF o.locale = None THEN cfg
  ELSE Set(cfg, {"language"} \cup (IF o.localeScript THEN {"script"} ELSE {})
                             \cup (IF o.locale = "list" THEN {"locales"} ELSE {}), "user")

(* A forced pair, the map's own when the database has it, or a random one. *)
(* merge_into: the sample only fills what is absent, so the map's pair      *)
(* stays, whichever pair the rest of the sample belongs to.                 *)
sampleWebGL(o, cfg) ==
  IF o.webGl = "forced" THEN {"user"}
  ELSE IF cfg["webGl"] # None THEN {cfg["webGl"], "sample"} ELSE {"sample"}
WebGL(o, cfg) ==
  IF o.webGl = "blocked" \/ ~o.known THEN {cfg}
  ELSE {Default(cfg, {"webGl", "webGlParams"}, s) : s \in sampleWebGL(o, cfg)}

If(b, ks, cfg) == IF b THEN Set(cfg, ks, "user") ELSE cfg

(* The map as the browser is to have it: one for each way WebGL may go. *)
applyLaunchOptions_LocaleFirst(o, cfg) ==
  LET fonts == If(o.fonts, {"fonts"}, cfg)
      place == GeoIP(o, Locale(o, fonts))
      own   == If(o.webRTCIP, {"webrtc4"}, If(o.timezone, {"timezone"}, place))
      main  == IF o.rest THEN Default(own, {"allowMainWorld"}, "user") ELSE own
  IN {If(o.rest, {"addons", "window"}, c) : c \in WebGL(o, main)}
applyLaunchOptions(o, cfg) ==
  LET fonts == If(o.fonts, {"fonts"}, cfg)
      place == Locale(o, GeoIP(o, fonts))
      own   == If(o.webRTCIP, {"webrtc4"}, If(o.timezone, {"timezone"}, place))
      main  == IF o.rest THEN Default(own, {"allowMainWorld"}, "user") ELSE own
  IN {If(o.rest, {"addons", "window"}, c) : c \in WebGL(o, main)}

-----------------------------------------------------------------------------
(* config.EnvVars: the map as text, its keys in order, cut into variables   *)
(* CAMOU_CONFIG_1, 2, ...  The braces of the object are an entry of their   *)
(* own: the text of an empty map is not empty.                              *)
Braces == <<"{", "}">>

Text(cfg) ==
  LET text[i \in 0..Len(KeyOrder)] ==
        IF i = 0 THEN <<Braces>>
        ELSE IF cfg[KeyOrder[i]] = None THEN text[i - 1]
        ELSE Append(text[i - 1], <<KeyOrder[i], cfg[KeyOrder[i]]>>)
  IN text[Len(KeyOrder)]

Ceil(n)  == (n + ChunkSize - 1) \div ChunkSize
EnvVars_WholeChunksOnly(text) ==
  [i \in 1..(Len(text) \div ChunkSize) |->
     SubSeq(text, (i - 1) * ChunkSize + 1, i * ChunkSize)]
EnvVars(text) ==
  [i \in 1..Ceil(Len(text)) |->
     SubSeq(text, (i - 1) * ChunkSize + 1,
            IF i * ChunkSize > Len(text) THEN Len(text) ELSE i * ChunkSize)]

(* The environment is a function of the variables' numbers.  What this      *)
(* process inherited comes first and Options.Env last; the last of a name   *)
(* counts, and nothing is taken out.                                        *)
buildEnv(inherited, chunks, extra) ==
  [i \in DOMAIN inherited \cup DOMAIN chunks \cup DOMAIN extra |->
     IF i \in DOMAIN extra THEN extra[i]
     ELSE IF i \in DOMAIN chunks THEN chunks[i] ELSE inherited[i]]

(* The browser joins the variables in order until one is missing. *)
Decode(env) ==
  LET last == CHOOSE n \in {0} \cup DOMAIN env :
                n + 1 \notin DOMAIN env /\ 1..n \subseteq DOMAIN env
      join[n \in 0..last] == IF n = 0 THEN <<>> ELSE join[n - 1] \o env[n]
  IN join[last]
=============================================================================
