------------------------------ MODULE MCLaunch ------------------------------
(* Small instances of Launch: every layering of the identity options with  *)
(* one way to run, and every way to run with a few of the options.         *)
EXTENDS Launch

CONSTANTS c1, c2

Plain == [geo |-> None, geoScript |-> FALSE, locale |-> None, localeScript |-> FALSE,
          timezone |-> FALSE, webRTCIP |-> FALSE, blockWebRTC |-> FALSE, fonts |-> FALSE,
          webGl |-> None, known |-> TRUE, rest |-> FALSE, base |-> {"fonts"}]

(* A preset without and with its own zone and pair; the map of an earlier  *)
(* Launch; and a map with every key.                                       *)
Preset  == {"fonts", "timezone", "webGl"}
Earlier == {"language", "script", "webGl", "webGlParams", "allowMainWorld"}

Layered ==
  {[Plain EXCEPT !.geo = g, !.geoScript = w, !.locale = l, !.localeScript = t,
                 !.timezone = t, !.webRTCIP = w, !.blockWebRTC = (t # w), !.fonts = t,
                 !.rest = w, !.base = p] :
     g \in {None, "ipv4", "ipv6"}, l \in {None, "one", "list"}, t \in BOOLEAN,
     w \in BOOLEAN, p \in {{"fonts"}, Keys}}
WebGLs == {[Plain EXCEPT !.webGl = g, !.base = p, !.known = n] :
             g \in {None, "forced", "blocked"}, p \in {{}, Preset, Earlier}, n \in BOOLEAN}

(* No variable, lower ones, the one that follows the two of a plain map    *)
(* when there are three, and one that is out of reach.                     *)
Stale == <<<<"timezone", "stale">>>>
Inheritable == {<<>>, [i \in {1} |-> Stale], [i \in {1, 2} |-> Stale],
                [i \in {1, 2, 3} |-> Stale], [i \in {2, 9} |-> Stale]}

LaunchSetups ==
  {[config |-> o, own |-> FALSE, auto |-> FALSE, proxy |-> FALSE,
    inherited |-> [i \in {1} |-> Stale], extra |-> <<>>] : o \in Layered \cup WebGLs} \cup
  {[config |-> Plain, own |-> TRUE, auto |-> FALSE, proxy |-> FALSE,
    inherited |-> i, extra |-> x] : i \in Inheritable, x \in {<<>>, [k \in {1} |-> Stale]}} \cup
  [config : {Plain}, own : BOOLEAN, auto : BOOLEAN, proxy : BOOLEAN,
   inherited : {<<>>}, extra : {<<>>}]

TwoClosers == {c1, c2}
=============================================================================
