----------------------------- MODULE MCPageHooks -----------------------------
(* Two routes, the first of which matches one request and the second both,  *)
(* with two requests; three init scripts; or a route, a request, a dialog   *)
(* and a console message.                                                   *)
EXTENDS PageHooks, TLC

CONSTANTS x1, x2, r1, r2, a1, a2, a3, d1

MCMatches  == (x1 :> {r1}) @@ (x2 :> {r1, r2})
MCHandlers == {<<>>, <<"abort">>, <<"fulfill", "resume">>}
MCPlays    == {{x1, x2, r1, r2}, {a1, a2, a3}, {x1, r1, d1, "console"}}
=============================================================================
