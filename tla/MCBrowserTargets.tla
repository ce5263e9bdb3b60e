-------------------------- MODULE MCBrowserTargets --------------------------
(* A small instance of BrowserTargets. *)
EXTENDS BrowserTargets

CONSTANTS o1, t1, t2

OneOpener == {o1}
Nobody == {}
TwoTargets == {t1, t2}
=============================================================================
