--------------------------- MODULE MCBrowserCache ---------------------------
(* Small instances of BrowserCache, whose Fetch looks a listing up as      *)
(* Releases says.                                                          *)
EXTENDS BrowserCache, Releases, TLC

CONSTANTS p1, p2, ubo, v1, v2

OneProc  == {p1}
TwoProcs == {p1, p2}
OneVersion == {v1}
OneAddon == {ubo}

Asset(build, pre, match) == [build |-> build, prerelease |-> pre, match |-> match]
alpha26 == <<Word(97), Digits(26)>>
beta19  == <<Word(98), Digits(19)>>
beta24  == <<Word(98), Digits(24)>>

(* The newest release first, as GitHub lists them; the alpha was not built *)
(* for this platform, so both channels lead to the same version.           *)
Listing == <<Asset(alpha26, FALSE, FALSE), Asset(beta24, FALSE, TRUE),
             Asset(beta19, FALSE, TRUE)>>

Finding == [pre \in BOOLEAN |->
              LET found == scanReleases(Listing, pre, None)
              IN IF found = None THEN None ELSE IF found.build = beta24 THEN v1 ELSE v2]

(* The bound of the sequential run: the cache does not hold an addon and a *)
(* database at the same time, which meet nowhere but in the wipe.          *)
NoAddons == \A a \in Addons : Entries(Addon(a)) = {}
BoundedNext ==
  \E p \in Procs :
    \/ FetchStep(p) \/ RemoveStep(p) \/ Crash(p)
    \/ Entries(MMDB) = {} /\ AddonsStep(p)
    \/ NoAddons /\ GeoIPStep(p)
BoundedSpec == Init /\ [][BoundedNext]_vars

(* Only Fetches without Replace, none of which crashes. *)
PlainFetch(p) == FetchStep(p) /\ (job'[p] # None => ~job'[p].replace)
PlainSpec == Init /\ [][\E p \in Procs : PlainFetch(p)]_vars
=============================================================================
