------------------------------ MODULE PageNav ------------------------------
(***************************************************************************)
(* Navigation of one Page: goroutines in Page.Goto and Page.historyGo, the *)
(* event handlers that readLoop runs on the page, and the browser that     *)
(* navigates, on request or of its own accord.                             *)
(*                                                                         *)
(* The wire is the browser-to-client pipe: readLoop handles its messages   *)
(* one at a time and in order, each handler under Page.mu, so a handler is *)
(* one step.  A reply only makes Client.Call return: its goroutine goes on *)
(* later (JugglerClient).  Time (lastNetwork) is left out, and request     *)
(* interception is off (Interception).                                     *)
(***************************************************************************)
EXTENDS Naturals, Sequences

CONSTANTS
  Gotos,       (* executions of Page.Goto                                  *)
  Histories,   (* executions of Page.historyGo                             *)
  Urls, Blank, (* the URLs, and about:blank among them                     *)
  MaxNavs,     (* bound: navigations the browser starts                    *)
  PipeCap,     (* bound: messages the pipe holds before the browser waits  *)
  SubFrames,   (* whether the browser also navigates a child frame         *)
  None, Failed

ASSUME NavAssumption == Blank \in Urls /\ MaxNavs \in Nat /\ PipeCap \in Nat

(* "no value" is neither a value a waiter's channel carries, nor a Goto, nor *)
(* a navigation id, and a failed call's reply is no id either.               *)
ASSUME NoneAssumption ==
  /\ None \notin {"ok", "aborted"} /\ None \notin Gotos /\ None \notin 0..MaxNavs
  /\ Failed \notin 0..MaxNavs

Frames == {"main", "sub"}
Navs   == 1..MaxNavs

VARIABLES
  (* the goroutines *)
  pc, result, target, expired,
  reply,         (* what Client.Call is about to return to a Goto (0: no   *)
                 (* navigation id, Failed: an error)                       *)
  hpc, before, href,
  (* the Page: a waiter is named by the Goto that made it *)
  navWaiters, committed, navID, slot,
  url, frameUrl, domContentLoaded, loadFired,
  mainNavID, mainNavReqID, lastResponse, inflight,
  (* the browser *)
  requests, owed, wire, navs, current, closed,
  (* history: the main-frame commits handled while a waiter was registered *)
  seen

gotoVars    == <<pc, result, target, expired, reply>>
histVars    == <<hpc, before, href>>
waiterVars  == <<navWaiters, committed, navID, slot, seen>>
flagVars    == <<url, frameUrl, domContentLoaded, loadFired>>
netVars     == <<mainNavID, mainNavReqID, lastResponse, inflight>>
browserVars == <<requests, owed, navs, current, closed>>
vars == <<gotoVars, histVars, waiterVars, flagVars, netVars, browserVars, wire>>

Kinds == {"started", "request", "response", "done", "aborted", "committed",
          "DOMContentLoaded", "load", "reply", "error"}
Message == [t : Kinds, n : 0..MaxNavs, g : Gotos \cup {None}]
Nav == [frame : Frames, url : Urls, by : Gotos \cup {None},
        st : {"started", "responded", "aborted", "committed", "interactive", "loaded"}]
Response == [of : Navs, url : Urls \cup {None}]

TypeOK ==
  /\ pc \in [Gotos -> {"idle", "calling", "pin", "wait", "returned"}]
  /\ result \in [Gotos -> {"none", "ok", "aborted", "error", "ctx", "closed"}]
  /\ target \in [Gotos -> Urls]
  /\ expired \subseteq Gotos
  /\ reply \in [Gotos -> {None, Failed} \cup 0..MaxNavs]
  /\ hpc \in [Histories -> {"idle", "go", "poll", "write", "moved", "gaveUp"}]
  /\ before \in [Histories -> Urls \cup {None}]
  /\ href \in [Histories -> Urls \cup {None}]
  /\ navWaiters \subseteq Gotos /\ committed \subseteq Gotos
  /\ navID \in [Gotos -> 0..MaxNavs]
  /\ slot \in [Gotos -> {None, "ok", "aborted"}]
  /\ url \in Urls \cup {None} /\ frameUrl \in [Frames -> Urls \cup {None}]
  /\ domContentLoaded \in BOOLEAN /\ loadFired \in BOOLEAN
  /\ mainNavID \in 0..MaxNavs /\ mainNavReqID \in 0..MaxNavs
  /\ lastResponse \in Response \cup {None}
  /\ inflight \subseteq Navs
  /\ requests \subseteq Gotos /\ owed \subseteq Message
  /\ wire \in Seq(Message)
  /\ navs \in Seq(Nav) /\ Len(navs) <= MaxNavs
  /\ current \in [Frames -> 0..MaxNavs]
  /\ closed \in BOOLEAN
  /\ seen \in [Gotos -> SUBSET Navs]

(* A ready page: the browser shows its initial about:blank, no commit has  *)
(* been reported yet ("" is None).                                         *)
Init ==
  /\ pc = [g \in Gotos |-> "idle"] /\ result = [g \in Gotos |-> "none"]
  /\ target \in [Gotos -> Urls] /\ expired = {}
  /\ reply = [g \in Gotos |-> None]
  /\ hpc = [h \in Histories |-> "idle"]
  /\ before = [h \in Histories |-> None] /\ href = [h \in Histories |-> None]
  /\ navWaiters = {} /\ committed = {}
  /\ navID = [g \in Gotos |-> 0] /\ slot = [g \in Gotos |-> None]
  /\ url = None /\ frameUrl = [f \in Frames |-> None]
  /\ domContentLoaded = FALSE /\ loadFired = FALSE
  /\ mainNavID = 0 /\ mainNavReqID = 0 /\ lastResponse = None /\ inflight = {}
  /\ requests = {} /\ owed = {} /\ wire = <<>> /\ navs = <<>>
  /\ current = [f \in Frames |-> 0] /\ closed = FALSE
  /\ seen = [g \in Gotos |-> {}]

UrlOf(n) == IF n = 0 THEN Blank ELSE navs[n].url

(* The test ev.FrameID == p.mainFrameID. *)
IsMain_Any(n) == n # 0
IsMain(n) == navs[n].frame = "main"

-----------------------------------------------------------------------------
(* Page.Goto, once the page is ready *)

Return(g, how) ==
  /\ pc' = [pc EXCEPT ![g] = "returned"]
  /\ result' = [result EXCEPT ![g] = how]

(* The waiter is registered before the navigate request is sent. *)
BeginGoto_NoWaiter(g) ==
  /\ pc[g] = "idle"
  /\ requests' = requests \cup {g}
  /\ pc' = [pc EXCEPT ![g] = "calling"]
  /\ UNCHANGED <<result, target, expired, reply, histVars, waiterVars, flagVars,
                 netVars, owed, navs, current, closed, wire>>

BeginGoto(g) ==
  /\ pc[g] = "idle"
  /\ navWaiters' = navWaiters \cup {g}
  /\ requests' = requests \cup {g}
  /\ pc' = [pc EXCEPT ![g] = "calling"]
  /\ UNCHANGED <<result, target, expired, reply, histVars, committed, navID, slot,
                 seen, flagVars, netVars, owed, navs, current, closed, wire>>

(* Client.Call returns an error: the browser's, the context's, or closed. *)
CallFails(g) ==
  /\ pc[g] = "calling"
  /\ reply[g] = Failed \/ g \in expired \/ closed
  /\ navWaiters' = navWaiters \ {g}
  /\ Return(g, "error")
  /\ UNCHANGED <<target, expired, reply, histVars, committed, navID, slot, seen,
                 flagVars, netVars, browserVars, wire>>

CallReturns_AnyReply(g) ==
  /\ pc[g] = "calling"
  /\ reply[g] # None
  /\ pc' = [pc EXCEPT ![g] = "pin"]
  /\ UNCHANGED <<result, target, expired, reply, histVars, waiterVars, flagVars,
                 netVars, browserVars, wire>>

CallReturns(g) ==
  /\ pc[g] = "calling"
  /\ reply[g] \in 0..MaxNavs
  /\ pc' = [pc EXCEPT ![g] = "pin"]
  /\ UNCHANGED <<result, target, expired, reply, histVars, waiterVars, flagVars,
                 netVars, browserVars, wire>>

(* The reply names a navigation (0: none): the waiter is bound to it,      *)
(* unless a commit has already satisfied it.                               *)
PinNavID(g) ==
  /\ pc[g] = "pin"
  /\ IF g \notin committed
     THEN navID' = [navID EXCEPT ![g] = reply[g]]
     ELSE UNCHANGED navID
  /\ pc' = [pc EXCEPT ![g] = "wait"]
  /\ UNCHANGED <<result, target, expired, reply, histVars, navWaiters, committed,
                 slot, seen, flagVars, netVars, browserVars, wire>>

GotoReturns(g) ==
  /\ pc[g] = "wait"
  /\ slot[g] # None
  /\ slot' = [slot EXCEPT ![g] = None]
  /\ Return(g, slot[g])
  /\ UNCHANGED <<target, expired, reply, histVars, navWaiters, committed, navID,
                 seen, flagVars, netVars, browserVars, wire>>

GotoTimesOut_LeavesWaiter(g) ==
  /\ pc[g] = "wait"
  /\ g \in expired
  /\ Return(g, "ctx")
  /\ UNCHANGED <<target, expired, reply, histVars, waiterVars,
                 flagVars, netVars, browserVars, wire>>

GotoTimesOut(g) ==
  /\ pc[g] = "wait"
  /\ g \in expired
  /\ navWaiters' = navWaiters \ {g}
  /\ Return(g, "ctx")
  /\ UNCHANGED <<target, expired, reply, histVars, committed, navID, slot, seen,
                 flagVars, netVars, browserVars, wire>>

GotoSeesClosed(g) ==
  /\ pc[g] = "wait"
  /\ closed
  /\ Return(g, "closed")
  /\ UNCHANGED <<target, expired, reply, histVars, waiterVars, flagVars, netVars,
                 browserVars, wire>>

(* opCtx gives every Goto a deadline. *)
Expire(g) ==
  /\ pc[g] \in {"calling", "pin", "wait"}
  /\ g \notin expired
  /\ expired' = expired \cup {g}
  /\ UNCHANGED <<pc, result, target, reply, histVars, waiterVars, flagVars, netVars,
                 browserVars, wire>>

-----------------------------------------------------------------------------
(* Page.historyGo: read location.href, run history.go, poll until the      *)
(* document is another one, then set Page.url to what the poll read.  The  *)
(* answer to an evaluation comes behind the events that precede it, so the *)
(* reads happen on an empty wire; the assignment is a later step.          *)

(* A failed first read is ignored and leaves "". *)
HistoryBegin(h) ==
  /\ hpc[h] = "idle" /\ wire = <<>>
  /\ \E b \in {UrlOf(current["main"]), None} : before' = [before EXCEPT ![h] = b]
  /\ hpc' = [hpc EXCEPT ![h] = "go"]
  /\ UNCHANGED <<gotoVars, href, waiterVars, flagVars, netVars, browserVars, wire>>

(* The browser shows another entry again, with no navigation event, or has *)
(* no entry in that direction.                                             *)
HistoryGo(h) ==
  /\ hpc[h] = "go" /\ ~closed
  /\ \/ \E n \in 1..Len(navs) : /\ n # current["main"] /\ IsMain(n)
                                /\ navs[n].st \in {"committed", "interactive", "loaded"}
                                /\ current' = [current EXCEPT !["main"] = n]
     \/ UNCHANGED current
  /\ hpc' = [hpc EXCEPT ![h] = "poll"]
  /\ UNCHANGED <<gotoVars, before, href, waiterVars, flagVars, netVars, requests,
                 owed, navs, closed, wire>>

HistoryPoll(h) ==
  /\ hpc[h] = "poll" /\ ~closed /\ wire = <<>>
  /\ UrlOf(current["main"]) # before[h]
  /\ href' = [href EXCEPT ![h] = UrlOf(current["main"])]
  /\ hpc' = [hpc EXCEPT ![h] = "write"]
  /\ UNCHANGED <<gotoVars, before, waiterVars, flagVars, netVars, browserVars, wire>>

HistoryWrite(h) ==
  /\ hpc[h] = "write"
  /\ url' = href[h]
  /\ hpc' = [hpc EXCEPT ![h] = "moved"]
  /\ UNCHANGED <<gotoVars, before, href, waiterVars, frameUrl, domContentLoaded,
                 loadFired, netVars, browserVars, wire>>

(* Ten seconds without a change, the context's end, or a failed call. *)
HistoryGivesUp(h) ==
  /\ hpc[h] \in {"go", "poll"}
  /\ hpc' = [hpc EXCEPT ![h] = "gaveUp"]
  /\ UNCHANGED <<gotoVars, before, href, waiterVars, flagVars, netVars, browserVars, wire>>

-----------------------------------------------------------------------------
(* The handlers, one per event *)

Take(t) == wire # <<>> /\ Head(wire).t = t /\ wire' = Tail(wire)
N == Head(wire).n

OnNavigationStarted_KeepsResponse ==
  /\ Take("started")
  /\ IF IsMain(N)
     THEN mainNavID' = N /\ mainNavReqID' = 0 /\ UNCHANGED lastResponse
     ELSE UNCHANGED <<mainNavID, mainNavReqID, lastResponse>>
  /\ UNCHANGED <<gotoVars, histVars, waiterVars, flagVars, inflight, browserVars>>

OnNavigationStarted ==
  /\ Take("started")
  /\ IF IsMain(N)
     THEN mainNavID' = N /\ mainNavReqID' = 0 /\ lastResponse' = None
     ELSE UNCHANGED <<mainNavID, mainNavReqID, lastResponse>>
  /\ UNCHANGED <<gotoVars, histVars, waiterVars, flagVars, inflight, browserVars>>

(* The document request of navigation n is request n. *)
OnRequestWillBeSent ==
  /\ Take("request")
  /\ inflight' = inflight \cup {N}
  /\ mainNavReqID' = IF N = mainNavID /\ mainNavReqID = 0 THEN N ELSE mainNavReqID
  /\ UNCHANGED <<gotoVars, histVars, waiterVars, flagVars, mainNavID, lastResponse,
                 browserVars>>

(* The response records the page's URL, not the request's. *)
OnResponseReceived ==
  /\ Take("response")
  /\ lastResponse' = IF N = mainNavReqID THEN [of |-> N, url |-> url] ELSE lastResponse
  /\ UNCHANGED <<gotoVars, histVars, waiterVars, flagVars, mainNavID, mainNavReqID,
                 inflight, browserVars>>

OnRequestDone ==
  /\ Take("done")
  /\ inflight' = inflight \ {N}
  /\ UNCHANGED <<gotoVars, histVars, waiterVars, flagVars, mainNavID, mainNavReqID,
                 lastResponse, browserVars>>

(* The waiters a main-frame commit is for. *)
Satisfies_AnyCommit(g, n) == navID[g] = 0 \/ n = navID[g]
Satisfies_AfterPin(g, n)  == UrlOf(n) # Blank \/ n = navID[g]
Satisfies(g, n) ==
  \/ navID[g] # 0 /\ n = navID[g]
  \/ navID[g] = 0 /\ UrlOf(n) # Blank

OnNavigationCommitted_KeepsLoad ==
  /\ Take("committed")
  /\ frameUrl' = [frameUrl EXCEPT ![navs[N].frame] = UrlOf(N)]
  /\ IF IsMain(N)
     THEN /\ url' = UrlOf(N)
          /\ domContentLoaded' = FALSE /\ UNCHANGED loadFired
          /\ committed' = committed \cup {g \in navWaiters : Satisfies(g, N)}
          /\ seen' = [g \in Gotos |-> IF g \in navWaiters THEN seen[g] \cup {N} ELSE seen[g]]
     ELSE UNCHANGED <<url, domContentLoaded, loadFired, committed, seen>>
  /\ UNCHANGED <<gotoVars, histVars, navWaiters, navID, slot, netVars, browserVars>>

OnNavigationCommitted ==
  /\ Take("committed")
  /\ frameUrl' = [frameUrl EXCEPT ![navs[N].frame] = UrlOf(N)]
  /\ IF IsMain(N)
     THEN /\ url' = UrlOf(N)
          /\ domContentLoaded' = FALSE /\ loadFired' = FALSE
          /\ committed' = committed \cup {g \in navWaiters : Satisfies(g, N)}
          /\ seen' = [g \in Gotos |-> IF g \in navWaiters THEN seen[g] \cup {N} ELSE seen[g]]
     ELSE UNCHANGED <<url, domContentLoaded, loadFired, committed, seen>>
  /\ UNCHANGED <<gotoVars, histVars, navWaiters, navID, slot, netVars, browserVars>>

(* w.ch <- err for every waiter in S, which must find the channels empty, *)
(* and off the list with them.                                            *)
Fulfil_StayListed(S, with) ==
  /\ \A g \in S : slot[g] = None
  /\ slot' = [g \in Gotos |-> IF g \in S THEN with ELSE slot[g]]
  /\ UNCHANGED navWaiters
Fulfil(S, with) ==
  /\ \A g \in S : slot[g] = None
  /\ slot' = [g \in Gotos |-> IF g \in S THEN with ELSE slot[g]]
  /\ navWaiters' = navWaiters \ S

OnDOMContentLoaded ==
  /\ Take("DOMContentLoaded")
  /\ domContentLoaded' = (domContentLoaded \/ IsMain(N))
  /\ UNCHANGED <<gotoVars, histVars, waiterVars, url, frameUrl, loadFired, netVars,
                 browserVars>>

OnLoad ==
  /\ Take("load")
  /\ IF IsMain(N)
     THEN loadFired' = TRUE /\ Fulfil(navWaiters \cap committed, "ok")
     ELSE UNCHANGED <<loadFired, navWaiters, slot>>
  /\ UNCHANGED <<gotoVars, histVars, committed, navID, seen, url, frameUrl,
                 domContentLoaded, netVars, browserVars>>

OnNavigationAborted ==
  /\ Take("aborted")
  /\ IF IsMain(N)
     THEN Fulfil({g \in navWaiters : navID[g] # 0 /\ navID[g] = N}, "aborted")
     ELSE UNCHANGED <<navWaiters, slot>>
  /\ UNCHANGED <<gotoVars, histVars, committed, navID, seen, flagVars, netVars,
                 browserVars>>

(* A reply to a call that has given up is dropped. *)
OnReply ==
  /\ Take("reply") \/ Take("error")
  /\ LET g == Head(wire).g IN
       reply' = IF pc[g] # "calling" THEN reply
                ELSE [reply EXCEPT ![g] = IF Head(wire).t = "error" THEN Failed ELSE N]
  /\ UNCHANGED <<pc, result, target, expired, histVars, waiterVars, flagVars, netVars,
                 browserVars>>

Handlers ==
  \/ OnNavigationStarted \/ OnRequestWillBeSent \/ OnResponseReceived \/ OnRequestDone
  \/ OnNavigationCommitted \/ OnDOMContentLoaded \/ OnLoad \/ OnNavigationAborted
  \/ OnReply

-----------------------------------------------------------------------------
(* The browser: what the client relies on, not code of this repository.    *)
(* It reports each step of a navigation, drops the pending navigation of a *)
(* frame before it starts another, and answers Page.navigate at any time.  *)

Msg(t, n) == [t |-> t, n |-> n, g |-> None]
Emit(ms) == Len(wire) + Len(ms) <= PipeCap /\ wire' = wire \o ms
ClientUnchanged == UNCHANGED <<gotoVars, histVars, waiterVars, flagVars, netVars>>
Moves(n, st) == navs' = [navs EXCEPT ![n].st = st]

(* about:blank needs no request. *)
Start(f, u, g) ==
  /\ ~closed /\ Len(navs) < MaxNavs
  /\ \A n \in 1..Len(navs) : navs[n].frame = f =>
         navs[n].st \notin {"started", "responded"}
  /\ navs' = Append(navs, [frame |-> f, url |-> u, by |-> g, st |-> "started"])
  /\ LET n == Len(navs) + 1 IN
       Emit(IF u = Blank THEN <<Msg("started", n)>>
                         ELSE <<Msg("started", n), Msg("request", n)>>)

(* A link, a script, or the about:blank before a real document. *)
PageNavigates(f) ==
  /\ f = "sub" => SubFrames
  /\ \E u \in Urls : Start(f, u, None)
  /\ UNCHANGED <<requests, owed, current, closed>> /\ ClientUnchanged

Owe(g, t, n) == owed' = owed \cup {[t |-> t, n |-> n, g |-> g]}

Navigate(g) ==
  /\ g \in requests
  /\ Start("main", target[g], g)
  /\ Owe(g, "reply", Len(navs) + 1)
  /\ requests' = requests \ {g}
  /\ UNCHANGED <<current, closed>> /\ ClientUnchanged

(* A same-document navigation has no navigation id; a bad URL is an error. *)
NavigateNowhere(g) ==
  /\ g \in requests /\ ~closed
  /\ \E t \in {"reply", "error"} : Owe(g, t, 0)
  /\ requests' = requests \ {g}
  /\ UNCHANGED <<navs, current, closed, wire>> /\ ClientUnchanged

Reply ==
  /\ ~closed
  /\ \E m \in owed : owed' = owed \ {m} /\ Emit(<<m>>)
  /\ UNCHANGED <<requests, navs, current, closed>> /\ ClientUnchanged

Respond(n) ==
  /\ ~closed /\ navs[n].st = "started" /\ navs[n].url # Blank
  /\ Moves(n, "responded")
  /\ Emit(<<Msg("response", n), Msg("done", n)>>)
  /\ UNCHANGED <<requests, owed, current, closed>> /\ ClientUnchanged

Abort(n) ==
  /\ ~closed /\ navs[n].st \in {"started", "responded"}
  /\ Moves(n, "aborted")
  /\ Emit(IF navs[n].st = "started" /\ navs[n].url # Blank
          THEN <<Msg("done", n), Msg("aborted", n)>> ELSE <<Msg("aborted", n)>>)
  /\ UNCHANGED <<requests, owed, current, closed>> /\ ClientUnchanged

Commit(n) ==
  /\ ~closed
  /\ navs[n].st = (IF navs[n].url = Blank THEN "started" ELSE "responded")
  /\ Moves(n, "committed")
  /\ current' = [current EXCEPT ![navs[n].frame] = n]
  /\ Emit(<<Msg("committed", n)>>)
  /\ UNCHANGED <<requests, owed, closed>> /\ ClientUnchanged

(* A document is ready and then loaded, unless another is shown meanwhile. *)
Ready(n) ==
  /\ ~closed /\ navs[n].st = "committed" /\ current[navs[n].frame] = n
  /\ Moves(n, "interactive")
  /\ Emit(<<Msg("DOMContentLoaded", n)>>)
  /\ UNCHANGED <<requests, owed, current, closed>> /\ ClientUnchanged

Load(n) ==
  /\ ~closed /\ navs[n].st = "interactive" /\ current[navs[n].frame] = n
  /\ Moves(n, "loaded")
  /\ Emit(<<Msg("load", n)>>)
  /\ UNCHANGED <<requests, owed, current, closed>> /\ ClientUnchanged

(* The browser exits or Client.Close runs: readLoop ends, and messages not *)
(* yet handled may be lost.                                                *)
Close ==
  /\ ~closed /\ closed' = TRUE
  /\ wire' = <<>>
  /\ UNCHANGED <<requests, owed, navs, current>> /\ ClientUnchanged

Browser ==
  \/ \E f \in Frames : PageNavigates(f)
  \/ \E g \in Gotos : Navigate(g) \/ NavigateNowhere(g)
  \/ Reply \/ Close
  \/ \E n \in 1..Len(navs) : Respond(n) \/ Abort(n) \/ Commit(n) \/ Ready(n) \/ Load(n)

GotoStep(g) ==
  \/ BeginGoto(g) \/ CallFails(g) \/ CallReturns(g) \/ PinNavID(g)
  \/ GotoReturns(g) \/ GotoTimesOut(g) \/ GotoSeesClosed(g) \/ Expire(g)

HistoryStep(h) ==
  HistoryBegin(h) \/ HistoryGo(h) \/ HistoryPoll(h) \/ HistoryWrite(h) \/ HistoryGivesUp(h)

Next ==
  \/ Handlers
  \/ Browser
  \/ \E g \in Gotos : GotoStep(g)
  \/ \E h \in Histories : HistoryStep(h)

Spec == Init /\ [][Next]_vars

-----------------------------------------------------------------------------
(* A waiter on the list has an empty one-place channel, so no handler of   *)
(* readLoop can block on w.ch and stop every page of the browser; and a    *)
(* finished Goto is not on the list, except when the browser is gone       *)
(* (GotoSeesClosed leaves it there).                                       *)
ListedIsWaiting ==
  \A g \in navWaiters : slot[g] = None /\ (pc[g] = "returned" => closed)

(* A Goto returns without error only after a commit that was handled while *)
(* it waited: its own navigation's once it is bound to an id, and until    *)
(* then that of a real document, never an intermediate about:blank.        *)
ReleasedByCommit ==
  \A g \in Gotos : result[g] = "ok" =>
    /\ navID[g] # 0 => navID[g] \in seen[g]
    /\ \E n \in seen[g] : UrlOf(n) # Blank \/ n = navID[g]

(* Every event is handled and the browser still runs. *)
Quiet == wire = <<>> /\ ~closed

(* Once every event is handled, a Goto whose document is shown and loaded  *)
(* no longer waits, whether reply, commit and load came early or late.     *)
LoadedDocumentReleases(g) ==
  Quiet /\ pc[g] = "wait" /\ current["main"] # 0 =>
    LET nav == navs[current["main"]] IN
      nav.by = g /\ nav.st = "loaded" => slot[g] # None
RealLoadReleases ==
  \A g \in Gotos : target[g] # Blank => LoadedDocumentReleases(g)

NoHistory == \A h \in Histories : hpc[h] \in {"idle", "go"}

(* Once every event is handled, and while no history navigation has begun  *)
(* (it restores a document silently), Page.url and the frame tree show     *)
(* what the browser shows, and what WaitForLoadState reads is the state of *)
(* the document shown and of the requests pending.  The recorded response  *)
(* is at no time one of a superseded navigation; of its URL nothing is     *)
(* said (page.go:320 takes the one shown when it arrives).                 *)
PageSettles ==
  /\ lastResponse # None => lastResponse.of = mainNavID
  /\ Quiet /\ NoHistory =>
       /\ \A f \in Frames : current[f] # 0 => frameUrl[f] = UrlOf(current[f])
       /\ current["main"] # 0 =>
            /\ url = UrlOf(current["main"])
            /\ loadFired = (navs[current["main"]].st = "loaded")
            /\ domContentLoaded = (navs[current["main"]].st \in {"interactive", "loaded"})
  /\ Quiet =>
       inflight = {n \in 1..Len(navs) : navs[n].url # Blank /\ navs[n].st = "started"}

(* page.go:402 "Goto navigates the page to url and waits for the load      *)
(* event": RealLoadReleases, for every URL.                                *)
LoadReleases == \A g \in Gotos : LoadedDocumentReleases(g)
=============================================================================
