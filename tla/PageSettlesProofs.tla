-------------------------- MODULE PageSettlesProofs --------------------------
(* Once every event is handled, the page says of itself what the browser   *)
(* shows, and no Goto waits for a document that is shown and loaded.  What *)
(* that needs is an invariant of the messages still in the pipe, with what *)
(* a step does to them: a handler moves every message one place nearer to  *)
(* the head, the browser appends one or two.                               *)
EXTENDS PageNavProofs

-----------------------------------------------------------------------------
(* What PageSettles and RealLoadReleases need of the messages still in the *)
(* pipe.  Of the document a frame shows: *)
Shown == {"committed", "interactive", "loaded"}
ShownInv ==
  \A f \in Frames : current[f] # 0 =>
    navs[current[f]].frame = f /\ navs[current[f]].st \in Shown

(* The document request is the current navigation's, and its response. *)
ResponseInv ==
  /\ mainNavReqID \in {0, mainNavID}
  /\ lastResponse # None => lastResponse.of = mainNavID

(* A request is announced before it is done, and pending in between. *)
Is(i, t, n) == wire[i].t = t /\ wire[i].n = n
Sent(t, n)  == \E i \in 1..Len(wire) : Is(i, t, n)
Pending(n)  == navs[n].url # Blank /\ navs[n].st = "started"
RequestsOf(n) ==
  /\ Pending(n) => ~Sent("done", n) /\ (n \in inflight \/ Sent("request", n))
  /\ ~Pending(n) => Sent("done", n) \/ (n \notin inflight /\ ~Sent("request", n))
  /\ \A i, j \in 1..Len(wire) :
       /\ Is(i, "done", n) /\ Is(j, "request", n) => j < i
       /\ Is(i, "done", n) /\ Is(j, "done", n) => i = j
NetInv == ~closed => /\ inflight \subseteq 1..Len(navs)
                     /\ \A n \in 1..Len(navs) : RequestsOf(n)

(* The last commit on its way to a frame is of the document it shows. *)
Com(i, f)  == wire[i].t = "committed" /\ navs[wire[i].n].frame = f
NoCom(f)   == \A i \in 1..Len(wire) : ~Com(i, f)
Live(i, f) == \A j \in 1..Len(wire) : Com(j, f) => j < i
Shows(f) ==
  /\ \A i \in 1..Len(wire) :
       Com(i, f) /\ (\A j \in 1..Len(wire) : Com(j, f) => j <= i)
               => wire[i].n = current[f]
  /\ NoCom(f) => /\ frameUrl[f] = UrlOf(current[f])
                 /\ f = "main" => url = UrlOf(current[f])

(* Behind it come the load events of that document, once it has got there. *)
MainAt(i, t) == wire[i].t = t /\ navs[wire[i].n].frame = "main"
ComesBehind(t) == \E i \in 1..Len(wire) : Live(i, "main") /\ MainAt(i, t)
LoadedSt(t) == IF t = "load" THEN {"loaded"} ELSE {"interactive", "loaded"}
LoadsFor(c, t, fired) ==
  IF navs[c].st \in LoadedSt(t)
  THEN (NoCom("main") /\ fired) \/ ComesBehind(t)
  ELSE (NoCom("main") => ~fired) /\ ~ComesBehind(t)
LoadsOf(c) == /\ LoadsFor(c, "load", loadFired)
              /\ LoadsFor(c, "DOMContentLoaded", domContentLoaded)
FrameInv == ~closed /\ NoHistory =>
  /\ \A f \in Frames : current[f] # 0 => Shows(f)
  /\ current["main"] # 0 => LoadsOf(current["main"])

(* A Goto has at most one navigation, and the ids it hears of are its own. *)
Own(n, g)    == n \in 1..Len(navs) /\ navs[n].by = g
Answers(m)   == m.t = "reply" /\ m.n # 0 => Own(m.n, m.g)
OwnInv ==
  /\ \A g \in Gotos : g \in requests => pc[g] # "idle"
  /\ \A g \in Gotos, n \in 1..Len(navs) : navs[n].by = g =>
       /\ navs[n].frame = "main" /\ navs[n].url = target[g]
       /\ g \notin requests /\ pc[g] # "idle"
       /\ \A m \in 1..Len(navs) : navs[m].by = g => m = n
  /\ \A m \in owed : Answers(m)
  /\ \A i \in 1..Len(wire) : Answers(wire[i])
  /\ \A g \in Gotos : /\ reply[g] \in 1..MaxNavs => Own(reply[g], g)
                      /\ navID[g] # 0 => Own(navID[g], g)

(* A Goto that waits is listed, and the commit and the load event of its   *)
(* document have been handled or are on their way, in this order.          *)
Waits(g) == pc[g] \in {"calling", "pin", "wait"} /\ slot[g] = None
Comes(n, g) ==
  /\ navs[n].st \in Shown => g \in committed \/ Sent("committed", n)
  /\ navs[n].st = "loaded" =>
       \E i \in 1..Len(wire) :
         Is(i, "load", n) /\ \A j \in 1..Len(wire) : Is(j, "committed", n) => j < i
WaitInv ==
  \A g \in Gotos : Waits(g) =>
    /\ g \in navWaiters
    /\ ~closed /\ target[g] # Blank => \A n \in 1..Len(navs) : navs[n].by = g
         => Comes(n, g)

-----------------------------------------------------------------------------
(* What a step does to the pipe and to the navigations *)

LEMMA TakenIs ==
  ASSUME IInv, NEW t, Take(t)
  PROVE  /\ wire[1].t = t /\ N = wire[1].n /\ Head(wire) = wire[1]
         /\ 1 \in 1..Len(wire) /\ Len(wire) \in Nat /\ Len(wire') = Len(wire) - 1
         /\ \A i \in 1..Len(wire') : i+1 \in 1..Len(wire) /\ wire'[i] = wire[i+1]
         /\ \A i \in 1..Len(wire) :
              i = 1 \/ (i-1 \in 1..Len(wire') /\ wire'[i-1] = wire[i] /\ i-1 \in Int)
<1>1. wire \in Seq(Message) /\ wire # <<>> /\ Head(wire).t = t /\ wire' = Tail(wire)
  BY DEF IInv, TypeOK, Take
<1>2. /\ Head(wire) = wire[1] /\ 1 \in 1..Len(wire) /\ Len(wire) \in Nat
      /\ Len(wire') = Len(wire) - 1
      /\ \A i \in 1..Len(wire') : i+1 \in 1..Len(wire) /\ wire'[i] = wire[i+1]
  BY <1>1
<1>3. \A i \in 1..Len(wire) :
        i = 1 \/ (i-1 \in 1..Len(wire') /\ wire'[i-1] = wire[i] /\ i-1 \in Int)
  <2> SUFFICES ASSUME NEW i \in 1..Len(wire), i # 1
               PROVE  i-1 \in 1..Len(wire') /\ wire'[i-1] = wire[i] /\ i-1 \in Int
    OBVIOUS
  <2>1. i-1 \in 1..Len(wire') /\ (i-1)+1 = i
    BY <1>2
  <2>2. QED
    BY <1>2, <2>1
<1>4. QED
  BY <1>1, <1>2, <1>3 DEF N

(* What is in the pipe stays there, behind it comes what is sent. *)
Grows == /\ Len(wire) \in Nat /\ Len(wire') \in Nat /\ Len(wire) <= Len(wire')
         /\ \A i \in 1..Len(wire) : i \in 1..Len(wire') /\ wire'[i] = wire[i]

LEMMA OneSent ==
  ASSUME IInv, NEW m \in Message, Emit(<<m>>)
  PROVE  /\ Grows /\ Len(wire') = Len(wire) + 1 /\ wire'[Len(wire) + 1] = m
         /\ \A i \in 1..Len(wire') : i \in 1..Len(wire) \/ i = Len(wire) + 1
BY DEF IInv, TypeOK, Emit, Grows

LEMMA TwoSent ==
  ASSUME IInv, NEW m \in Message, NEW m2 \in Message, Emit(<<m, m2>>)
  PROVE  /\ Grows /\ Len(wire') = Len(wire) + 2
         /\ wire'[Len(wire) + 1] = m /\ wire'[Len(wire) + 2] = m2
         /\ \A i \in 1..Len(wire') :
              i \in 1..Len(wire) \/ i = Len(wire) + 1 \/ i = Len(wire) + 2
<1> DEFINE ms == <<m, m2>>
<1>1. wire \in Seq(Message) /\ ms \in Seq(Message) /\ wire' = wire \o ms /\ Len(ms) = 2
  BY DEF IInv, TypeOK, Emit
<1>2. ms[1] = m /\ ms[2] = m2
  OBVIOUS
<1> HIDE DEF ms
<1>3. /\ Len(wire) \in Nat /\ Len(wire') = Len(wire) + 2
      /\ \A i \in 1..(Len(wire) + 2) :
           wire'[i] = IF i <= Len(wire) THEN wire[i] ELSE ms[i - Len(wire)]
  <2>1. /\ Len(wire \o ms) = Len(wire) + Len(ms)
        /\ \A i \in 1..(Len(wire) + Len(ms)) :
             (wire \o ms)[i] = IF i <= Len(wire) THEN wire[i] ELSE ms[i - Len(wire)]
    BY <1>1, ConcatProperties
  <2>2. Len(wire) \in Nat
    BY <1>1
  <2>3. QED
    BY <1>1, <2>1, <2>2
<1> DEFINE k == Len(wire)
<1>4. k \in Nat /\ k + 1 \in 1..(k + 2) /\ k + 2 \in 1..(k + 2) /\ (k + 1) - k = 1
        /\ (k + 2) - k = 2
      /\ ~(k + 1 <= k) /\ ~(k + 2 <= k)
  BY <1>3
<1>5. wire'[k + 1] = ms[1] /\ wire'[k + 2] = ms[2]
  BY <1>3, <1>4
<1>6. QED
  BY <1>2, <1>3, <1>5 DEF Grows

LEMMA MsgIs ==
  ASSUME NEW t \in Kinds, NEW n \in 0..MaxNavs
  PROVE  Msg(t, n) \in Message /\ Msg(t, n).t = t /\ Msg(t, n).n = n
BY DEF Msg, Message

LEMMA NavsAre ==
  ASSUME IInv
  PROVE  /\ navs \in Seq(Nav) /\ Len(navs) \in Nat /\ MaxNavs \in Nat
          /\ 1..Len(navs) \subseteq Navs
         /\ \A n \in 1..Len(navs) : navs[n] \in Nav /\ n \in 0..MaxNavs /\ n # 0
              /\ UrlOf(n) = navs[n].url
         /\ \A f \in Frames : current[f] # 0 => current[f] \in 1..Len(navs)
         /\ \A i \in 1..Len(wire) : wire[i].t \in Events => wire[i].n \in 1..Len(navs)
<1>1. navs \in Seq(Nav) /\ Len(navs) \in Nat /\ MaxNavs \in Nat /\ Len(navs) <= MaxNavs
  BY NavAssumption DEF IInv, TypeOK
<1>2. \A n \in 1..Len(navs) : navs[n] \in Nav /\ n \in 0..MaxNavs /\ n # 0
        /\ UrlOf(n) = navs[n].url
  BY <1>1 DEF UrlOf
<1>3. \A f \in Frames : current[f] # 0 => current[f] \in 1..Len(navs)
  BY <1>1 DEF IInv, WireInv
<1>4. \A i \in 1..Len(wire) : wire[i].t \in Events => wire[i].n \in 1..Len(navs)
  BY DEF IInv, WireInv, Names
<1>5. QED
  BY <1>1, <1>2, <1>3, <1>4 DEF Navs

(* Navigation n moves on, and nothing else about the navigations changes. *)
Moved(n, st) ==
  /\ Len(navs') = Len(navs) /\ navs'[n].st = st
  /\ \A m \in 1..Len(navs) : m # n => navs'[m] = navs[m]
  /\ \A m \in 1..Len(navs) : /\ navs'[m].frame = navs[m].frame
       /\ navs'[m].url = navs[m].url
                             /\ navs'[m].by = navs[m].by

LEMMA MovedIs ==
  ASSUME IInv, NEW n \in 1..Len(navs),
         NEW st \in {"started", "responded", "aborted", "committed", "interactive", "loaded"},
                 Moves(n, st)
  PROVE  Moved(n, st)
<1> DEFINE new == [navs[n] EXCEPT !.st = st]
<1>1. navs \in Seq(Nav) /\ navs[n] \in Nav
  BY NavsAre
<1>2. /\ new \in Nav /\ new.st = st /\ new.frame = navs[n].frame
        /\ new.url = navs[n].url
      /\ new.by = navs[n].by
  BY <1>1 DEF Nav
<1>3. navs' = [navs EXCEPT ![n] = new]
  BY DEF Moves
<1> HIDE DEF new
<1>4. QED
  BY <1>1, <1>2, <1>3 DEF Moved

LEMMA StartIs ==
  ASSUME IInv, NEW f \in Frames, NEW u \in Urls, NEW g \in Gotos \cup {None},
         Start(f, u, g)
  PROVE  /\ Len(navs') = Len(navs) + 1 /\ Len(navs) + 1 \in 1..MaxNavs /\ Grows
         /\ \A n \in 1..Len(navs) : n \in 1..Len(navs') /\ navs'[n] = navs[n]
         /\ \A n \in 1..Len(navs') : n \in 1..Len(navs) \/ n = Len(navs) + 1
         /\ navs'[Len(navs) + 1].frame = f /\ navs'[Len(navs) + 1].url = u
         /\ navs'[Len(navs) + 1].by = g /\ navs'[Len(navs) + 1].st = "started"
         /\ \A i \in 1..Len(wire') : i \in 1..Len(wire) \/
              (wire'[i].n = Len(navs) + 1 /\ wire'[i].t \in {"started", "request"})
         /\ u # Blank => \E i \in 1..Len(wire') :
                           wire'[i].t = "request" /\ wire'[i].n = Len(navs) + 1
         /\ u = Blank => \A i \in 1..Len(wire') : i \in 1..Len(wire)
              \/ wire'[i].t = "started"
<1> DEFINE new == [frame |-> f, url |-> u, by |-> g, st |-> "started"]
           n == Len(navs) + 1
<1>1. navs \in Seq(Nav) /\ Len(navs) \in Nat /\ navs' = Append(navs, new) /\ new \in Nav
  BY NavsAre DEF Start, Nav
<1>2. n \in 1..MaxNavs /\ n \in 0..MaxNavs
  BY NavsAre DEF Start
<1>3. new.frame = f /\ new.url = u /\ new.by = g /\ new.st = "started"
  OBVIOUS
<1>4. u = Blank => Emit(<<Msg("started", n)>>)
  BY DEF Start
<1>5. u # Blank => Emit(<<Msg("started", n), Msg("request", n)>>)
  BY DEF Start
<1> HIDE DEF new
<1>6. /\ Len(navs') = Len(navs) + 1
      /\ \A m \in 1..Len(navs) : m \in 1..Len(navs') /\ navs'[m] = navs[m]
      /\ \A m \in 1..Len(navs') : m \in 1..Len(navs) \/ m = Len(navs) + 1
      /\ navs'[Len(navs) + 1] = new
  BY <1>1
<1>7. /\ Msg("started", n) \in Message /\ Msg("started", n).t = "started"
      /\ Msg("started", n).n = n
      /\ Msg("request", n) \in Message /\ Msg("request", n).t = "request"
      /\ Msg("request", n).n = n
  BY <1>2, MsgIs DEF Kinds
<1> HIDE DEF n
<1>8. CASE u = Blank
  <2>1. /\ Grows /\ wire'[Len(wire) + 1] = Msg("started", n)
        /\ \A i \in 1..Len(wire') : i \in 1..Len(wire) \/ i = Len(wire) + 1
    BY <1>4, <1>7, <1>8, OneSent
  <2>2. QED
    BY <1>2, <1>3, <1>6, <1>7, <1>8, <2>1 DEF n
<1>9. CASE u # Blank
  <2>1. /\ Grows /\ Len(wire') = Len(wire) + 2
        /\ wire'[Len(wire) + 1] = Msg("started", n)
             /\ wire'[Len(wire) + 2] = Msg("request", n)
        /\ \A i \in 1..Len(wire') :
              i \in 1..Len(wire) \/ i = Len(wire) + 1 \/ i = Len(wire) + 2
    BY <1>5, <1>7, <1>9, TwoSent
  <2>2. Len(wire) + 2 \in 1..Len(wire')
    BY <2>1 DEF Grows
  <2>3. QED
    BY <1>2, <1>3, <1>6, <1>7, <1>9, <2>1, <2>2 DEF n
<1>10. QED
  BY <1>8, <1>9

(* A navigation moves on and one or two messages tell of it. *)
LEMMA ReportIs ==
  ASSUME IInv, NEW n \in 1..Len(navs), NEW t \in Kinds, NEW t2 \in Kinds
  PROVE  /\ Emit(<<Msg(t, n)>>) =>
              /\ Grows /\ Len(wire') = Len(wire) + 1
              /\ wire'[Len(wire) + 1].t = t /\ wire'[Len(wire) + 1].n = n
              /\ \A i \in 1..Len(wire') : i \in 1..Len(wire) \/ i = Len(wire) + 1
         /\ Emit(<<Msg(t, n), Msg(t2, n)>>) =>
              /\ Grows /\ Len(wire') = Len(wire) + 2
              /\ wire'[Len(wire) + 1].t = t /\ wire'[Len(wire) + 1].n = n
              /\ wire'[Len(wire) + 2].t = t2 /\ wire'[Len(wire) + 2].n = n
              /\ \A i \in 1..Len(wire') :
                   i \in 1..Len(wire) \/ i = Len(wire) + 1 \/ i = Len(wire) + 2
<1>1. n \in 0..MaxNavs
  BY NavsAre
<1>2. /\ Msg(t, n) \in Message /\ Msg(t, n).t = t /\ Msg(t, n).n = n
      /\ Msg(t2, n) \in Message /\ Msg(t2, n).t = t2 /\ Msg(t2, n).n = n
  BY <1>1, MsgIs
<1>3. QED
  BY <1>2, OneSent, TwoSent

-----------------------------------------------------------------------------
(* The document a frame shows *)
LEMMA ShownStep ==
  ASSUME IInv, ShownInv, [Next]_vars
  PROVE  ShownInv'
<1>1. CASE OnNavigationStarted
  BY <1>1 DEF OnNavigationStarted, ShownInv, browserVars, vars
<1>2. CASE OnRequestWillBeSent
  BY <1>2 DEF OnRequestWillBeSent, ShownInv, browserVars, vars
<1>3. CASE OnResponseReceived
  BY <1>3 DEF OnResponseReceived, ShownInv, browserVars, vars
<1>4. CASE OnRequestDone
  BY <1>4 DEF OnRequestDone, ShownInv, browserVars, vars
<1>5. CASE OnNavigationCommitted
  BY <1>5 DEF OnNavigationCommitted, ShownInv, browserVars, vars
<1>6. CASE OnDOMContentLoaded
  BY <1>6 DEF OnDOMContentLoaded, ShownInv, browserVars, vars
<1>7. CASE OnLoad
  BY <1>7 DEF OnLoad, ShownInv, browserVars, vars
<1>8. CASE OnNavigationAborted
  BY <1>8 DEF OnNavigationAborted, ShownInv, browserVars, vars
<1>9. CASE OnReply
  BY <1>9 DEF OnReply, ShownInv, browserVars, vars
<1>10. ASSUME NEW f \in Frames, PageNavigates(f) PROVE ShownInv'
  <2>1. PICK u \in Urls : Start(f, u, None)
    BY <1>10 DEF PageNavigates
  <2>2. current' = current
    BY <1>10 DEF PageNavigates
  <2>3. QED
    BY <2>1, <2>2, StartIs, NavsAre DEF ShownInv
<1>11. ASSUME NEW g \in Gotos, Navigate(g) PROVE ShownInv'
  <2>1. Start("main", target[g], g) /\ target[g] \in Urls /\ "main" \in Frames
    BY <1>11 DEF Navigate, IInv, TypeOK, Frames
  <2>2. current' = current
    BY <1>11 DEF Navigate
  <2>3. QED
    BY <2>1, <2>2, StartIs, NavsAre DEF ShownInv
<1>12. ASSUME NEW g \in Gotos, NavigateNowhere(g) PROVE ShownInv'
  BY <1>12 DEF NavigateNowhere, ShownInv
<1>13. CASE Reply
  BY <1>13 DEF Reply, ShownInv
<1>14. CASE Close
  BY <1>14 DEF Close, ShownInv
<1>15. ASSUME NEW n \in 1..Len(navs), Respond(n) PROVE ShownInv'
  <2>1. Moved(n, "responded")
    BY <1>15, MovedIs DEF Respond
  <2>2. current' = current /\ navs[n].st \in {"started", "responded"}
    BY <1>15 DEF Respond
  <2>3. QED
    BY <2>1, <2>2, NavsAre DEF ShownInv, Shown, Moved
<1>16. ASSUME NEW n \in 1..Len(navs), Abort(n) PROVE ShownInv'
  <2>1. Moved(n, "aborted")
    BY <1>16, MovedIs DEF Abort
  <2>2. current' = current /\ navs[n].st \in {"started", "responded"}
    BY <1>16 DEF Abort
  <2>3. QED
    BY <2>1, <2>2, NavsAre DEF ShownInv, Shown, Moved
<1>17. ASSUME NEW n \in 1..Len(navs), Commit(n) PROVE ShownInv'
  <2>1. Moved(n, "committed")
    BY <1>17, MovedIs DEF Commit
  <2>2. /\ current \in [Frames -> 0..MaxNavs] /\ navs[n].frame \in Frames
        /\ current' = [current EXCEPT ![navs[n].frame] = n]
    BY <1>17, NavsAre DEF Commit, IInv, TypeOK, Nav
  <2>3. \A f \in Frames : \/ current'[f] = n /\ navs[n].frame = f
                          \/ current'[f] = current[f]
    BY <2>2
  <2>4. QED
    BY <2>1, <2>3, NavsAre DEF ShownInv, Shown, Moved
<1>ready. ASSUME NEW n \in 1..Len(navs), Ready(n) PROVE ShownInv'
  <2>1. Moved(n, "interactive")
    BY <1>ready, MovedIs DEF Ready
  <2>2. current' = current
    BY <1>ready DEF Ready
  <2>3. QED
    BY <2>1, <2>2, NavsAre DEF ShownInv, Shown, Moved
<1>18. ASSUME NEW n \in 1..Len(navs), Load(n) PROVE ShownInv'
  <2>1. Moved(n, "loaded")
    BY <1>18, MovedIs DEF Load
  <2>2. current' = current
    BY <1>18 DEF Load
  <2>3. QED
    BY <2>1, <2>2, NavsAre DEF ShownInv, Shown, Moved
<1>19. ASSUME NEW g \in Gotos, BeginGoto(g) PROVE ShownInv'
  BY <1>19 DEF BeginGoto, ShownInv, browserVars, vars
<1>20. ASSUME NEW g \in Gotos, CallFails(g) PROVE ShownInv'
  BY <1>20 DEF CallFails, ShownInv, browserVars, vars
<1>21. ASSUME NEW g \in Gotos, CallReturns(g) PROVE ShownInv'
  BY <1>21 DEF CallReturns, ShownInv, browserVars, vars
<1>22. ASSUME NEW g \in Gotos, PinNavID(g) PROVE ShownInv'
  BY <1>22 DEF PinNavID, ShownInv, browserVars, vars
<1>23. ASSUME NEW g \in Gotos, GotoReturns(g) PROVE ShownInv'
  BY <1>23 DEF GotoReturns, ShownInv, browserVars, vars
<1>24. ASSUME NEW g \in Gotos, GotoTimesOut(g) PROVE ShownInv'
  BY <1>24 DEF GotoTimesOut, ShownInv, browserVars, vars
<1>25. ASSUME NEW g \in Gotos, GotoSeesClosed(g) PROVE ShownInv'
  BY <1>25 DEF GotoSeesClosed, ShownInv, browserVars, vars
<1>26. ASSUME NEW g \in Gotos, Expire(g) PROVE ShownInv'
  BY <1>26 DEF Expire, ShownInv, browserVars, vars
<1>27. ASSUME NEW h \in Histories, HistoryBegin(h) PROVE ShownInv'
  BY <1>27 DEF HistoryBegin, ShownInv, browserVars, vars
<1>28. ASSUME NEW h \in Histories, HistoryGo(h) PROVE ShownInv'
  <2>1. navs' = navs /\ current \in [Frames -> 0..MaxNavs]
    BY <1>28 DEF HistoryGo, IInv, TypeOK
  <2>2. CASE current' = current
    BY <2>1, <2>2 DEF ShownInv
  <2>3. CASE \E n \in 1..Len(navs) : /\ n # current["main"] /\ IsMain(n)
                                    /\ navs[n].st \in Shown
                                    /\ current' = [current EXCEPT !["main"] = n]
    BY <2>1, <2>3 DEF ShownInv, IsMain
  <2>4. QED
    BY <1>28, <2>2, <2>3 DEF HistoryGo, Shown
<1>29. ASSUME NEW h \in Histories, HistoryPoll(h) PROVE ShownInv'
  BY <1>29 DEF HistoryPoll, ShownInv, browserVars, vars
<1>30. ASSUME NEW h \in Histories, HistoryWrite(h) PROVE ShownInv'
  BY <1>30 DEF HistoryWrite, ShownInv, browserVars, vars
<1>31. ASSUME NEW h \in Histories, HistoryGivesUp(h) PROVE ShownInv'
  BY <1>31 DEF HistoryGivesUp, ShownInv, browserVars, vars
<1>32. CASE UNCHANGED vars
  BY <1>32 DEF vars, ShownInv, browserVars, vars
<1>33. QED
  BY <1>1, <1>2, <1>3, <1>4, <1>5, <1>6, <1>7, <1>8, <1>9, <1>10, <1>11, <1>12, <1>13,
     <1>14, <1>15, <1>16, <1>17, <1>18, <1>ready,
     <1>19, <1>20, <1>21, <1>22, <1>23, <1>24, <1>25,
     <1>26, <1>27, <1>28, <1>29, <1>30, <1>31, <1>32
     DEF Next, Handlers, Browser, GotoStep, HistoryStep

-----------------------------------------------------------------------------
(* The recorded response *)
LEMMA ResponseStep ==
  ASSUME IInv, ResponseInv, [Next]_vars
  PROVE  ResponseInv'
<1>1. CASE OnNavigationStarted
  BY <1>1 DEF OnNavigationStarted, ResponseInv
<1>2. CASE OnRequestWillBeSent
  BY <1>2 DEF OnRequestWillBeSent, ResponseInv
<1>3. CASE OnResponseReceived
  <2>1. N \in 1..Len(navs)
    BY <1>3, Taken DEF OnResponseReceived, Kinds, Events, browserVars
  <2>2. N # 0
    BY <2>1
  <2>3. QED
    BY <1>3, <2>2 DEF OnResponseReceived, ResponseInv
<1>4. CASE OnRequestDone
  BY <1>4 DEF OnRequestDone, ResponseInv, netVars, vars, ClientUnchanged
<1>5. CASE OnNavigationCommitted
  BY <1>5 DEF OnNavigationCommitted, ResponseInv, netVars, vars, ClientUnchanged
<1>6. CASE OnDOMContentLoaded
  BY <1>6 DEF OnDOMContentLoaded, ResponseInv, netVars, vars, ClientUnchanged
<1>7. CASE OnLoad
  BY <1>7 DEF OnLoad, ResponseInv, netVars, vars, ClientUnchanged
<1>8. CASE OnNavigationAborted
  BY <1>8 DEF OnNavigationAborted, ResponseInv, netVars, vars, ClientUnchanged
<1>9. CASE OnReply
  BY <1>9 DEF OnReply, ResponseInv, netVars, vars, ClientUnchanged
<1>10. ASSUME NEW f \in Frames, PageNavigates(f) PROVE ResponseInv'
  BY <1>10 DEF PageNavigates, ResponseInv, netVars, vars, ClientUnchanged
<1>11. ASSUME NEW g \in Gotos, Navigate(g) PROVE ResponseInv'
  BY <1>11 DEF Navigate, ResponseInv, netVars, vars, ClientUnchanged
<1>12. ASSUME NEW g \in Gotos, NavigateNowhere(g) PROVE ResponseInv'
  BY <1>12 DEF NavigateNowhere, ResponseInv, netVars, vars, ClientUnchanged
<1>13. CASE Reply
  BY <1>13 DEF Reply, ResponseInv, netVars, vars, ClientUnchanged
<1>14. CASE Close
  BY <1>14 DEF Close, ResponseInv, netVars, vars, ClientUnchanged
<1>15. ASSUME NEW n \in 1..Len(navs), Respond(n) PROVE ResponseInv'
  BY <1>15 DEF Respond, ResponseInv, netVars, vars, ClientUnchanged
<1>16. ASSUME NEW n \in 1..Len(navs), Abort(n) PROVE ResponseInv'
  BY <1>16 DEF Abort, ResponseInv, netVars, vars, ClientUnchanged
<1>17. ASSUME NEW n \in 1..Len(navs), Commit(n) PROVE ResponseInv'
  BY <1>17 DEF Commit, ResponseInv, netVars, vars, ClientUnchanged
<1>ready. ASSUME NEW n \in 1..Len(navs), Ready(n) PROVE ResponseInv'
  BY <1>ready DEF Ready, ResponseInv, netVars, vars, ClientUnchanged
<1>18. ASSUME NEW n \in 1..Len(navs), Load(n) PROVE ResponseInv'
  BY <1>18 DEF Load, ResponseInv, netVars, vars, ClientUnchanged
<1>19. ASSUME NEW g \in Gotos, BeginGoto(g) PROVE ResponseInv'
  BY <1>19 DEF BeginGoto, ResponseInv, netVars, vars, ClientUnchanged
<1>20. ASSUME NEW g \in Gotos, CallFails(g) PROVE ResponseInv'
  BY <1>20 DEF CallFails, ResponseInv, netVars, vars, ClientUnchanged
<1>21. ASSUME NEW g \in Gotos, CallReturns(g) PROVE ResponseInv'
  BY <1>21 DEF CallReturns, ResponseInv, netVars, vars, ClientUnchanged
<1>22. ASSUME NEW g \in Gotos, PinNavID(g) PROVE ResponseInv'
  BY <1>22 DEF PinNavID, ResponseInv, netVars, vars, ClientUnchanged
<1>23. ASSUME NEW g \in Gotos, GotoReturns(g) PROVE ResponseInv'
  BY <1>23 DEF GotoReturns, ResponseInv, netVars, vars, ClientUnchanged
<1>24. ASSUME NEW g \in Gotos, GotoTimesOut(g) PROVE ResponseInv'
  BY <1>24 DEF GotoTimesOut, ResponseInv, netVars, vars, ClientUnchanged
<1>25. ASSUME NEW g \in Gotos, GotoSeesClosed(g) PROVE ResponseInv'
  BY <1>25 DEF GotoSeesClosed, ResponseInv, netVars, vars, ClientUnchanged
<1>26. ASSUME NEW g \in Gotos, Expire(g) PROVE ResponseInv'
  BY <1>26 DEF Expire, ResponseInv, netVars, vars, ClientUnchanged
<1>27. ASSUME NEW h \in Histories, HistoryBegin(h) PROVE ResponseInv'
  BY <1>27 DEF HistoryBegin, ResponseInv, netVars, vars, ClientUnchanged
<1>28. ASSUME NEW h \in Histories, HistoryGo(h) PROVE ResponseInv'
  BY <1>28 DEF HistoryGo, ResponseInv, netVars, vars, ClientUnchanged
<1>29. ASSUME NEW h \in Histories, HistoryPoll(h) PROVE ResponseInv'
  BY <1>29 DEF HistoryPoll, ResponseInv, netVars, vars, ClientUnchanged
<1>30. ASSUME NEW h \in Histories, HistoryWrite(h) PROVE ResponseInv'
  BY <1>30 DEF HistoryWrite, ResponseInv, netVars, vars, ClientUnchanged
<1>31. ASSUME NEW h \in Histories, HistoryGivesUp(h) PROVE ResponseInv'
  BY <1>31 DEF HistoryGivesUp, ResponseInv, netVars, vars, ClientUnchanged
<1>32. CASE UNCHANGED vars
  BY <1>32 DEF vars, ResponseInv, netVars, vars, ClientUnchanged
<1>33. QED
  BY <1>1, <1>2, <1>3, <1>4, <1>5, <1>6, <1>7, <1>8, <1>9, <1>10, <1>11, <1>12, <1>13,
     <1>14, <1>15, <1>16, <1>17, <1>18, <1>ready,
     <1>19, <1>20, <1>21, <1>22, <1>23, <1>24, <1>25,
     <1>26, <1>27, <1>28, <1>29, <1>30, <1>31, <1>32
     DEF Next, Handlers, Browser, GotoStep, HistoryStep

-----------------------------------------------------------------------------
(* The requests pending.  A navigation whose request and answer a step does *)
(* not touch, the messages about them d places nearer to the head.          *)
Untouched(n, d) ==
  /\ navs'[n].url = navs[n].url
  /\ navs'[n].st = "started" <=> navs[n].st = "started"
  /\ n \in inflight' <=> n \in inflight
  /\ \A i \in 1..Len(wire') : wire'[i].n = n /\ wire'[i].t \in {"request", "done"} =>
       i + d \in 1..Len(wire) /\ wire'[i] = wire[i + d]
  /\ \A i \in 1..Len(wire) : wire[i].n = n /\ wire[i].t \in {"request", "done"} =>
       i - d \in 1..Len(wire') /\ wire'[i - d] = wire[i]

LEMMA UntouchedKeeps ==
  ASSUME NEW n \in 1..Len(navs), NEW d \in {0, 1}, Untouched(n, d), RequestsOf(n)
  PROVE  RequestsOf(n)'
<1>1. \A t \in {"request", "done"}, i \in 1..Len(wire') :
        Is(i, t, n)' => i + d \in 1..Len(wire) /\ Is(i + d, t, n)
  BY DEF Untouched, Is
<1>2. \A t \in {"request", "done"}, i \in 1..Len(wire) :
        Is(i, t, n) => i - d \in 1..Len(wire') /\ wire'[i - d].t = t
                /\ wire'[i - d].n = n
  BY DEF Untouched, Is
<1>3. \A t \in {"request", "done"} : Sent(t, n)' <=> Sent(t, n)
  BY <1>1, <1>2 DEF Sent, Is
<1>4. Pending(n)' <=> Pending(n)
  BY DEF Untouched, Pending
<1>5. (n \in inflight)' <=> n \in inflight
  BY DEF Untouched
<1>6. /\ Pending(n)' => ~Sent("done", n)' /\ ((n \in inflight)' \/ Sent("request", n)')
      /\ ~Pending(n)' => Sent("done", n)'
           \/ ((n \notin inflight)' /\ ~Sent("request", n)')
  BY <1>3, <1>4, <1>5 DEF RequestsOf
<1>7. ASSUME NEW i \in 1..Len(wire'), NEW j \in 1..Len(wire'), Is(i, "done", n)'
      PROVE  /\ Is(j, "request", n)' => j < i
             /\ Is(j, "done", n)' => i = j
  <2>1. i + d \in 1..Len(wire) /\ Is(i + d, "done", n)
    BY <1>1, <1>7
  <2>2. \A t \in {"request", "done"} :
          Is(j, t, n)' => j + d \in 1..Len(wire) /\ Is(j + d, t, n)
    BY <1>1
  <2>3. \A k \in 1..Len(wire) : /\ Is(k, "request", n) => k < i + d
                                /\ Is(k, "done", n) => i + d = k
    BY <2>1 DEF RequestsOf
  <2>4. QED
    BY <2>2, <2>3
<1>8. QED
  BY <1>6, <1>7 DEF RequestsOf, Is

LEMMA UntouchedAll ==
  ASSUME NEW d \in {0, 1}, NetInv, closed' = closed, Len(navs') = Len(navs),
         inflight' = inflight, \A n \in 1..Len(navs) : Untouched(n, d)
  PROVE  NetInv'
<1> SUFFICES ASSUME ~closed, \A n \in 1..Len(navs) : RequestsOf(n),
                    inflight \subseteq 1..Len(navs)
             PROVE  \A n \in 1..Len(navs) : RequestsOf(n)'
  BY DEF NetInv
<1>1. QED
  BY UntouchedKeeps

(* What the pipe loses or gains is none of a request's messages. *)
LEMMA TakenUntouched ==
  ASSUME IInv, NEW t, Take(t), NEW n \in 1..Len(navs), UNCHANGED navs,
         wire[1].n # n \/ t \notin {"request", "done"},
                 n \in inflight' <=> n \in inflight
  PROVE  Untouched(n, 1)
<1>1. wire[1].n # n \/ wire[1].t \notin {"request", "done"}
  BY TakenIs
<1>2. /\ \A i \in 1..Len(wire') : i + 1 \in 1..Len(wire) /\ wire'[i] = wire[i + 1]
      /\ \A i \in 1..Len(wire) : i = 1 \/ (i - 1 \in 1..Len(wire')
           /\ wire'[i - 1] = wire[i])
  BY TakenIs
<1>3. QED
  BY <1>1, <1>2 DEF Untouched

LEMMA GrownUntouched ==
  ASSUME NEW n \in 1..Len(navs), Grows, inflight' = inflight,
         navs'[n].url = navs[n].url, navs'[n].st = "started" <=> navs[n].st = "started",
         \A i \in 1..Len(wire') : i \in 1..Len(wire) \/ wire'[i].n # n
                                  \/ wire'[i].t \notin {"request", "done"}
  PROVE  Untouched(n, 0)
<1>1. \A i \in 1..Len(wire) : i \in 1..Len(wire') /\ wire'[i] = wire[i]
  BY DEF Grows
<1>2. \A i \in 1..Len(wire') : i + 0 = i /\ i - 0 = i
  OBVIOUS
<1>3. \A i \in 1..Len(wire) : i + 0 = i /\ i - 0 = i
  OBVIOUS
<1>4. QED
  BY <1>1, <1>2, <1>3 DEF Untouched

(* A navigation begins, its request announced unless it needs none. *)
LEMMA StartRequests ==
  ASSUME IInv, NetInv, NEW f \in Frames, NEW u \in Urls, NEW g \in Gotos \cup {None},
         Start(f, u, g), closed' = closed, inflight' = inflight
  PROVE  NetInv'
<1>0. PICK new : new = Len(navs) + 1
  OBVIOUS
<1>1. ~closed /\ inflight \subseteq 1..Len(navs)
        /\ \A n \in 1..Len(navs) : RequestsOf(n)
  BY DEF Start, NetInv
<1>2. /\ Len(navs') = new /\ Grows
      /\ \A n \in 1..Len(navs) : n \in 1..Len(navs') /\ navs'[n] = navs[n]
      /\ \A n \in 1..Len(navs') : n \in 1..Len(navs) \/ n = new
      /\ navs'[new].url = u /\ navs'[new].st = "started"
      /\ \A i \in 1..Len(wire') : i \in 1..Len(wire) \/
              (wire'[i].n = new /\ wire'[i].t \in {"started", "request"})
      /\ u # Blank => \E i \in 1..Len(wire') : wire'[i].t = "request"
           /\ wire'[i].n = new
      /\ u = Blank => \A i \in 1..Len(wire') : i \in 1..Len(wire)
           \/ wire'[i].t = "started"
  BY <1>0, StartIs
<1>3. Len(navs) \in Nat /\ \A i \in 1..Len(wire) : wire[i].t \in Events
        => wire[i].n \in 1..Len(navs)
  BY NavsAre
<1>4. ASSUME NEW n \in 1..Len(navs) PROVE RequestsOf(n)'
  <2>1. n # new
    BY <1>0, <1>3
  <2>2. Untouched(n, 0)
    BY <1>2, <2>1, GrownUntouched
  <2>3. QED
    BY <1>1, <2>2, UntouchedKeeps
<1>5. RequestsOf(new)'
  <2>1. new \notin 1..Len(navs)
    BY <1>0, <1>3
  <2>2. \A i \in 1..Len(wire) : wire'[i] = wire[i]
    BY <1>2 DEF Grows
  <2>3. \A i \in 1..Len(wire') : wire'[i].n = new => wire'[i].t # "done"
    BY <1>2, <1>3, <2>1, <2>2 DEF Events, Kinds
  <2>4. u = Blank => \A i \in 1..Len(wire') : wire'[i].n = new => wire'[i].t # "request"
    BY <1>2, <1>3, <2>1, <2>2 DEF Events, Kinds
  <2>5. new \notin inflight'
    BY <1>1, <2>1
  <2>6. \A i \in 1..Len(wire') : ~Is(i, "done", new)'
    BY <2>3 DEF Is
  <2>7. ~Sent("done", new)'
    BY <2>3 DEF Sent, Is
  <2>8. IF u = Blank THEN ~Sent("request", new)' ELSE Sent("request", new)'
    BY <1>2, <2>4 DEF Sent, Is
  <2>9. Pending(new)' <=> u # Blank
    BY <1>2 DEF Pending
  <2>10. QED
    BY <2>5, <2>6, <2>7, <2>8, <2>9 DEF RequestsOf
<1>6. \A n \in 1..Len(navs') : RequestsOf(n)'
  BY <1>2, <1>4, <1>5
<1>7. inflight' \subseteq 1..Len(navs')
  BY <1>0, <1>1, <1>2, <1>3
<1>8. QED
  BY <1>6, <1>7 DEF NetInv

LEMMA RequestStep ==
  ASSUME IInv, NetInv, OnRequestWillBeSent
  PROVE  NetInv'
<1>1. Take("request") /\ UNCHANGED navs /\ closed' = closed
        /\ inflight' = inflight \cup {N}
  BY DEF OnRequestWillBeSent, browserVars
<1>2. N \in 1..Len(navs) /\ N = wire[1].n /\ 1 \in 1..Len(wire) /\ wire[1].t = "request"
  BY <1>1, Taken, TakenIs DEF Kinds, Events, OnRequestWillBeSent
<1> SUFFICES ASSUME ~closed, inflight \subseteq 1..Len(navs),
                    \A n \in 1..Len(navs) : RequestsOf(n)
             PROVE  \A n \in 1..Len(navs) : RequestsOf(n)'
  BY <1>1, <1>2 DEF NetInv
<1>3. ASSUME NEW n \in 1..Len(navs), n # N PROVE RequestsOf(n)'
  <2>1. Untouched(n, 1)
    BY <1>1, <1>2, <1>3, TakenUntouched
  <2>2. QED
    BY <2>1, UntouchedKeeps
<1>4. ASSUME NEW n \in 1..Len(navs), n = N PROVE RequestsOf(n)'
  <2>1. Sent("request", n)
    BY <1>2, <1>4 DEF Sent, Is
  <2>2. Pending(n)' <=> Pending(n)
    BY <1>1 DEF Pending
  <2>3. /\ \A i \in 1..Len(wire') : i + 1 \in 1..Len(wire) /\ wire'[i] = wire[i + 1]
        /\ \A i \in 1..Len(wire) : i = 1
             \/ (i - 1 \in 1..Len(wire') /\ wire'[i - 1] = wire[i])
    BY <1>1, TakenIs
  <2>4. Sent("done", n) => Sent("done", n)'
    BY <1>2, <2>3 DEF Sent, Is
  <2>5. Sent("done", n)' => Sent("done", n)
    BY <2>3 DEF Sent, Is
  <2>6. n \in inflight'
    BY <1>1, <1>4
  <2>7. /\ Pending(n)' => ~Sent("done", n)'
        /\ ~Pending(n)' => Sent("done", n)'
    BY <2>1, <2>2, <2>4, <2>5 DEF RequestsOf
  <2>8. ASSUME NEW i \in 1..Len(wire'), NEW j \in 1..Len(wire'), Is(i, "done", n)'
        PROVE  /\ Is(j, "request", n)' => j < i
               /\ Is(j, "done", n)' => i = j
    <3>1. i + 1 \in 1..Len(wire) /\ j + 1 \in 1..Len(wire)
          /\ Is(i + 1, "done", n) /\ (Is(j, "request", n)' => Is(j + 1, "request", n))
          /\ (Is(j, "done", n)' => Is(j + 1, "done", n))
      BY <2>3, <2>8 DEF Is
    <3>2. /\ Is(j + 1, "request", n) => j + 1 < i + 1
          /\ Is(j + 1, "done", n) => i + 1 = j + 1
      BY <3>1 DEF RequestsOf
    <3>3. QED
      BY <3>1, <3>2
  <2>9. QED
    BY <2>6, <2>7, <2>8 DEF RequestsOf
<1>5. QED
  BY <1>3, <1>4

LEMMA DoneStep ==
  ASSUME IInv, NetInv, OnRequestDone
  PROVE  NetInv'
<1>1. Take("done") /\ UNCHANGED navs /\ closed' = closed /\ inflight' = inflight \ {N}
  BY DEF OnRequestDone, browserVars
<1>2. N \in 1..Len(navs) /\ N = wire[1].n /\ 1 \in 1..Len(wire) /\ wire[1].t = "done"
  BY <1>1, Taken, TakenIs DEF Kinds, Events, OnRequestDone
<1> SUFFICES ASSUME ~closed, inflight \subseteq 1..Len(navs),
                    \A n \in 1..Len(navs) : RequestsOf(n)
             PROVE  \A n \in 1..Len(navs) : RequestsOf(n)'
  BY <1>1, <1>2 DEF NetInv
<1>3. ASSUME NEW n \in 1..Len(navs), n # N PROVE RequestsOf(n)'
  <2>1. Untouched(n, 1)
    BY <1>1, <1>2, <1>3, TakenUntouched
  <2>2. QED
    BY <2>1, UntouchedKeeps
<1>4. ASSUME NEW n \in 1..Len(navs), n = N PROVE RequestsOf(n)'
  <2>1. Is(1, "done", n)
    BY <1>2, <1>4 DEF Is
  <2>2. \A j \in 1..Len(wire) : ~Is(j, "request", n) /\ (Is(j, "done", n) => j = 1)
    BY <1>2, <2>1 DEF RequestsOf
  <2>3. ~Pending(n)
    BY <1>2, <2>1 DEF RequestsOf, Sent
  <2>4. \A i \in 1..Len(wire') : i + 1 \in 1..Len(wire) /\ wire'[i] = wire[i + 1]
    BY <1>1, TakenIs
  <2>5. \A i \in 1..Len(wire') : i + 1 # 1
    BY <1>1, TakenIs
  <2>6. \A i \in 1..Len(wire') : ~Is(i, "request", n)' /\ ~Is(i, "done", n)'
    BY <2>2, <2>4, <2>5 DEF Is
  <2>7. n \notin inflight' /\ ~Pending(n)'
    BY <1>1, <1>4, <2>3 DEF Pending
  <2>8. QED
    BY <2>6, <2>7 DEF RequestsOf, Sent
<1>5. QED
  BY <1>3, <1>4

(* The browser answers the request of n, or drops it. *)
LEMMA AnswerStep ==
  ASSUME IInv, NetInv, NEW n \in 1..Len(navs), Pending(n), ~closed, Grows,
         NEW k \in 1..Len(wire'), k > Len(wire), Is(k, "done", n)',
         \A i \in 1..Len(wire') : i \in 1..Len(wire) \/ i = k
             \/ (wire'[i].t \notin {"request", "done"}),
         NEW st, st # "started", Moved(n, st), inflight' = inflight
  PROVE  NetInv'
<1>1. inflight \subseteq 1..Len(navs) /\ \A m \in 1..Len(navs) : RequestsOf(m)
  BY DEF NetInv
<1>2. Len(navs') = Len(navs) /\ navs'[n].st # "started"
  BY DEF Moved
<1>3. ASSUME NEW m \in 1..Len(navs), m # n PROVE RequestsOf(m)'
  <2>1. navs'[m] = navs[m]
    BY <1>3 DEF Moved
  <2>2. wire'[k].n # m
    BY <1>3 DEF Is
  <2>3. Untouched(m, 0)
    BY <2>1, <2>2, GrownUntouched
  <2>4. QED
    BY <1>1, <2>3, UntouchedKeeps
<1>4. RequestsOf(n)'
  <2>1. \A i \in 1..Len(wire) : ~Is(i, "done", n)
    BY <1>1 DEF RequestsOf, Sent
  <2>2. Len(wire) \in Nat /\ \A i \in 1..Len(wire) : wire'[i] = wire[i]
    BY DEF Grows
  <2>3. \A i \in 1..Len(wire') : /\ Is(i, "done", n)' => i = k
                                 /\ Is(i, "request", n)' => i < k
    BY <2>1, <2>2 DEF Is
  <2>4. Sent("done", n)' /\ ~Pending(n)'
    BY <1>2 DEF Sent, Is, Pending
  <2>5. QED
    BY <2>3, <2>4 DEF RequestsOf
<1>5. QED
  BY <1>1, <1>2, <1>3, <1>4 DEF NetInv

(* A report that is not about a request. *)
LEMMA SilentStep ==
  ASSUME IInv, NetInv, NEW n \in 1..Len(navs), Grows, ~Pending(n),
         \A i \in 1..Len(wire') : i \in 1..Len(wire)
                 \/ wire'[i].t \notin {"request", "done"},
         NEW st, st # "started", Moved(n, st), inflight' = inflight, closed' = closed
  PROVE  NetInv'
<1>1. Len(navs') = Len(navs) /\ navs'[n].st # "started" /\ navs'[n].url = navs[n].url
  BY DEF Moved
<1>2. \A m \in 1..Len(navs) : m # n => navs'[m] = navs[m]
  BY DEF Moved
<1> SUFFICES ASSUME ~closed, inflight \subseteq 1..Len(navs),
                    \A m \in 1..Len(navs) : RequestsOf(m)
             PROVE  \A m \in 1..Len(navs) : RequestsOf(m)'
  BY <1>1 DEF NetInv
<1>3. ASSUME NEW m \in 1..Len(navs), m # n PROVE RequestsOf(m)'
  <2>1. Untouched(m, 0)
    BY <1>2, <1>3, GrownUntouched
  <2>2. QED
    BY <2>1, UntouchedKeeps
<1>4. RequestsOf(n)'
  <2>1. \A i \in 1..Len(wire) : i \in 1..Len(wire') /\ wire'[i] = wire[i]
    BY DEF Grows
  <2>2. \A i \in 1..Len(wire'), t \in {"request", "done"} :
           Is(i, t, n)' => i \in 1..Len(wire) /\ Is(i, t, n)
    BY <2>1 DEF Is
  <2>3. \A t \in {"request", "done"} : Sent(t, n)' <=> Sent(t, n)
    BY <2>1, <2>2 DEF Sent, Is
  <2>4. ~Pending(n)'
    BY <1>1 DEF Pending
  <2>5. Sent("done", n)' \/ (n \notin inflight' /\ ~Sent("request", n)')
    BY <2>3 DEF RequestsOf
  <2>6. \A i, j \in 1..Len(wire') :
          /\ Is(i, "done", n)' /\ Is(j, "request", n)' => j < i
          /\ Is(i, "done", n)' /\ Is(j, "done", n)' => i = j
    BY <2>2 DEF RequestsOf
  <2>7. QED
    BY <2>4, <2>5, <2>6 DEF RequestsOf, Is
<1>5. QED
  BY <1>3, <1>4

LEMMA NetStep ==
  ASSUME IInv, NetInv, [Next]_vars
  PROVE  NetInv'
<1>1. CASE OnNavigationStarted
  <2>1. Take("started") /\ UNCHANGED navs /\ closed' = closed /\ inflight' = inflight
    BY <1>1 DEF OnNavigationStarted, browserVars, netVars
  <2>2. \A n \in 1..Len(navs) : Untouched(n, 1)
    BY <2>1, TakenUntouched
  <2>3. QED
    BY <2>1, <2>2, UntouchedAll
<1>2. CASE OnRequestWillBeSent
  BY <1>2, RequestStep
<1>3. CASE OnResponseReceived
  <2>1. Take("response") /\ UNCHANGED navs /\ closed' = closed /\ inflight' = inflight
    BY <1>3 DEF OnResponseReceived, browserVars, netVars
  <2>2. \A n \in 1..Len(navs) : Untouched(n, 1)
    BY <2>1, TakenUntouched
  <2>3. QED
    BY <2>1, <2>2, UntouchedAll
<1>4. CASE OnRequestDone
  BY <1>4, DoneStep
<1>5. CASE OnNavigationCommitted
  <2>1. Take("committed") /\ UNCHANGED navs /\ closed' = closed /\ inflight' = inflight
    BY <1>5 DEF OnNavigationCommitted, browserVars, netVars
  <2>2. \A n \in 1..Len(navs) : Untouched(n, 1)
    BY <2>1, TakenUntouched
  <2>3. QED
    BY <2>1, <2>2, UntouchedAll
<1>6. CASE OnDOMContentLoaded
  <2>1. Take("DOMContentLoaded") /\ UNCHANGED navs /\ closed' = closed
          /\ inflight' = inflight
    BY <1>6 DEF OnDOMContentLoaded, browserVars, netVars
  <2>2. \A n \in 1..Len(navs) : Untouched(n, 1)
    BY <2>1, TakenUntouched
  <2>3. QED
    BY <2>1, <2>2, UntouchedAll
<1>7. CASE OnLoad
  <2>1. Take("load") /\ UNCHANGED navs /\ closed' = closed /\ inflight' = inflight
    BY <1>7 DEF OnLoad, browserVars, netVars
  <2>2. \A n \in 1..Len(navs) : Untouched(n, 1)
    BY <2>1, TakenUntouched
  <2>3. QED
    BY <2>1, <2>2, UntouchedAll
<1>8. CASE OnNavigationAborted
  <2>1. Take("aborted") /\ UNCHANGED navs /\ closed' = closed /\ inflight' = inflight
    BY <1>8 DEF OnNavigationAborted, browserVars, netVars
  <2>2. \A n \in 1..Len(navs) : Untouched(n, 1)
    BY <2>1, TakenUntouched
  <2>3. QED
    BY <2>1, <2>2, UntouchedAll
<1>9. CASE OnReply
  <2>1. PICK t \in {"reply", "error"} : Take(t)
    BY <1>9 DEF OnReply
  <2>2. UNCHANGED navs /\ closed' = closed /\ inflight' = inflight
    BY <1>9 DEF OnReply, browserVars, netVars
  <2>3. \A n \in 1..Len(navs) : Untouched(n, 1)
    BY <2>1, <2>2, TakenUntouched
  <2>4. QED
    BY <2>2, <2>3, UntouchedAll
<1>10. ASSUME NEW f \in Frames, PageNavigates(f) PROVE NetInv'
  <2>1. PICK u \in Urls : Start(f, u, None)
    BY <1>10 DEF PageNavigates
  <2>2. closed' = closed /\ inflight' = inflight
    BY <1>10 DEF PageNavigates, ClientUnchanged, netVars
  <2>3. QED
    BY <2>1, <2>2, StartRequests
<1>11. ASSUME NEW g \in Gotos, Navigate(g) PROVE NetInv'
  <2>1. Start("main", target[g], g) /\ target[g] \in Urls /\ "main" \in Frames
    BY <1>11 DEF Navigate, IInv, TypeOK, Frames
  <2>2. closed' = closed /\ inflight' = inflight
    BY <1>11 DEF Navigate, ClientUnchanged, netVars
  <2>3. QED
    BY <2>1, <2>2, StartRequests
<1>12. ASSUME NEW g \in Gotos, NavigateNowhere(g) PROVE NetInv'
  <2>1. UNCHANGED <<navs, wire, closed, inflight>>
    BY <1>12 DEF NavigateNowhere, ClientUnchanged, netVars
  <2>2. QED
    BY <2>1 DEF NetInv, RequestsOf, Sent, Is, Pending
<1>13. CASE Reply
  <2>1. PICK m \in owed : Emit(<<m>>)
    BY <1>13 DEF Reply
  <2>2. m \in Message /\ m.t \in {"reply", "error"}
    BY <2>1 DEF IInv, TypeOK, WireInv
  <2>3. /\ Grows /\ wire'[Len(wire) + 1] = m
        /\ \A i \in 1..Len(wire') : i \in 1..Len(wire) \/ i = Len(wire) + 1
    BY <2>1, <2>2, OneSent
  <2>4. UNCHANGED navs /\ closed' = closed /\ inflight' = inflight
    BY <1>13 DEF Reply, ClientUnchanged, netVars
  <2>5. \A n \in 1..Len(navs) : Untouched(n, 0)
    BY <2>2, <2>3, <2>4, GrownUntouched
  <2>6. QED
    BY <2>4, <2>5, UntouchedAll
<1>14. CASE Close
  BY <1>14 DEF Close, NetInv
<1>15. ASSUME NEW n \in 1..Len(navs), Respond(n) PROVE NetInv'
  <2>1. Moved(n, "responded")
    BY <1>15, MovedIs DEF Respond
  <2>2. ~closed /\ Pending(n) /\ inflight' = inflight
    BY <1>15 DEF Respond, Pending, ClientUnchanged, netVars
  <2>3. /\ Grows /\ Len(wire') = Len(wire) + 2
        /\ wire'[Len(wire) + 1].t = "response" /\ wire'[Len(wire) + 2].t = "done"
        /\ wire'[Len(wire) + 2].n = n
        /\ \A i \in 1..Len(wire') :
              i \in 1..Len(wire) \/ i = Len(wire) + 1 \/ i = Len(wire) + 2
    BY <1>15, ReportIs DEF Respond, Kinds
  <2>4. PICK k : k = Len(wire) + 2
    OBVIOUS
  <2>5. k \in 1..Len(wire') /\ k > Len(wire) /\ Is(k, "done", n)'
    BY <2>3, <2>4 DEF Is, Grows
  <2>6. \A i \in 1..Len(wire') : i \in 1..Len(wire) \/ i = k
             \/ (wire'[i].t \notin {"request", "done"})
    BY <2>3, <2>4
  <2>7. QED
    BY <2>1, <2>2, <2>3, <2>5, <2>6, AnswerStep
<1>16. ASSUME NEW n \in 1..Len(navs), Abort(n) PROVE NetInv'
  <2>1. Moved(n, "aborted")
    BY <1>16, MovedIs DEF Abort
  <2>2. ~closed /\ closed' = closed /\ inflight' = inflight
    BY <1>16 DEF Abort, ClientUnchanged, netVars
  <2>3. CASE Pending(n)
    <3>1. /\ Grows /\ Len(wire') = Len(wire) + 2
          /\ wire'[Len(wire) + 1].t = "done" /\ wire'[Len(wire) + 2].t = "aborted"
          /\ wire'[Len(wire) + 1].n = n
          /\ \A i \in 1..Len(wire') :
                i \in 1..Len(wire) \/ i = Len(wire) + 1 \/ i = Len(wire) + 2
      BY <1>16, <2>3, ReportIs DEF Abort, Kinds, Pending
    <3>2. PICK k : k = Len(wire) + 1
      OBVIOUS
    <3>3. k \in 1..Len(wire') /\ k > Len(wire) /\ Is(k, "done", n)'
      BY <3>1, <3>2 DEF Is, Grows
    <3>4. \A i \in 1..Len(wire') : i \in 1..Len(wire) \/ i = k
               \/ (wire'[i].t \notin {"request", "done"})
      BY <3>1, <3>2
    <3>5. QED
      BY <2>1, <2>2, <2>3, <3>1, <3>3, <3>4, AnswerStep
  <2>4. CASE ~Pending(n)
    <3>1. /\ Grows /\ wire'[Len(wire) + 1].t = "aborted"
          /\ \A i \in 1..Len(wire') : i \in 1..Len(wire) \/ i = Len(wire) + 1
      BY <1>16, <2>4, ReportIs DEF Abort, Kinds, Pending
    <3>2. QED
      BY <2>1, <2>2, <2>4, <3>1, SilentStep
  <2>5. QED
    BY <2>3, <2>4
<1>17. ASSUME NEW n \in 1..Len(navs), Commit(n) PROVE NetInv'
  <2>1. Moved(n, "committed")
    BY <1>17, MovedIs DEF Commit
  <2>2. closed' = closed /\ inflight' = inflight /\ ~Pending(n)
    BY <1>17 DEF Commit, ClientUnchanged, netVars, Pending
  <2>3. /\ Grows /\ wire'[Len(wire) + 1].t = "committed"
        /\ \A i \in 1..Len(wire') : i \in 1..Len(wire) \/ i = Len(wire) + 1
    BY <1>17, ReportIs DEF Commit, Kinds
  <2>4. QED
    BY <2>1, <2>2, <2>3, SilentStep
<1>ready. ASSUME NEW n \in 1..Len(navs), Ready(n) PROVE NetInv'
  <2>1. Moved(n, "interactive")
    BY <1>ready, MovedIs DEF Ready
  <2>2. closed' = closed /\ inflight' = inflight /\ ~Pending(n)
    BY <1>ready DEF Ready, ClientUnchanged, netVars, Pending
  <2>3. /\ Grows /\ wire'[Len(wire) + 1].t = "DOMContentLoaded"
        /\ \A i \in 1..Len(wire') : i \in 1..Len(wire) \/ i = Len(wire) + 1
    BY <1>ready, ReportIs DEF Ready, Kinds
  <2>4. QED
    BY <2>1, <2>2, <2>3, SilentStep
<1>18. ASSUME NEW n \in 1..Len(navs), Load(n) PROVE NetInv'
  <2>1. Moved(n, "loaded")
    BY <1>18, MovedIs DEF Load
  <2>2. closed' = closed /\ inflight' = inflight /\ ~Pending(n)
    BY <1>18 DEF Load, ClientUnchanged, netVars, Pending
  <2>3. /\ Grows /\ wire'[Len(wire) + 1].t = "load"
        /\ \A i \in 1..Len(wire') : i \in 1..Len(wire) \/ i = Len(wire) + 1
    BY <1>18, ReportIs DEF Load, Kinds
  <2>4. QED
    BY <2>1, <2>2, <2>3, SilentStep
<1>19. ASSUME NEW g \in Gotos, BeginGoto(g) PROVE NetInv'
  BY <1>19 DEF BeginGoto, NetInv, RequestsOf, Sent, Is, Pending, browserVars, netVars,
     vars
<1>20. ASSUME NEW g \in Gotos, CallFails(g) PROVE NetInv'
  BY <1>20 DEF CallFails, NetInv, RequestsOf, Sent, Is, Pending, browserVars, netVars,
     vars
<1>21. ASSUME NEW g \in Gotos, CallReturns(g) PROVE NetInv'
  BY <1>21 DEF CallReturns, NetInv, RequestsOf, Sent, Is, Pending, browserVars, netVars,
     vars
<1>22. ASSUME NEW g \in Gotos, PinNavID(g) PROVE NetInv'
  BY <1>22 DEF PinNavID, NetInv, RequestsOf, Sent, Is, Pending, browserVars, netVars,
     vars
<1>23. ASSUME NEW g \in Gotos, GotoReturns(g) PROVE NetInv'
  BY <1>23 DEF GotoReturns, NetInv, RequestsOf, Sent, Is, Pending, browserVars, netVars,
     vars
<1>24. ASSUME NEW g \in Gotos, GotoTimesOut(g) PROVE NetInv'
  BY <1>24 DEF GotoTimesOut, NetInv, RequestsOf, Sent, Is, Pending, browserVars,
     netVars, vars
<1>25. ASSUME NEW g \in Gotos, GotoSeesClosed(g) PROVE NetInv'
  BY <1>25 DEF GotoSeesClosed, NetInv, RequestsOf, Sent, Is, Pending, browserVars,
     netVars, vars
<1>26. ASSUME NEW g \in Gotos, Expire(g) PROVE NetInv'
  BY <1>26 DEF Expire, NetInv, RequestsOf, Sent, Is, Pending, browserVars, netVars, vars
<1>27. ASSUME NEW h \in Histories, HistoryBegin(h) PROVE NetInv'
  BY <1>27 DEF HistoryBegin, NetInv, RequestsOf, Sent, Is, Pending, browserVars,
     netVars, vars
<1>28. ASSUME NEW h \in Histories, HistoryGo(h) PROVE NetInv'
  <2>1. UNCHANGED <<navs, wire, closed, inflight>>
    BY <1>28 DEF HistoryGo, netVars
  <2>2. QED
    BY <2>1 DEF NetInv, RequestsOf, Sent, Is, Pending
<1>29. ASSUME NEW h \in Histories, HistoryPoll(h) PROVE NetInv'
  BY <1>29 DEF HistoryPoll, NetInv, RequestsOf, Sent, Is, Pending, browserVars, netVars,
     vars
<1>30. ASSUME NEW h \in Histories, HistoryWrite(h) PROVE NetInv'
  BY <1>30 DEF HistoryWrite, NetInv, RequestsOf, Sent, Is, Pending, browserVars,
     netVars, vars
<1>31. ASSUME NEW h \in Histories, HistoryGivesUp(h) PROVE NetInv'
  BY <1>31 DEF HistoryGivesUp, NetInv, RequestsOf, Sent, Is, Pending, browserVars,
     netVars, vars
<1>32. CASE UNCHANGED vars
  BY <1>32 DEF vars, NetInv, RequestsOf, Sent, Is, Pending, browserVars, netVars, vars
<1>33. QED
  BY <1>1, <1>2, <1>3, <1>4, <1>5, <1>6, <1>7, <1>8, <1>9, <1>10, <1>11, <1>12, <1>13,
     <1>14, <1>15, <1>16, <1>17, <1>18, <1>ready,
     <1>19, <1>20, <1>21, <1>22, <1>23, <1>24, <1>25,
     <1>26, <1>27, <1>28, <1>29, <1>30, <1>31, <1>32
     DEF Next, Handlers, Browser, GotoStep, HistoryStep

-----------------------------------------------------------------------------
(* The commits and load events on their way to a frame.  The messages of a *)
(* kind about frame f, d places nearer to the head:                        *)
FrameAt(i, t, f) == wire[i].t = t /\ navs[wire[i].n].frame = f
Shift(t, f, d) ==
  /\ \A i \in 1..Len(wire') : FrameAt(i, t, f)' =>
       i + d \in 1..Len(wire) /\ wire'[i] = wire[i + d] /\ FrameAt(i + d, t, f)
  /\ \A i \in 1..Len(wire) : FrameAt(i, t, f) =>
       i - d \in 1..Len(wire') /\ wire'[i - d] = wire[i]
       /\ navs'[wire[i].n].frame = f

LEMMA ShiftIs ==
  ASSUME NEW t, NEW f, NEW d \in {0, 1}, Shift(t, f, d)
  PROVE  /\ \A i \in 1..Len(wire') : wire'[i].t = t /\ navs'[wire'[i].n].frame = f =>
              /\ i + d \in 1..Len(wire) /\ wire'[i] = wire[i + d]
              /\ wire[i + d].t = t /\ navs[wire[i + d].n].frame = f
         /\ \A i \in 1..Len(wire) : wire[i].t = t /\ navs[wire[i].n].frame = f =>
              /\ i - d \in 1..Len(wire') /\ wire'[i - d] = wire[i]
              /\ wire'[i - d].t = t /\ navs'[wire'[i - d].n].frame = f
BY DEF Shift, FrameAt

LEMMA ShiftedCommits ==
  ASSUME NEW f, NEW d \in {0, 1}, Shift("committed", f, d)
  PROVE  /\ NoCom(f)' <=> NoCom(f)
         /\ \A i \in 1..Len(wire') : Com(i, f)'
              => i + d \in 1..Len(wire) /\ Com(i + d, f)
         /\ \A i \in 1..Len(wire) : Com(i, f) =>
              i - d \in 1..Len(wire') /\ wire'[i - d].t = "committed"
              /\ navs'[wire'[i - d].n].frame = f
<1>1. /\ \A i \in 1..Len(wire') : Com(i, f)' => i + d \in 1..Len(wire) /\ Com(i + d, f)
      /\ \A i \in 1..Len(wire) : Com(i, f) =>
              i - d \in 1..Len(wire') /\ wire'[i - d].t = "committed"
              /\ navs'[wire'[i - d].n].frame = f
  BY ShiftIs DEF Com
<1>2. QED
  BY <1>1 DEF NoCom, Com

LEMMA ShowsKept ==
  ASSUME NEW f, NEW d \in {0, 1}, Shift("committed", f, d), Shows(f),
         current'[f] = current[f], frameUrl'[f] = frameUrl[f], f = "main" => url' = url,
         UrlOf(current[f])' = UrlOf(current[f])
  PROVE  Shows(f)'
<1>1. NoCom(f)' <=> NoCom(f)
  BY ShiftedCommits
<1>2. ASSUME NEW i \in 1..Len(wire'), Com(i, f)',
             \A j \in 1..Len(wire') : Com(j, f)' => j <= i
      PROVE  wire'[i].n = current[f]
  <2>1. i + d \in 1..Len(wire) /\ wire'[i] = wire[i + d] /\ Com(i + d, f)
    BY <1>2, ShiftIs DEF Com
  <2>2. ASSUME NEW j \in 1..Len(wire), Com(j, f) PROVE j <= i + d
    <3>1. PICK k : k = j - d
      OBVIOUS
    <3>2. k \in 1..Len(wire') /\ Com(k, f)'
      BY <2>2, <3>1, ShiftedCommits DEF Com
    <3>3. k <= i
      BY <1>2, <3>2
    <3>4. QED
      BY <3>1, <3>3
  <2>3. QED
    BY <2>1, <2>2 DEF Shows
<1>3. NoCom(f)' => /\ frameUrl'[f] = UrlOf(current[f])'
                   /\ f = "main" => url' = UrlOf(current[f])'
  BY <1>1 DEF Shows
<1>4. QED
  BY <1>2, <1>3 DEF Shows, Com, NoCom

LEMMA BehindKept ==
  ASSUME NEW t, NEW d \in {0, 1}, Shift("committed", "main", d), Shift(t, "main", d)
  PROVE  ComesBehind(t)' <=> ComesBehind(t)
<1>1. ASSUME NEW i \in 1..Len(wire'), Live(i, "main")', MainAt(i, t)'
      PROVE  ComesBehind(t)
  <2>1. i + d \in 1..Len(wire) /\ MainAt(i + d, t)
    BY <1>1, ShiftIs DEF MainAt
  <2>2. ASSUME NEW j \in 1..Len(wire), Com(j, "main") PROVE j < i + d
    <3>1. PICK k : k = j - d
      OBVIOUS
    <3>2. k \in 1..Len(wire') /\ Com(k, "main")'
      BY <2>2, <3>1, ShiftedCommits DEF Com
    <3>3. k < i
      BY <1>1, <3>2 DEF Live
    <3>4. QED
      BY <3>1, <3>3
  <2>3. QED
    BY <2>1, <2>2 DEF ComesBehind, Live
<1>2. ASSUME NEW i \in 1..Len(wire), Live(i, "main"), MainAt(i, t) PROVE ComesBehind(t)'
  <2>1. PICK k : k = i - d
    OBVIOUS
  <2>2. k \in 1..Len(wire') /\ MainAt(k, t)'
    BY <1>2, <2>1, ShiftIs DEF MainAt
  <2>3. ASSUME NEW j \in 1..Len(wire'), Com(j, "main")' PROVE j < k
    <3>1. j + d \in 1..Len(wire) /\ Com(j + d, "main")
      BY <2>3, ShiftedCommits
    <3>2. j + d < i
      BY <1>2, <3>1 DEF Live
    <3>3. QED
      BY <2>1, <3>2
  <2>4. Live(k, "main")'
    BY <2>3 DEF Live, Com
  <2>5. QED
    BY <2>2, <2>4 DEF ComesBehind
<1>3. QED
  BY <1>1, <1>2 DEF ComesBehind

LEMMA LoadsKept ==
  ASSUME NEW c, NEW t, NEW b, NEW d \in {0, 1}, LoadsFor(c, t, b),
         Shift("committed", "main", d), Shift(t, "main", d),
         navs'[c].st \in LoadedSt(t) <=> navs[c].st \in LoadedSt(t)
  PROVE  LoadsFor(c, t, b)'
<1>1. (NoCom("main")' <=> NoCom("main")) /\ (ComesBehind(t)' <=> ComesBehind(t))
  BY ShiftedCommits, BehindKept
<1>2. QED
  BY <1>1 DEF LoadsFor

(* A step that leaves the load events alone. *)
LEMMA FrameKept ==
  ASSUME NEW d \in {0, 1}, FrameInv, NoHistory' => NoHistory, closed' = closed,
         \A f \in Frames : current[f] # 0 =>
            /\ \A t \in {"committed", "load", "DOMContentLoaded"} : Shift(t, f, d)
            /\ navs'[current[f]].url = navs[current[f]].url
            /\ navs'[current[f]].st = navs[current[f]].st,
         current' = current, UNCHANGED flagVars
  PROVE  FrameInv'
<1> SUFFICES ASSUME ~closed, \A f \in Frames : current[f] # 0 => Shows(f),
                    current["main"] # 0 => LoadsOf(current["main"])
             PROVE  /\ \A f \in Frames : current[f] # 0 => Shows(f)'
                    /\ current["main"] # 0 => LoadsOf(current["main"])'
  BY DEF FrameInv
<1>1. ASSUME NEW f \in Frames, current[f] # 0 PROVE Shows(f)'
  <2>1. UrlOf(current[f])' = UrlOf(current[f])
    BY <1>1 DEF UrlOf
  <2>2. QED
    BY <1>1, <2>1, ShowsKept DEF flagVars
<1>2. ASSUME current["main"] # 0 PROVE LoadsOf(current["main"])'
  <2>1. PICK c : c = current["main"]
    OBVIOUS
  <2>2. PICK b : b = loadFired
    OBVIOUS
  <2>3. PICK e : e = domContentLoaded
    OBVIOUS
  <2>4. LoadsFor(c, "load", b) /\ LoadsFor(c, "DOMContentLoaded", e)
    BY <1>2, <2>1, <2>2, <2>3 DEF LoadsOf
  <2>5. LoadsFor(c, "load", b)' /\ LoadsFor(c, "DOMContentLoaded", e)'
    BY <1>2, <2>1, <2>4, LoadsKept DEF Frames
  <2>6. QED
    BY <2>1, <2>2, <2>3, <2>5 DEF LoadsOf, flagVars
<1>3. QED
  BY <1>1, <1>2

(* What shifts the pipe and keeps the frames of the navigations. *)
LEMMA TakenShift ==
  ASSUME IInv, NEW s, Take(s), NEW t, NEW f, s # t \/ navs[wire[1].n].frame # f,
         UNCHANGED navs
  PROVE  Shift(t, f, 1)
<1>1. /\ wire[1].t = s
      /\ \A i \in 1..Len(wire') : i + 1 \in 1..Len(wire) /\ wire'[i] = wire[i + 1]
      /\ \A i \in 1..Len(wire) :
              i = 1 \/ (i - 1 \in 1..Len(wire') /\ wire'[i - 1] = wire[i])
  BY TakenIs
<1>2. \A i \in 1..Len(wire') : FrameAt(i, t, f)' =>
       i + 1 \in 1..Len(wire) /\ wire'[i] = wire[i + 1] /\ FrameAt(i + 1, t, f)
  BY <1>1 DEF FrameAt
<1>3. \A i \in 1..Len(wire) : FrameAt(i, t, f) =>
       i - 1 \in 1..Len(wire') /\ wire'[i - 1] = wire[i]
       /\ navs'[wire[i].n].frame = f
  BY <1>1 DEF FrameAt
<1>4. QED
  BY <1>2, <1>3 DEF Shift

LEMMA GrownShift ==
  ASSUME IInv, Grows, NEW t \in Events, NEW f,
         \A n \in 1..Len(navs) : navs'[n].frame = navs[n].frame,
         \A i \in 1..Len(wire') : i \in 1..Len(wire) \/ wire'[i].t # t
                                  \/ navs'[wire'[i].n].frame # f
  PROVE  Shift(t, f, 0)
<1>1. \A i \in 1..Len(wire) : /\ i \in 1..Len(wire') /\ wire'[i] = wire[i]
                              /\ wire[i].t = t => wire[i].n \in 1..Len(navs)
                              /\ i + 0 = i /\ i - 0 = i
  BY NavsAre DEF Grows
<1>2. \A i \in 1..Len(wire') : FrameAt(i, t, f)' =>
       i + 0 \in 1..Len(wire) /\ wire'[i] = wire[i + 0] /\ FrameAt(i + 0, t, f)
  BY <1>1 DEF FrameAt
<1>3. \A i \in 1..Len(wire) : FrameAt(i, t, f) =>
       i - 0 \in 1..Len(wire') /\ wire'[i - 0] = wire[i]
       /\ navs'[wire[i].n].frame = f
  BY <1>1 DEF FrameAt
<1>4. QED
  BY <1>2, <1>3 DEF Shift

(* The page hears of a commit: what it shows is now what the browser did,  *)
(* and a load event still to come is that document's.                      *)
LEMMA CommitHandled ==
  ASSUME IInv, FrameInv, OnNavigationCommitted
  PROVE  FrameInv'
<1>1. /\ Take("committed") /\ UNCHANGED <<navs, current, closed, hpc>>
      /\ frameUrl' = [frameUrl EXCEPT ![navs[N].frame] = UrlOf(N)]
      /\ IF IsMain(N) THEN url' = UrlOf(N) /\ domContentLoaded' = FALSE
           /\ loadFired' = FALSE
                      ELSE UNCHANGED <<url, domContentLoaded, loadFired>>
  BY DEF OnNavigationCommitted, browserVars, histVars
<1>2. N \in 1..Len(navs) /\ N = wire[1].n /\ 1 \in 1..Len(wire)
        /\ wire[1].t = "committed"
  BY <1>1, Taken, TakenIs DEF Kinds, Events, OnNavigationCommitted
<1>3. /\ \A i \in 1..Len(wire') : i + 1 \in 1..Len(wire) /\ wire'[i] = wire[i + 1]
      /\ \A i \in 1..Len(wire) : i = 1 \/ (i - 1 \in 1..Len(wire')
           /\ wire'[i - 1] = wire[i])
  BY <1>1, TakenIs
<1>4. navs[N].frame \in Frames /\ frameUrl \in [Frames -> Urls \cup {None}]
  BY <1>2, NavsAre DEF Nav, IInv, TypeOK
<1>5. \A n : UrlOf(n)' = UrlOf(n)
  BY <1>1 DEF UrlOf
<1> SUFFICES ASSUME ~closed, \A f \in Frames : current[f] # 0 => Shows(f),
                    current["main"] # 0 => LoadsOf(current["main"])
             PROVE  /\ \A f \in Frames : current[f] # 0 => Shows(f)'
                    /\ current["main"] # 0 => LoadsOf(current["main"])'
  BY <1>1 DEF FrameInv, NoHistory
<1>6. ASSUME NEW f \in Frames, f # navs[N].frame, current[f] # 0 PROVE Shows(f)'
  <2>1. Shift("committed", f, 1)
    BY <1>1, <1>2, <1>6, TakenShift
  <2>2. frameUrl'[f] = frameUrl[f]
    BY <1>1, <1>4, <1>6
  <2>3. f = "main" => url' = url
    BY <1>1, <1>6 DEF IsMain
  <2>4. current'[f] = current[f] /\ UrlOf(current[f])' = UrlOf(current[f])
    BY <1>1 DEF UrlOf
  <2>5. QED
    BY <1>6, <2>1, <2>2, <2>3, <2>4, ShowsKept
<1>7. ASSUME NEW f \in Frames, f = navs[N].frame, current[f] # 0 PROVE Shows(f)'
  <2>1. Com(1, f)
    BY <1>2, <1>7 DEF Com
  <2>2. \A i \in 1..Len(wire') : Com(i, f)' <=> Com(i + 1, f)
    BY <1>1, <1>3 DEF Com
  <2>3. ASSUME NEW i \in 1..Len(wire'), Com(i, f)',
               \A j \in 1..Len(wire') : Com(j, f)' => j <= i
        PROVE  wire'[i].n = current[f]
    <3>1. i + 1 \in 1..Len(wire) /\ wire'[i] = wire[i + 1] /\ Com(i + 1, f)
      BY <1>3, <2>2, <2>3
    <3>2. ASSUME NEW j \in 1..Len(wire), Com(j, f) PROVE j <= i + 1
      <4>1. CASE j = 1
        BY <4>1
      <4>2. CASE j # 1
        <5>1. PICK k : k = j - 1
          OBVIOUS
        <5>2. k \in 1..Len(wire') /\ wire'[k] = wire[j]
          BY <1>3, <4>2, <5>1
        <5>3. Com(k, f)'
          BY <1>1, <3>2, <5>2 DEF Com
        <5>4. k <= i
          BY <2>3, <5>2, <5>3
        <5>5. QED
          BY <5>1, <5>4
      <4>3. QED
        BY <4>1, <4>2
    <3>3. QED
      BY <1>7, <3>1, <3>2 DEF Shows
  <2>4. ASSUME NoCom(f)' PROVE current[f] = N
    <3>1. ASSUME NEW j \in 1..Len(wire), Com(j, f) PROVE j <= 1
      <4>1. CASE j # 1
        <5>1. PICK k : k = j - 1
          OBVIOUS
        <5>2. k \in 1..Len(wire') /\ wire'[k] = wire[j]
          BY <1>3, <4>1, <5>1
        <5>3. Com(k, f)'
          BY <1>1, <3>1, <5>2 DEF Com
        <5>4. QED
          BY <2>4, <5>2, <5>3 DEF NoCom, Com
      <4>2. QED
        BY <4>1
    <3>2. QED
      BY <1>2, <1>7, <2>1, <3>1 DEF Shows
  <2>5. frameUrl'[f] = UrlOf(N) /\ (f = "main" => url' = UrlOf(N))
    BY <1>1, <1>4, <1>7 DEF IsMain
  <2>6. NoCom(f)' => /\ frameUrl'[f] = UrlOf(current[f])'
                     /\ f = "main" => url' = UrlOf(current[f])'
    BY <1>1, <2>4, <2>5 DEF UrlOf
  <2>7. QED
    BY <1>1, <2>3, <2>6 DEF Shows, NoCom, Com
<1>8. ASSUME current["main"] # 0 PROVE LoadsOf(current["main"])'
  <2>1. PICK c : c = current["main"]
    OBVIOUS
  <2>2. PICK b : b = loadFired
    OBVIOUS
  <2>3. PICK e : e = domContentLoaded
    OBVIOUS
  <2>4. LoadsFor(c, "load", b) /\ LoadsFor(c, "DOMContentLoaded", e)
    BY <1>8, <2>1, <2>2, <2>3 DEF LoadsOf
  <2>5. CASE ~IsMain(N)
    <3>1. \A t : Shift(t, "main", 1)
      BY <1>1, <1>2, <2>5, TakenShift DEF IsMain
    <3>2. LoadsFor(c, "load", b)' /\ LoadsFor(c, "DOMContentLoaded", e)'
      BY <1>1, <2>4, <3>1, LoadsKept
    <3>3. QED
      BY <1>1, <2>1, <2>2, <2>3, <2>5, <3>2 DEF LoadsOf
  <2>6. CASE IsMain(N)
    <3>1. Com(1, "main")
      BY <1>2, <2>6 DEF Com, IsMain
    <3>2. ASSUME NEW t \in {"load", "DOMContentLoaded"}
          PROVE  ComesBehind(t)' <=> ComesBehind(t)
      <4>1. ASSUME NEW i \in 1..Len(wire), Live(i, "main"), MainAt(i, t)
            PROVE  ComesBehind(t)'
        <5>1. 1 < i
          BY <1>2, <3>1, <4>1 DEF Live
        <5>2. PICK k : k = i - 1
          OBVIOUS
        <5>3. k \in 1..Len(wire') /\ wire'[k] = wire[i]
          BY <1>3, <5>1, <5>2
        <5>4. ASSUME NEW j \in 1..Len(wire'), Com(j, "main")' PROVE j < k
          <6>1. j + 1 \in 1..Len(wire) /\ Com(j + 1, "main")
            BY <1>1, <1>3, <5>4 DEF Com
          <6>2. j + 1 < i
            BY <4>1, <6>1 DEF Live
          <6>3. QED
            BY <5>2, <6>2
        <5>5. MainAt(k, t)' /\ Live(k, "main")'
          BY <1>1, <4>1, <5>3, <5>4 DEF MainAt, Live, Com
        <5>6. QED
          BY <5>3, <5>5 DEF ComesBehind
      <4>2. ASSUME NEW i \in 1..Len(wire'), Live(i, "main")', MainAt(i, t)'
            PROVE  ComesBehind(t)
        <5>1. i + 1 \in 1..Len(wire) /\ MainAt(i + 1, t)
          BY <1>1, <1>3, <4>2 DEF MainAt
        <5>2. ASSUME NEW j \in 1..Len(wire), Com(j, "main") PROVE j < i + 1
          <6>1. CASE j = 1
            BY <6>1
          <6>2. CASE j # 1
            <7>1. PICK k : k = j - 1
              OBVIOUS
            <7>2. k \in 1..Len(wire') /\ wire'[k] = wire[j]
              BY <1>3, <6>2, <7>1
            <7>3. Com(k, "main")'
              BY <1>1, <5>2, <7>2 DEF Com
            <7>4. k < i
              BY <4>2, <7>2, <7>3 DEF Live
            <7>5. QED
              BY <7>1, <7>4
          <6>3. QED
            BY <6>1, <6>2
        <5>3. QED
          BY <5>1, <5>2 DEF ComesBehind, Live
      <4>3. QED
        BY <4>1, <4>2 DEF ComesBehind
    <3>3. ~NoCom("main")
      BY <1>2, <3>1 DEF NoCom
    <3>4. /\ ComesBehind("load") <=> navs[c].st \in LoadedSt("load")
          /\ ComesBehind("DOMContentLoaded") <=> navs[c].st \in LoadedSt("DOMContentLoaded")
      BY <2>4, <3>3 DEF LoadsFor
    <3>5. ~loadFired' /\ ~domContentLoaded'
      BY <1>1, <2>6
    <3>6. LoadsFor(c, "load", FALSE)' /\ LoadsFor(c, "DOMContentLoaded", FALSE)'
      BY <1>1, <3>2, <3>4 DEF LoadsFor
    <3>7. QED
      BY <1>1, <2>1, <3>5, <3>6 DEF LoadsOf, LoadsFor
  <2>7. QED
    BY <2>5, <2>6
<1>9. QED
  BY <1>6, <1>7, <1>8

(* The page hears of a load event of its main frame.  One that belongs to  *)
(* an earlier document has a commit behind it, which takes it back.        *)
LEMMA LoadHandled ==
  ASSUME IInv, NEW t \in {"load", "DOMContentLoaded"}, Take(t), UNCHANGED navs,
         IsMain(N),
         NEW c, NEW b \in BOOLEAN, LoadsFor(c, t, b)
  PROVE  LoadsFor(c, t, TRUE)'
<1>1. N = wire[1].n /\ 1 \in 1..Len(wire) /\ wire[1].t = t
  BY TakenIs
<1>2. /\ \A i \in 1..Len(wire') : i + 1 \in 1..Len(wire) /\ wire'[i] = wire[i + 1]
      /\ \A i \in 1..Len(wire) : i = 1 \/ (i - 1 \in 1..Len(wire')
           /\ wire'[i - 1] = wire[i])
  BY TakenIs
<1>3. Shift("committed", "main", 1)
  BY TakenShift
<1>4. NoCom("main")' <=> NoCom("main")
  BY <1>3, ShiftedCommits
<1>5. MainAt(1, t)
  BY <1>1 DEF MainAt, IsMain
<1>6. Live(1, "main") => NoCom("main")
  BY DEF Live, NoCom
<1>7. ASSUME NEW i \in 1..Len(wire), i # 1, Live(i, "main"), MainAt(i, t)
      PROVE  ComesBehind(t)'
  <2>1. PICK k : k = i - 1
    OBVIOUS
  <2>2. k \in 1..Len(wire') /\ wire'[k] = wire[i]
    BY <1>2, <1>7, <2>1
  <2>3. ASSUME NEW j \in 1..Len(wire'), Com(j, "main")' PROVE j < k
    <3>1. j + 1 \in 1..Len(wire) /\ Com(j + 1, "main")
      BY <1>3, <2>3, ShiftedCommits
    <3>2. j + 1 < i
      BY <1>7, <3>1 DEF Live
    <3>3. QED
      BY <2>1, <3>2
  <2>4. MainAt(k, t)' /\ Live(k, "main")'
    BY <1>7, <2>2, <2>3 DEF MainAt, Live, Com
  <2>5. QED
    BY <2>2, <2>4 DEF ComesBehind
<1>8. ASSUME ComesBehind(t)' PROVE ComesBehind(t)
  <2>1. PICK i \in 1..Len(wire') : Live(i, "main")' /\ MainAt(i, t)'
    BY <1>8 DEF ComesBehind
  <2>2. i + 1 \in 1..Len(wire) /\ MainAt(i + 1, t)
    BY <1>2, <2>1 DEF MainAt
  <2>3. ASSUME NEW j \in 1..Len(wire), Com(j, "main") PROVE j < i + 1
    <3>1. PICK k : k = j - 1
      OBVIOUS
    <3>2. k \in 1..Len(wire') /\ Com(k, "main")'
      BY <1>3, <2>3, <3>1, ShiftedCommits DEF Com
    <3>3. k < i
      BY <2>1, <3>2 DEF Live
    <3>4. QED
      BY <3>1, <3>3
  <2>4. QED
    BY <2>2, <2>3 DEF ComesBehind, Live
<1>9. CASE navs[c].st \in LoadedSt(t)
  <2>1. NoCom("main") \/ ComesBehind(t)
    BY <1>9 DEF LoadsFor
  <2>2. NoCom("main")' \/ ComesBehind(t)'
    BY <1>4, <1>6, <1>7, <2>1 DEF ComesBehind
  <2>3. QED
    BY <1>9, <2>2 DEF LoadsFor
<1>10. CASE navs[c].st \notin LoadedSt(t)
  <2>1. ~ComesBehind(t)
    BY <1>10 DEF LoadsFor
  <2>2. ~NoCom("main")
    <3>1. ~Live(1, "main")
      BY <1>1, <1>5, <2>1 DEF ComesBehind
    <3>2. QED
      BY <3>1 DEF Live, NoCom
  <2>3. ~NoCom("main")' /\ ~ComesBehind(t)'
    BY <1>4, <1>8, <2>1, <2>2
  <2>4. QED
    BY <1>10, <2>3 DEF LoadsFor
<1>11. QED
  BY <1>9, <1>10

LEMMA DOMContentHandled ==
  ASSUME IInv, FrameInv, OnDOMContentLoaded
  PROVE  FrameInv'
<1>1. /\ Take("DOMContentLoaded") /\ UNCHANGED <<navs, current, closed, hpc, url,
        frameUrl, loadFired>>
      /\ domContentLoaded' = (domContentLoaded \/ IsMain(N))
           /\ domContentLoaded \in BOOLEAN
  BY DEF OnDOMContentLoaded, browserVars, histVars, IInv, TypeOK
<1>2. \A f : Shift("committed", f, 1) /\ Shift("load", f, 1)
  BY <1>1, TakenShift
<1>3. \A n : UrlOf(n)' = UrlOf(n)
  BY <1>1 DEF UrlOf
<1> SUFFICES ASSUME ~closed, \A f \in Frames : current[f] # 0 => Shows(f),
                    current["main"] # 0 => LoadsOf(current["main"])
             PROVE  /\ \A f \in Frames : current[f] # 0 => Shows(f)'
                    /\ current["main"] # 0 => LoadsOf(current["main"])'
  BY <1>1 DEF FrameInv, NoHistory
<1>4. ASSUME NEW f \in Frames, current[f] # 0 PROVE Shows(f)'
  <2>1. UrlOf(current[f])' = UrlOf(current[f])
    BY <1>1 DEF UrlOf
  <2>2. QED
    BY <1>1, <1>2, <1>4, <2>1, ShowsKept
<1>5. ASSUME current["main"] # 0 PROVE LoadsOf(current["main"])'
  <2>1. PICK c : c = current["main"]
    OBVIOUS
  <2>2. PICK b : b = domContentLoaded
    OBVIOUS
  <2>3. PICK e : e = loadFired
    OBVIOUS
  <2>4. LoadsFor(c, "DOMContentLoaded", b) /\ LoadsFor(c, "load", e) /\ b \in BOOLEAN
    BY <1>1, <1>5, <2>1, <2>2, <2>3 DEF LoadsOf
  <2>5. LoadsFor(c, "load", e)'
    BY <1>1, <1>2, <2>4, LoadsKept
  <2>6. CASE IsMain(N)
    <3>1. LoadsFor(c, "DOMContentLoaded", TRUE)'
      BY <1>1, <2>4, <2>6, LoadHandled
    <3>2. domContentLoaded' = TRUE
      BY <1>1, <2>6
    <3>3. QED
      BY <1>1, <2>1, <2>3, <2>5, <3>1, <3>2 DEF LoadsOf
  <2>7. CASE ~IsMain(N)
    <3>1. N = wire[1].n
      BY <1>1, TakenIs
    <3>2. Shift("DOMContentLoaded", "main", 1)
      BY <1>1, <2>7, <3>1, TakenShift DEF IsMain
    <3>3. LoadsFor(c, "DOMContentLoaded", b)'
      BY <1>1, <1>2, <2>4, <3>2, LoadsKept
    <3>4. domContentLoaded' = domContentLoaded
      BY <1>1, <2>7
    <3>5. QED
      BY <1>1, <2>1, <2>2, <2>3, <2>5, <3>3, <3>4 DEF LoadsOf
  <2>8. QED
    BY <2>6, <2>7
<1>6. QED
  BY <1>4, <1>5

LEMMA LoadHandledToo ==
  ASSUME IInv, FrameInv, OnLoad
  PROVE  FrameInv'
<1>1. /\ Take("load") /\ UNCHANGED <<navs, current, closed, hpc, url, frameUrl,
        domContentLoaded>>
      /\ loadFired' = (loadFired \/ IsMain(N)) /\ loadFired \in BOOLEAN
  BY DEF OnLoad, browserVars, histVars, IInv, TypeOK
<1>2. \A f : Shift("committed", f, 1) /\ Shift("DOMContentLoaded", f, 1)
  BY <1>1, TakenShift
<1>3. \A n : UrlOf(n)' = UrlOf(n)
  BY <1>1 DEF UrlOf
<1> SUFFICES ASSUME ~closed, \A f \in Frames : current[f] # 0 => Shows(f),
                    current["main"] # 0 => LoadsOf(current["main"])
             PROVE  /\ \A f \in Frames : current[f] # 0 => Shows(f)'
                    /\ current["main"] # 0 => LoadsOf(current["main"])'
  BY <1>1 DEF FrameInv, NoHistory
<1>4. ASSUME NEW f \in Frames, current[f] # 0 PROVE Shows(f)'
  <2>1. UrlOf(current[f])' = UrlOf(current[f])
    BY <1>1 DEF UrlOf
  <2>2. QED
    BY <1>1, <1>2, <1>4, <2>1, ShowsKept
<1>5. ASSUME current["main"] # 0 PROVE LoadsOf(current["main"])'
  <2>1. PICK c : c = current["main"]
    OBVIOUS
  <2>2. PICK b : b = loadFired
    OBVIOUS
  <2>3. PICK e : e = domContentLoaded
    OBVIOUS
  <2>4. LoadsFor(c, "load", b) /\ LoadsFor(c, "DOMContentLoaded", e) /\ b \in BOOLEAN
    BY <1>1, <1>5, <2>1, <2>2, <2>3 DEF LoadsOf
  <2>5. LoadsFor(c, "DOMContentLoaded", e)'
    BY <1>1, <1>2, <2>4, LoadsKept
  <2>6. CASE IsMain(N)
    <3>1. LoadsFor(c, "load", TRUE)'
      BY <1>1, <2>4, <2>6, LoadHandled
    <3>2. loadFired' = TRUE
      BY <1>1, <2>6
    <3>3. QED
      BY <1>1, <2>1, <2>3, <2>5, <3>1, <3>2 DEF LoadsOf
  <2>7. CASE ~IsMain(N)
    <3>1. N = wire[1].n
      BY <1>1, TakenIs
    <3>2. Shift("load", "main", 1)
      BY <1>1, <2>7, <3>1, TakenShift DEF IsMain
    <3>3. LoadsFor(c, "load", b)'
      BY <1>1, <1>2, <2>4, <3>2, LoadsKept
    <3>4. loadFired' = loadFired
      BY <1>1, <2>7
    <3>5. QED
      BY <1>1, <2>1, <2>2, <2>3, <2>5, <3>3, <3>4 DEF LoadsOf
  <2>8. QED
    BY <2>6, <2>7
<1>6. QED
  BY <1>4, <1>5

(* The browser shows another document: its commit is the last of its frame *)
(* in the pipe, and no load event is behind it.                            *)
LEMMA CommitSent ==
  ASSUME IInv, ShownInv, FrameInv, NEW n \in 1..Len(navs), Commit(n)
  PROVE  FrameInv'
<1>0. PICK f0 : f0 = navs[n].frame
  OBVIOUS
<1>1. Moved(n, "committed")
  BY MovedIs DEF Commit
<1>2. /\ navs[n].frame \in Frames /\ ~closed /\ closed' = closed
      /\ current \in [Frames -> 0..MaxNavs]
           /\ current' = [current EXCEPT ![navs[n].frame] = n]
      /\ UNCHANGED hpc /\ UNCHANGED flagVars
  BY NavsAre DEF Commit, IInv, TypeOK, Nav, ClientUnchanged, histVars
<1>3. /\ Grows /\ Len(wire') = Len(wire) + 1 /\ wire'[Len(wire) + 1].t = "committed"
      /\ wire'[Len(wire) + 1].n = n
      /\ \A i \in 1..Len(wire') : i \in 1..Len(wire) \/ i = Len(wire) + 1
  BY ReportIs DEF Commit, Kinds
<1>4. \A m \in 1..Len(navs) : navs'[m].frame = navs[m].frame
        /\ navs'[m].url = navs[m].url
  BY <1>1 DEF Moved
<1>5. \A f : f # navs[n].frame => Shift("committed", f, 0)
  BY <1>3, <1>4, GrownShift DEF Events, Kinds
<1>6. \A f : Shift("load", f, 0) /\ Shift("DOMContentLoaded", f, 0)
  BY <1>3, <1>4, GrownShift DEF Events, Kinds
<1> SUFFICES ASSUME \A f \in Frames : current[f] # 0 => Shows(f),
                    current["main"] # 0 => LoadsOf(current["main"])
             PROVE  /\ \A f \in Frames : current'[f] # 0 => Shows(f)'
                    /\ current'["main"] # 0 => LoadsOf(current["main"])'
  BY <1>2 DEF FrameInv, NoHistory
<1>7. PICK last : last = Len(wire) + 1
  OBVIOUS
<1>8. last \in 1..Len(wire') /\ Com(last, f0)'
      /\ \A i \in 1..Len(wire') : i <= last
  BY <1>3, <1>4, <1>7, <1>0 DEF Com, Grows
<1>9. ASSUME NEW f \in Frames, f # navs[n].frame, current[f] # 0 PROVE Shows(f)'
  <2>1. current'[f] = current[f] /\ current[f] \in 1..Len(navs)
    BY <1>2, <1>9, NavsAre
  <2>2. UrlOf(current[f])' = UrlOf(current[f])
    BY <1>4, <2>1 DEF UrlOf
  <2>3. QED
    BY <1>2, <1>5, <1>9, <2>1, <2>2, ShowsKept DEF flagVars
<1>10. ASSUME NEW f \in Frames, f = navs[n].frame PROVE Shows(f)'
  <2>1. current'[f] = n /\ ~NoCom(f)'
    BY <1>2, <1>0, <1>8, <1>10 DEF NoCom, Com
  <2>2. ASSUME NEW i \in 1..Len(wire'), Com(i, f)',
               \A j \in 1..Len(wire') : Com(j, f)' => j <= i
        PROVE  wire'[i].n = n
    <3>1. last <= i /\ i <= last
      BY <1>0, <1>8, <1>10, <2>2
    <3>2. i = last
      BY <1>8, <3>1
    <3>3. QED
      BY <1>3, <1>7, <3>2
  <2>3. QED
    BY <2>1, <2>2 DEF Shows, Com, NoCom
<1>11. ASSUME navs[n].frame = "main" PROVE LoadsOf(current["main"])'
  <2>1. current'["main"] = n
    BY <1>2, <1>11
  <2>2. ~NoCom("main")'
    BY <1>0, <1>8, <1>11 DEF NoCom, Com
  <2>3. ASSUME NEW t, ComesBehind(t)' PROVE t = "committed"
    <3>1. PICK i \in 1..Len(wire') : Live(i, "main")' /\ MainAt(i, t)'
      BY <2>3 DEF ComesBehind
    <3>2. last < i
      BY <1>0, <1>8, <1>11, <3>1 DEF Live, Com
    <3>3. QED
      BY <1>8, <3>2
  <2>4. \A t : navs'[n].st \notin LoadedSt(t)
    BY <1>1 DEF Moved, LoadedSt
  <2>5. LoadsFor(n, "load", loadFired)'
          /\ LoadsFor(n, "DOMContentLoaded", domContentLoaded)'
    BY <2>2, <2>3, <2>4 DEF LoadsFor
  <2>6. QED
    BY <2>1, <2>5 DEF LoadsOf
<1>12. ASSUME navs[n].frame # "main", current'["main"] # 0
       PROVE  LoadsOf(current["main"])'
  <2>1. PICK c : c = current["main"]
    OBVIOUS
  <2>2. PICK b : b = loadFired
    OBVIOUS
  <2>3. PICK e : e = domContentLoaded
    OBVIOUS
  <2>4. "main" \in Frames
    BY DEF Frames
  <2>5. current'["main"] = c /\ c # 0
    BY <1>2, <1>12, <2>1, <2>4
  <2>6. LoadsFor(c, "load", b) /\ LoadsFor(c, "DOMContentLoaded", e)
    BY <2>1, <2>2, <2>3, <2>5 DEF LoadsOf
  <2>7. c \in 1..Len(navs) /\ navs[c].frame = "main"
    BY <2>1, <2>4, <2>5, NavsAre DEF ShownInv
  <2>8. navs'[c] = navs[c]
    BY <1>1, <1>12, <2>7 DEF Moved
  <2>9. LoadsFor(c, "load", b)' /\ LoadsFor(c, "DOMContentLoaded", e)'
    BY <1>5, <1>6, <1>12, <2>6, <2>8, LoadsKept
  <2>10. QED
    BY <1>2, <2>2, <2>3, <2>5, <2>9 DEF LoadsOf, flagVars
<1>13. \A f \in Frames : current'[f] # 0 => Shows(f)'
  <2>1. \A f \in Frames : f # navs[n].frame => current'[f] = current[f]
    BY <1>2
  <2>2. QED
    BY <1>9, <1>10, <2>1
<1>14. QED
  BY <1>11, <1>12, <1>13

(* The document shown is ready, or loaded: the event that says so is the   *)
(* last in the pipe, and the other load event is where it was.             *)
LEMMA LoadSent ==
  ASSUME IInv, ShownInv, FrameInv, NEW n \in 1..Len(navs),
         NEW t \in {"load", "DOMContentLoaded"}, NEW st,
         Moved(n, st), Emit(<<Msg(t, n)>>),
         ~closed, current[navs[n].frame] = n, current' = current, closed' = closed,
         UNCHANGED hpc, UNCHANGED flagVars,
         st \in LoadedSt(t),
         \A s \in {"load", "DOMContentLoaded"} :
            s # t => (st \in LoadedSt(s) <=> navs[n].st \in LoadedSt(s))
  PROVE  FrameInv'
<1>1. /\ Grows /\ Len(wire') = Len(wire) + 1
      /\ wire'[Len(wire) + 1].t = t /\ wire'[Len(wire) + 1].n = n
      /\ \A i \in 1..Len(wire') : i \in 1..Len(wire) \/ i = Len(wire) + 1
  <2>1. t \in Kinds
    BY DEF Kinds, Events
  <2>2. QED
    BY <2>1, ReportIs
<1>2. \A m \in 1..Len(navs) : navs'[m].frame = navs[m].frame
        /\ navs'[m].url = navs[m].url
  BY DEF Moved
<1>3. \A f : \A s \in {"committed", "load", "DOMContentLoaded"} \ {t} : Shift(s, f, 0)
  BY <1>1, <1>2, GrownShift DEF Events, Kinds
<1>4. ASSUME NEW f, f # navs[n].frame PROVE Shift(t, f, 0)
  <2>1. navs'[n].frame # f
    BY <1>2, <1>4
  <2>2. \A i \in 1..Len(wire') : i \in 1..Len(wire) \/ navs'[wire'[i].n].frame # f
    BY <1>1, <2>1
  <2>3. Grows
    BY <1>1
  <2>4. QED
    BY <1>2, <2>2, <2>3, GrownShift DEF Events, Kinds
<1>5. \A f : Shift("committed", f, 0)
  BY <1>3
<1> SUFFICES ASSUME \A f \in Frames : current[f] # 0 => Shows(f),
                    current["main"] # 0 => LoadsOf(current["main"])
             PROVE  /\ \A f \in Frames : current[f] # 0 => Shows(f)'
                    /\ current["main"] # 0 => LoadsOf(current["main"])'
  BY DEF FrameInv, NoHistory
<1>6. ASSUME NEW f \in Frames, current[f] # 0 PROVE Shows(f)'
  <2>1. current[f] \in 1..Len(navs)
    BY <1>6, NavsAre
  <2>2. UrlOf(current[f])' = UrlOf(current[f])
    BY <1>2, <2>1 DEF UrlOf
  <2>3. QED
    BY <1>5, <1>6, <2>2, ShowsKept DEF flagVars
<1>7. ASSUME current["main"] # 0 PROVE LoadsOf(current["main"])'
  <2>1. PICK c : c = current["main"]
    OBVIOUS
  <2>2. PICK b : b = loadFired
    OBVIOUS
  <2>3. PICK e : e = domContentLoaded
    OBVIOUS
  <2>4. LoadsFor(c, "load", b) /\ LoadsFor(c, "DOMContentLoaded", e)
    BY <1>7, <2>1, <2>2, <2>3 DEF LoadsOf
  <2>5. c \in 1..Len(navs) /\ navs[c].frame = "main"
    BY <1>7, <2>1, NavsAre DEF ShownInv, Frames
  <2>6. CASE navs[n].frame # "main"
    <3>1. navs'[c] = navs[c]
      BY <2>5, <2>6 DEF Moved
    <3>2. Shift("load", "main", 0) /\ Shift("DOMContentLoaded", "main", 0)
      BY <1>3, <1>4, <2>6
    <3>3. LoadsFor(c, "load", b)' /\ LoadsFor(c, "DOMContentLoaded", e)'
      BY <1>5, <2>4, <3>1, <3>2, LoadsKept
    <3>4. QED
      BY <2>1, <2>2, <2>3, <3>3 DEF LoadsOf, flagVars
  <2>7. CASE navs[n].frame = "main"
    <3>1. c = n /\ navs'[c].st = st /\ navs'[c].frame = "main"
      BY <1>2, <2>1, <2>5, <2>7 DEF Moved
    <3>2. ASSUME NEW i \in 1..Len(wire'), Com(i, "main")' PROVE i <= Len(wire)
      <4>1. i + 0 \in 1..Len(wire)
        BY <1>5, <3>2, ShiftedCommits
      <4>2. QED
        BY <4>1
    <3>3. PICK k : k = Len(wire) + 1
      OBVIOUS
    <3>4. k \in 1..Len(wire') /\ Live(k, "main")'
      BY <1>1, <3>2, <3>3 DEF Live, Com, Grows
    <3>5. MainAt(k, t)'
      BY <1>1, <3>1, <3>3 DEF MainAt
    <3>6. ComesBehind(t)'
      BY <3>4, <3>5 DEF ComesBehind
    <3>7. \A fired : LoadsFor(c, t, fired)'
      BY <3>1, <3>6 DEF LoadsFor
    <3>8. ASSUME NEW s \in {"load", "DOMContentLoaded"}, NEW fired, s # t,
                 LoadsFor(c, s, fired)
          PROVE  LoadsFor(c, s, fired)'
      <4>1. Shift(s, "main", 0)
        BY <1>3, <3>8
      <4>2. navs'[c].st \in LoadedSt(s) <=> navs[c].st \in LoadedSt(s)
        BY <3>1, <3>8
      <4>3. QED
        BY <1>5, <3>8, <4>1, <4>2, LoadsKept
    <3>9. LoadsFor(c, "load", b)' /\ LoadsFor(c, "DOMContentLoaded", e)'
      BY <2>4, <3>7, <3>8
    <3>10. QED
      BY <2>1, <2>2, <2>3, <3>9 DEF LoadsOf, flagVars
  <2>8. QED
    BY <2>6, <2>7
<1>8. QED
  BY <1>6, <1>7

LEMMA ReadySends ==
  ASSUME IInv, ShownInv, FrameInv, NEW n \in 1..Len(navs), Ready(n)
  PROVE  FrameInv'
<1>1. Moved(n, "interactive") /\ navs[n].st = "committed"
  BY MovedIs DEF Ready
<1>2. QED
  BY <1>1, LoadSent DEF Ready, LoadedSt, ClientUnchanged, histVars

LEMMA LoadSends ==
  ASSUME IInv, ShownInv, FrameInv, NEW n \in 1..Len(navs), Load(n)
  PROVE  FrameInv'
<1>1. Moved(n, "loaded") /\ navs[n].st = "interactive"
  BY MovedIs DEF Load
<1>2. QED
  BY <1>1, LoadSent DEF Load, LoadedSt, ClientUnchanged, histVars

LEMMA FrameSame ==
  ASSUME FrameInv, NoHistory' => NoHistory, UNCHANGED <<wire, navs, current, closed>>,
         UNCHANGED flagVars
  PROVE  FrameInv'
BY DEF FrameInv, Shows, LoadsOf, LoadsFor, NoCom, Com, ComesBehind, Live, MainAt, UrlOf,
       flagVars

(* A navigation that begins has committed nothing yet. *)
LEMMA StartFrames ==
  ASSUME IInv, FrameInv, NEW f \in Frames, NEW g \in Gotos \cup {None},
         \E u \in Urls : Start(f, u, g), current' = current, closed' = closed,
         UNCHANGED hpc, UNCHANGED flagVars
  PROVE  FrameInv'
<1>1. PICK u \in Urls : Start(f, u, g)
  OBVIOUS
<1>2. /\ Grows /\ \A n \in 1..Len(navs) : navs'[n] = navs[n]
      /\ \A i \in 1..Len(wire') : i \in 1..Len(wire)
           \/ wire'[i].t \in {"started", "request"}
  BY <1>1, StartIs
<1>3. \A s \in {"committed", "load", "DOMContentLoaded"} : \A e : Shift(s, e, 0)
  BY <1>2, GrownShift DEF Events, Kinds
<1>4. \A e \in Frames : current[e] # 0 => navs'[current[e]] = navs[current[e]]
  BY <1>2, NavsAre
<1>5. QED
  BY <1>3, <1>4, FrameKept DEF NoHistory

LEMMA FrameStep ==
  ASSUME IInv, ShownInv, FrameInv, [Next]_vars
  PROVE  FrameInv'
<1>1. CASE OnNavigationStarted
  <2>1. /\ Take("started") /\ UNCHANGED <<navs, current, hpc>>
        /\ closed' = closed /\ UNCHANGED flagVars
    BY <1>1 DEF OnNavigationStarted, browserVars, flagVars, histVars, waiterVars
  <2>2. \A s \in {"committed", "load", "DOMContentLoaded"} : \A f : Shift(s, f, 1)
    BY <2>1, TakenShift
  <2>3. QED
    BY <2>1, <2>2, FrameKept DEF NoHistory
<1>2. CASE OnRequestWillBeSent
  <2>1. /\ Take("request") /\ UNCHANGED <<navs, current, hpc>>
        /\ closed' = closed /\ UNCHANGED flagVars
    BY <1>2 DEF OnRequestWillBeSent, browserVars, flagVars, histVars, waiterVars
  <2>2. \A s \in {"committed", "load", "DOMContentLoaded"} : \A f : Shift(s, f, 1)
    BY <2>1, TakenShift
  <2>3. QED
    BY <2>1, <2>2, FrameKept DEF NoHistory
<1>3. CASE OnResponseReceived
  <2>1. /\ Take("response") /\ UNCHANGED <<navs, current, hpc>>
        /\ closed' = closed /\ UNCHANGED flagVars
    BY <1>3 DEF OnResponseReceived, browserVars, flagVars, histVars, waiterVars
  <2>2. \A s \in {"committed", "load", "DOMContentLoaded"} : \A f : Shift(s, f, 1)
    BY <2>1, TakenShift
  <2>3. QED
    BY <2>1, <2>2, FrameKept DEF NoHistory
<1>4. CASE OnRequestDone
  <2>1. /\ Take("done") /\ UNCHANGED <<navs, current, hpc>>
        /\ closed' = closed /\ UNCHANGED flagVars
    BY <1>4 DEF OnRequestDone, browserVars, flagVars, histVars, waiterVars
  <2>2. \A s \in {"committed", "load", "DOMContentLoaded"} : \A f : Shift(s, f, 1)
    BY <2>1, TakenShift
  <2>3. QED
    BY <2>1, <2>2, FrameKept DEF NoHistory
<1>5. CASE OnNavigationCommitted
  BY <1>5, CommitHandled
<1>6. CASE OnDOMContentLoaded
  BY <1>6, DOMContentHandled
<1>7. CASE OnLoad
  BY <1>7, LoadHandledToo
<1>8. CASE OnNavigationAborted
  <2>1. /\ Take("aborted") /\ UNCHANGED <<navs, current, hpc>>
        /\ closed' = closed /\ UNCHANGED flagVars
    BY <1>8 DEF OnNavigationAborted, browserVars, flagVars, histVars, waiterVars
  <2>2. \A s \in {"committed", "load", "DOMContentLoaded"} : \A f : Shift(s, f, 1)
    BY <2>1, TakenShift
  <2>3. QED
    BY <2>1, <2>2, FrameKept DEF NoHistory
<1>9. CASE OnReply
  <2>1. /\ (Take("reply") \/ Take("error")) /\ UNCHANGED <<navs, current, hpc>>
        /\ closed' = closed /\ UNCHANGED flagVars
    BY <1>9 DEF OnReply, browserVars, flagVars, histVars, waiterVars
  <2>2. \A s \in {"committed", "load", "DOMContentLoaded"} : \A f : Shift(s, f, 1)
    BY <2>1, TakenShift
  <2>3. QED
    BY <2>1, <2>2, FrameKept DEF NoHistory
<1>10. ASSUME NEW f \in Frames, PageNavigates(f) PROVE FrameInv'
  <2>1. \E u \in Urls : Start(f, u, None)
    BY <1>10 DEF PageNavigates
  <2>2. current' = current /\ closed' = closed /\ UNCHANGED hpc /\ UNCHANGED flagVars
    BY <1>10 DEF PageNavigates, ClientUnchanged, histVars
  <2>3. QED
    BY <2>1, <2>2, StartFrames
<1>11. ASSUME NEW g \in Gotos, Navigate(g) PROVE FrameInv'
  <2>1. "main" \in Frames /\ target[g] \in Urls /\ \E u \in Urls : Start("main", u, g)
    BY <1>11 DEF Navigate, IInv, TypeOK, Frames
  <2>2. current' = current /\ closed' = closed /\ UNCHANGED hpc /\ UNCHANGED flagVars
    BY <1>11 DEF Navigate, ClientUnchanged, histVars
  <2>3. QED
    BY <2>1, <2>2, StartFrames
<1>12. ASSUME NEW g \in Gotos, NavigateNowhere(g) PROVE FrameInv'
  BY <1>12, FrameSame DEF NavigateNowhere, ClientUnchanged, histVars, NoHistory
<1>13. CASE Reply
  <2>1. PICK m \in owed : Emit(<<m>>)
    BY <1>13 DEF Reply
  <2>2. m \in Message /\ m.t \in {"reply", "error"}
    BY <2>1 DEF IInv, TypeOK, WireInv
  <2>3. /\ Grows /\ wire'[Len(wire) + 1] = m
        /\ \A i \in 1..Len(wire') : i \in 1..Len(wire) \/ i = Len(wire) + 1
    BY <2>1, <2>2, OneSent
  <2>4. /\ UNCHANGED <<navs, current, hpc>> /\ closed' = closed /\ UNCHANGED flagVars
    BY <1>13 DEF Reply, ClientUnchanged, histVars
  <2>5. \A s \in {"committed", "load", "DOMContentLoaded"} : \A f : Shift(s, f, 0)
    BY <2>2, <2>3, <2>4, GrownShift DEF Events, Kinds
  <2>6. QED
    BY <2>4, <2>5, FrameKept DEF NoHistory
<1>14. CASE Close
  BY <1>14 DEF Close, FrameInv
<1>15. ASSUME NEW n \in 1..Len(navs), Respond(n) PROVE FrameInv'
  <2>1. Moved(n, "responded")
    BY <1>15, MovedIs DEF Respond
  <2>2. /\ current' = current /\ closed' = closed /\ UNCHANGED hpc /\ UNCHANGED flagVars
        /\ navs[n].st \in {"started", "responded"}
    BY <1>15 DEF Respond, ClientUnchanged, histVars
  <2>3. /\ Grows
        /\ \A i \in 1..Len(wire') : i \in 1..Len(wire)
               \/ wire'[i].t \in {"response", "done", "aborted"}
    <3>1. Emit(<<Msg("response", n), Msg("done", n)>>)
      BY <1>15 DEF Respond
    <3>2. QED
      BY <3>1, ReportIs DEF Kinds
  <2>4. \A s \in {"committed", "load", "DOMContentLoaded"} : \A f : Shift(s, f, 0)
    BY <2>1, <2>3, GrownShift DEF Events, Kinds, Moved
  <2>5. \A f \in Frames : current[f] # 0
          => current[f] # n /\ current[f] \in 1..Len(navs)
    BY <2>2, NavsAre DEF ShownInv, Shown
  <2>6. QED
    BY <2>1, <2>2, <2>4, <2>5, FrameKept DEF NoHistory, Moved
<1>16. ASSUME NEW n \in 1..Len(navs), Abort(n) PROVE FrameInv'
  <2>1. Moved(n, "aborted")
    BY <1>16, MovedIs DEF Abort
  <2>2. /\ current' = current /\ closed' = closed /\ UNCHANGED hpc /\ UNCHANGED flagVars
        /\ navs[n].st \in {"started", "responded"}
    BY <1>16 DEF Abort, ClientUnchanged, histVars
  <2>3. /\ Grows
        /\ \A i \in 1..Len(wire') : i \in 1..Len(wire)
               \/ wire'[i].t \in {"response", "done", "aborted"}
    <3>1. Emit(<<Msg("done", n), Msg("aborted", n)>>) \/ Emit(<<Msg("aborted", n)>>)
      BY <1>16 DEF Abort
    <3>2. "done" \in Kinds /\ "aborted" \in Kinds
      BY DEF Kinds
    <3>3. QED
      BY <3>1, <3>2, ReportIs
  <2>4. \A s \in {"committed", "load", "DOMContentLoaded"} : \A f : Shift(s, f, 0)
    BY <2>1, <2>3, GrownShift DEF Events, Kinds, Moved
  <2>5. \A f \in Frames : current[f] # 0
          => current[f] # n /\ current[f] \in 1..Len(navs)
    BY <2>2, NavsAre DEF ShownInv, Shown
  <2>6. QED
    BY <2>1, <2>2, <2>4, <2>5, FrameKept DEF NoHistory, Moved
<1>17. ASSUME NEW n \in 1..Len(navs), Commit(n) PROVE FrameInv'
  BY <1>17, CommitSent
<1>ready. ASSUME NEW n \in 1..Len(navs), Ready(n) PROVE FrameInv'
  BY <1>ready, ReadySends
<1>18. ASSUME NEW n \in 1..Len(navs), Load(n) PROVE FrameInv'
  BY <1>18, LoadSends
<1>19. ASSUME NEW g \in Gotos, BeginGoto(g) PROVE FrameInv'
  BY <1>19, FrameSame DEF BeginGoto, NoHistory, browserVars, flagVars, histVars, vars
<1>20. ASSUME NEW g \in Gotos, CallFails(g) PROVE FrameInv'
  BY <1>20, FrameSame DEF CallFails, NoHistory, browserVars, flagVars, histVars, vars
<1>21. ASSUME NEW g \in Gotos, CallReturns(g) PROVE FrameInv'
  BY <1>21, FrameSame DEF CallReturns, NoHistory, browserVars, flagVars, histVars, vars
<1>22. ASSUME NEW g \in Gotos, PinNavID(g) PROVE FrameInv'
  BY <1>22, FrameSame DEF PinNavID, NoHistory, browserVars, flagVars, histVars, vars
<1>23. ASSUME NEW g \in Gotos, GotoReturns(g) PROVE FrameInv'
  BY <1>23, FrameSame DEF GotoReturns, NoHistory, browserVars, flagVars, histVars, vars
<1>24. ASSUME NEW g \in Gotos, GotoTimesOut(g) PROVE FrameInv'
  BY <1>24, FrameSame DEF GotoTimesOut, NoHistory, browserVars, flagVars, histVars, vars
<1>25. ASSUME NEW g \in Gotos, GotoSeesClosed(g) PROVE FrameInv'
  BY <1>25, FrameSame DEF GotoSeesClosed, NoHistory, browserVars, flagVars, histVars,
     vars
<1>26. ASSUME NEW g \in Gotos, Expire(g) PROVE FrameInv'
  BY <1>26, FrameSame DEF Expire, NoHistory, browserVars, flagVars, histVars, vars
<1>27. ASSUME NEW h \in Histories, HistoryBegin(h) PROVE FrameInv'
  <2>1. hpc[h] = "idle" /\ hpc' = [hpc EXCEPT ![h] = "go"]
          /\ hpc \in [Histories -> {"idle", "go", "poll", "write", "moved", "gaveUp"}]
    BY <1>27 DEF HistoryBegin, IInv, TypeOK
  <2>2. NoHistory' => NoHistory
    BY <2>1 DEF NoHistory
  <2>3. QED
    BY <1>27, <2>2, FrameSame DEF HistoryBegin, browserVars
<1>28. ASSUME NEW h \in Histories, HistoryGo(h) PROVE FrameInv'
  <2>1. hpc' = [hpc EXCEPT ![h] = "poll"]
          /\ hpc \in [Histories -> {"idle", "go", "poll", "write", "moved", "gaveUp"}]
    BY <1>28 DEF HistoryGo, IInv, TypeOK
  <2>2. ~NoHistory'
    BY <1>28, <2>1 DEF NoHistory
  <2>3. QED
    BY <2>2 DEF FrameInv
<1>29. ASSUME NEW h \in Histories, HistoryPoll(h) PROVE FrameInv'
  <2>1. hpc' = [hpc EXCEPT ![h] = "write"]
          /\ hpc \in [Histories -> {"idle", "go", "poll", "write", "moved", "gaveUp"}]
    BY <1>29 DEF HistoryPoll, IInv, TypeOK
  <2>2. ~NoHistory'
    BY <1>29, <2>1 DEF NoHistory
  <2>3. QED
    BY <2>2 DEF FrameInv
<1>30. ASSUME NEW h \in Histories, HistoryWrite(h) PROVE FrameInv'
  <2>1. hpc' = [hpc EXCEPT ![h] = "moved"]
          /\ hpc \in [Histories -> {"idle", "go", "poll", "write", "moved", "gaveUp"}]
    BY <1>30 DEF HistoryWrite, IInv, TypeOK
  <2>2. ~NoHistory'
    BY <1>30, <2>1 DEF NoHistory
  <2>3. QED
    BY <2>2 DEF FrameInv
<1>31. ASSUME NEW h \in Histories, HistoryGivesUp(h) PROVE FrameInv'
  <2>1. hpc' = [hpc EXCEPT ![h] = "gaveUp"]
          /\ hpc \in [Histories -> {"idle", "go", "poll", "write", "moved", "gaveUp"}]
    BY <1>31 DEF HistoryGivesUp, IInv, TypeOK
  <2>2. ~NoHistory'
    BY <1>31, <2>1 DEF NoHistory
  <2>3. QED
    BY <2>2 DEF FrameInv
<1>32. CASE UNCHANGED vars
  BY <1>32, FrameSame DEF vars, NoHistory, browserVars, flagVars, histVars, vars
<1>33. QED
  BY <1>1, <1>2, <1>3, <1>4, <1>5, <1>6, <1>7, <1>8, <1>9, <1>10, <1>11, <1>12, <1>13,
     <1>14, <1>15, <1>16, <1>17, <1>18, <1>ready,
     <1>19, <1>20, <1>21, <1>22, <1>23, <1>24, <1>25,
     <1>26, <1>27, <1>28, <1>29, <1>30, <1>31, <1>32
     DEF Next, Handlers, Browser, GotoStep, HistoryStep

-----------------------------------------------------------------------------
(* Whose a navigation is.  A step that requests nothing twice and reports   *)
(* ids only to whom they belong:                                           *)
LEMMA OwnKept ==
  ASSUME IInv, OwnInv, UNCHANGED target,
         \A n \in 1..Len(navs) : /\ n \in 1..Len(navs') /\ navs'[n].by = navs[n].by
                                 /\ navs'[n].frame = navs[n].frame
                                 /\ navs'[n].url = navs[n].url,
         \A n \in 1..Len(navs') : n \in 1..Len(navs) \/ navs'[n].by \notin Gotos,
         \A g \in Gotos : pc[g] # "idle" => pc'[g] # "idle",
         \A g \in Gotos : g \in requests'
                 => g \in requests \/ (pc[g] = "idle" /\ pc'[g] # "idle"),
         \A m \in owed' : m \in owed \/ m.t # "reply" \/ m.n = 0,
         \A i \in 1..Len(wire') : \/ \E j \in 1..Len(wire) : wire'[i] = wire[j]
                                  \/ wire'[i] \in owed \/ wire'[i].t # "reply",
         \A g \in Gotos : \/ reply'[g] = reply[g] \/ reply'[g] \notin 1..MaxNavs
                          \/ \E j \in 1..Len(wire) :
                                  wire[j] = [t |-> "reply", n |-> reply'[g], g |-> g],
         \A g \in Gotos : navID'[g] = navID[g] \/ navID'[g] = 0
                          \/ (navID'[g] = reply[g] /\ reply[g] \in 1..MaxNavs)
  PROVE  OwnInv'
<1>1. \A n, g : Own(n, g) => n \in 1..Len(navs') /\ navs'[n].by = g
  BY DEF Own
<1>2. \A m : Answers(m) => m.t # "reply" \/ m.n = 0
        \/ (m.n \in 1..Len(navs') /\ navs'[m.n].by = m.g)
  BY <1>1 DEF Answers
<1>3. \A g \in Gotos : g \in requests' => pc'[g] # "idle"
  BY DEF OwnInv
<1>4. ASSUME NEW g \in Gotos, NEW n \in 1..Len(navs'), navs'[n].by = g
      PROVE  /\ navs'[n].frame = "main" /\ navs'[n].url = target[g]
             /\ g \notin requests' /\ pc'[g] # "idle"
             /\ \A m \in 1..Len(navs') : navs'[m].by = g => m = n
  <2>1. n \in 1..Len(navs) /\ navs[n].by = g
    BY <1>4
  <2>2. /\ navs[n].frame = "main" /\ navs[n].url = target[g]
        /\ g \notin requests /\ pc[g] # "idle"
        /\ \A m \in 1..Len(navs) : navs[m].by = g => m = n
    BY <2>1 DEF OwnInv
  <2>3. QED
    BY <1>4, <2>1, <2>2
<1>5. \A m \in owed' : Answers(m)'
  BY <1>2 DEF OwnInv, Answers, Own
<1>6. \A i \in 1..Len(wire') : wire'[i].t = "reply" /\ wire'[i].n # 0
         => wire'[i].n \in 1..Len(navs') /\ navs'[wire'[i].n].by = wire'[i].g
  BY <1>2 DEF OwnInv
<1>7. ASSUME NEW g \in Gotos PROVE reply'[g] \in 1..MaxNavs =>
         reply'[g] \in 1..Len(navs') /\ navs'[reply'[g]].by = g
  <2>1. CASE reply'[g] = reply[g]
    BY <1>1, <2>1 DEF OwnInv
  <2>2. CASE \E j \in 1..Len(wire) : wire[j] = [t |-> "reply", n |-> reply'[g], g |-> g]
    <3>1. PICK j \in 1..Len(wire) : wire[j] = [t |-> "reply", n |-> reply'[g], g |-> g]
      BY <2>2
    <3>2. wire[j].t = "reply" /\ wire[j].n = reply'[g] /\ wire[j].g = g
            /\ Answers(wire[j])
      BY <3>1 DEF OwnInv
    <3>3. reply'[g] \in 1..MaxNavs => reply'[g] # 0
      OBVIOUS
    <3>4. QED
      BY <1>2, <3>2, <3>3
  <2>3. QED
    BY <2>1, <2>2
<1>8. ASSUME NEW g \in Gotos, navID'[g] # 0
      PROVE  navID'[g] \in 1..Len(navs') /\ navs'[navID'[g]].by = g
  BY <1>1, <1>8 DEF OwnInv
<1>9. QED
  BY <1>3, <1>4, <1>5, <1>6, <1>7, <1>8 DEF OwnInv, Own, Answers

(* The wire only loses its head, or gains what is no reply. *)
LEMMA HandledOwn ==
  ASSUME IInv, OwnInv, NEW t, Take(t),
         UNCHANGED <<navs, target, pc, requests, owed, navID>>,
         \A g \in Gotos : \/ reply'[g] = reply[g] \/ reply'[g] \notin 1..MaxNavs
                          \/ wire[1] = [t |-> "reply", n |-> reply'[g], g |-> g]
  PROVE  OwnInv'
<1>1. /\ 1 \in 1..Len(wire)
      /\ \A i \in 1..Len(wire') : i + 1 \in 1..Len(wire) /\ wire'[i] = wire[i + 1]
  BY TakenIs
<1>2. QED
  BY <1>1, OwnKept

LEMMA ReportedOwn ==
  ASSUME IInv, OwnInv, NEW n \in 1..Len(navs), NEW st, Moved(n, st), Grows,
         \A i \in 1..Len(wire') : i \in 1..Len(wire) \/ wire'[i].t # "reply",
         UNCHANGED <<target, pc, requests, owed, reply, navID>>
  PROVE  OwnInv'
<1>1. \A i \in 1..Len(wire') : (\E j \in 1..Len(wire) : wire'[i] = wire[j])
        \/ wire'[i].t # "reply"
  BY DEF Grows
<1>2. \A m \in 1..Len(navs) : /\ m \in 1..Len(navs') /\ navs'[m].by = navs[m].by
                              /\ navs'[m].frame = navs[m].frame
                              /\ navs'[m].url = navs[m].url
  BY DEF Moved
<1>3. Len(navs') = Len(navs)
  BY DEF Moved
<1>4. QED
  BY <1>1, <1>2, <1>3, OwnKept

LEMMA NavigateOwn ==
  ASSUME IInv, OwnInv, NEW g \in Gotos, Navigate(g)
  PROVE  OwnInv'
<1>1. /\ g \in requests /\ requests' = requests \ {g} /\ target[g] \in Urls
        /\ "main" \in Frames
      /\ Start("main", target[g], g) /\ UNCHANGED <<target, pc, reply, navID>>
      /\ owed' = owed \cup {[t |-> "reply", n |-> Len(navs) + 1, g |-> g]}
  BY DEF Navigate, IInv, TypeOK, Frames, Owe, ClientUnchanged, gotoVars, waiterVars
<1>2. PICK new : new = Len(navs) + 1
  OBVIOUS
<1>3. /\ Len(navs') = new /\ new \in 1..MaxNavs /\ Len(navs) \in Nat /\ Grows
      /\ \A n \in 1..Len(navs) : n \in 1..Len(navs') /\ navs'[n] = navs[n]
      /\ \A n \in 1..Len(navs') : n \in 1..Len(navs) \/ n = new
      /\ navs'[new].frame = "main" /\ navs'[new].url = target[g] /\ navs'[new].by = g
      /\ \A i \in 1..Len(wire') : i \in 1..Len(wire)
           \/ wire'[i].t \in {"started", "request"}
  BY <1>1, <1>2, StartIs, NavsAre
<1>4. new \in 1..Len(navs') /\ new \notin 1..Len(navs)
  BY <1>2, <1>3
<1>5. \A n \in 1..Len(navs) : navs[n].by # g
  BY <1>1 DEF OwnInv
<1>6. \A n, h : Own(n, h) => n \in 1..Len(navs') /\ navs'[n].by = h
  BY <1>3 DEF Own
<1>7. \A m : Answers(m) => m.t # "reply" \/ m.n = 0
        \/ (m.n \in 1..Len(navs') /\ navs'[m.n].by = m.g)
  BY <1>6 DEF Answers
<1>8. \A h \in Gotos : h \in requests' => pc'[h] # "idle"
  BY <1>1 DEF OwnInv
<1>9. ASSUME NEW h \in Gotos, NEW n \in 1..Len(navs'), navs'[n].by = h
      PROVE  /\ navs'[n].frame = "main" /\ navs'[n].url = target[h]
             /\ h \notin requests' /\ pc'[h] # "idle"
             /\ \A m \in 1..Len(navs') : navs'[m].by = h => m = n
  <2>1. CASE h = g
    <3>1. n = new /\ \A m \in 1..Len(navs') : navs'[m].by = h => m = new
      BY <1>3, <1>5, <1>9, <2>1
    <3>2. pc[g] # "idle"
      BY <1>1 DEF OwnInv
    <3>3. QED
      BY <1>1, <1>3, <2>1, <3>1, <3>2
  <2>2. CASE h # g
    <3>1. n \in 1..Len(navs) /\ navs[n].by = h
      BY <1>3, <1>9, <2>2
    <3>2. /\ navs[n].frame = "main" /\ navs[n].url = target[h]
          /\ h \notin requests /\ pc[h] # "idle"
          /\ \A m \in 1..Len(navs) : navs[m].by = h => m = n
      BY <3>1 DEF OwnInv
    <3>3. QED
      BY <1>1, <1>3, <2>2, <3>1, <3>2
  <2>3. QED
    BY <2>1, <2>2
<1>10. \A m \in owed' : m.t = "reply" /\ m.n # 0
        => m.n \in 1..Len(navs') /\ navs'[m.n].by = m.g
  <2>1. ASSUME NEW m \in owed', m \notin owed
        PROVE  m.n \in 1..Len(navs') /\ navs'[m.n].by = m.g
    <3>1. m = [t |-> "reply", n |-> new, g |-> g]
      BY <1>1, <1>2, <2>1
    <3>2. m.n = new /\ m.g = g
      BY <3>1
    <3>3. QED
      BY <1>3, <1>4, <3>2
  <2>2. QED
    BY <1>7, <2>1 DEF OwnInv
<1>11. \A i \in 1..Len(wire') : wire'[i].t = "reply" /\ wire'[i].n # 0
         => wire'[i].n \in 1..Len(navs') /\ navs'[wire'[i].n].by = wire'[i].g
  BY <1>3, <1>7 DEF OwnInv, Grows
<1>12. \A h \in Gotos :
         /\ reply'[h] \in 1..MaxNavs => reply'[h] \in 1..Len(navs')
              /\ navs'[reply'[h]].by = h
         /\ navID'[h] # 0 => navID'[h] \in 1..Len(navs') /\ navs'[navID'[h]].by = h
  BY <1>1, <1>6 DEF OwnInv
<1>13. \A m \in owed' : Answers(m)'
  BY <1>10 DEF Answers, Own
<1>14. \A i \in 1..Len(wire') : Answers(wire[i])'
  BY <1>11 DEF Answers, Own
<1>15. \A h \in Gotos, n \in 1..Len(navs') : navs'[n].by = h =>
         /\ navs'[n].frame = "main" /\ navs'[n].url = target'[h]
         /\ h \notin requests' /\ pc'[h] # "idle"
         /\ \A m \in 1..Len(navs') : navs'[m].by = h => m = n
  BY <1>1, <1>9
<1>16. ASSUME NEW h \in Gotos
       PROVE  /\ reply'[h] \in 1..MaxNavs => Own(reply[h], h)'
              /\ navID'[h] # 0 => Own(navID[h], h)'
  <2>1. /\ reply'[h] \in 1..MaxNavs => reply'[h] \in 1..Len(navs')
          /\ navs'[reply'[h]].by = h
        /\ navID'[h] # 0 => navID'[h] \in 1..Len(navs') /\ navs'[navID'[h]].by = h
    BY <1>12
  <2>2. QED
    BY <2>1 DEF Own
<1>17. QED
  BY <1>8, <1>13, <1>14, <1>15, <1>16 DEF OwnInv

LEMMA OwnStep ==
  ASSUME IInv, OwnInv, [Next]_vars
  PROVE  OwnInv'
<1>1. CASE OnNavigationStarted
  <2>1. Take("started") /\ UNCHANGED <<navs, target, pc, requests, owed, navID, reply>>
    BY <1>1 DEF OnNavigationStarted, browserVars, gotoVars, waiterVars
  <2>2. QED
    BY <2>1, HandledOwn
<1>2. CASE OnRequestWillBeSent
  <2>1. Take("request") /\ UNCHANGED <<navs, target, pc, requests, owed, navID, reply>>
    BY <1>2 DEF OnRequestWillBeSent, browserVars, gotoVars, waiterVars
  <2>2. QED
    BY <2>1, HandledOwn
<1>3. CASE OnResponseReceived
  <2>1. Take("response") /\ UNCHANGED <<navs, target, pc, requests, owed, navID, reply>>
    BY <1>3 DEF OnResponseReceived, browserVars, gotoVars, waiterVars
  <2>2. QED
    BY <2>1, HandledOwn
<1>4. CASE OnRequestDone
  <2>1. Take("done") /\ UNCHANGED <<navs, target, pc, requests, owed, navID, reply>>
    BY <1>4 DEF OnRequestDone, browserVars, gotoVars, waiterVars
  <2>2. QED
    BY <2>1, HandledOwn
<1>5. CASE OnNavigationCommitted
  <2>1. Take("committed") /\ UNCHANGED <<navs, target, pc, requests, owed, navID,
          reply>>
    BY <1>5 DEF OnNavigationCommitted, browserVars, gotoVars, waiterVars
  <2>2. QED
    BY <2>1, HandledOwn
<1>6. CASE OnDOMContentLoaded
  <2>1. Take("DOMContentLoaded") /\ UNCHANGED <<navs, target, pc, requests, owed, navID,
          reply>>
    BY <1>6 DEF OnDOMContentLoaded, browserVars, gotoVars, waiterVars
  <2>2. QED
    BY <2>1, HandledOwn
<1>7. CASE OnLoad
  <2>1. Take("load") /\ UNCHANGED <<navs, target, pc, requests, owed, navID, reply>>
    BY <1>7 DEF OnLoad, browserVars, gotoVars, waiterVars
  <2>2. QED
    BY <2>1, HandledOwn
<1>8. CASE OnNavigationAborted
  <2>1. Take("aborted") /\ UNCHANGED <<navs, target, pc, requests, owed, navID, reply>>
    BY <1>8 DEF OnNavigationAborted, browserVars, gotoVars, waiterVars
  <2>2. QED
    BY <2>1, HandledOwn
<1>9. CASE OnReply
  <2>1. (Take("reply") \/ Take("error"))
          /\ UNCHANGED <<navs, target, pc, requests, owed, navID>>
    BY <1>9 DEF OnReply, browserVars, waiterVars
  <2>2. wire[1] \in Message /\ Head(wire) = wire[1] /\ N = wire[1].n
          /\ wire[1].t \in {"reply", "error"}
    BY <2>1, TakenIs DEF IInv, TypeOK
  <2>3. reply \in [Gotos -> {None, Failed} \cup 0..MaxNavs]
    BY DEF IInv, TypeOK
  <2>4. PICK r : r = IF wire[1].t = "error" THEN Failed ELSE N
    OBVIOUS
  <2>5. reply' = reply \/ reply' = [reply EXCEPT ![wire[1].g] = r]
    BY <1>9, <2>2, <2>4 DEF OnReply
  <2>6. wire[1] = [t |-> wire[1].t, n |-> wire[1].n, g |-> wire[1].g]
    BY <2>2 DEF Message
  <2>7. Failed \notin 1..MaxNavs
    BY NoneAssumption, NavAssumption
  <2>8. r \notin 1..MaxNavs \/ wire[1] = [t |-> "reply", n |-> r, g |-> wire[1].g]
    BY <2>2, <2>4, <2>6, <2>7
  <2>9. \A g \in Gotos : \/ reply'[g] = reply[g] \/ reply'[g] \notin 1..MaxNavs
                          \/ wire[1] = [t |-> "reply", n |-> reply'[g], g |-> g]
    BY <2>3, <2>5, <2>8
  <2>10. QED
    BY <2>1, <2>9, HandledOwn
<1>10. ASSUME NEW f \in Frames, PageNavigates(f) PROVE OwnInv'
  <2>1. PICK u \in Urls : Start(f, u, None)
    BY <1>10 DEF PageNavigates
  <2>2. UNCHANGED <<target, pc, requests, owed, reply, navID>>
    BY <1>10 DEF PageNavigates, ClientUnchanged, gotoVars, waiterVars
  <2>3. /\ Grows /\ \A n \in 1..Len(navs) : n \in 1..Len(navs') /\ navs'[n] = navs[n]
        /\ \A n \in 1..Len(navs') : n \in 1..Len(navs) \/ navs'[n].by = None
        /\ \A i \in 1..Len(wire') : i \in 1..Len(wire)
             \/ wire'[i].t \in {"started", "request"}
    BY <2>1, StartIs
  <2>4. \A i \in 1..Len(wire') : (\E j \in 1..Len(wire) : wire'[i] = wire[j])
          \/ wire'[i].t # "reply"
    BY <2>3 DEF Grows
  <2>5. QED
    BY <2>2, <2>3, <2>4, OwnKept, NoneAssumption
<1>11. ASSUME NEW g \in Gotos, Navigate(g) PROVE OwnInv'
  BY <1>11, NavigateOwn
<1>12. ASSUME NEW g \in Gotos, NavigateNowhere(g) PROVE OwnInv'
  <2>1. PICK t \in {"reply", "error"} : owed' = owed \cup {[t |-> t, n |-> 0, g |-> g]}
    BY <1>12 DEF NavigateNowhere, Owe
  <2>2. UNCHANGED <<target, pc, reply, navID, navs, wire>>
          /\ requests' \subseteq requests
    BY <1>12 DEF NavigateNowhere, ClientUnchanged, gotoVars, waiterVars
  <2>3. \A m \in owed' : m \in owed \/ m.n = 0
    BY <2>1
  <2>4. QED
    BY <2>2, <2>3, OwnKept
<1>13. CASE Reply
  <2>1. PICK m \in owed : Emit(<<m>>) /\ owed' = owed \ {m}
    BY <1>13 DEF Reply
  <2>2. m \in Message
    BY <2>1 DEF IInv, TypeOK
  <2>3. /\ Grows /\ wire'[Len(wire) + 1] = m
        /\ \A i \in 1..Len(wire') : i \in 1..Len(wire) \/ i = Len(wire) + 1
    BY <2>1, <2>2, OneSent
  <2>4. UNCHANGED <<target, pc, reply, navID, navs, requests>>
    BY <1>13 DEF Reply, ClientUnchanged, gotoVars, waiterVars
  <2>5. \A i \in 1..Len(wire') : (\E j \in 1..Len(wire) : wire'[i] = wire[j])
          \/ wire'[i] \in owed
    BY <2>3 DEF Grows
  <2>6. QED
    BY <2>1, <2>4, <2>5, OwnKept
<1>14. CASE Close
  <2>1. UNCHANGED <<target, pc, reply, navID, navs, requests, owed>> /\ wire' = <<>>
    BY <1>14 DEF Close, ClientUnchanged, gotoVars, waiterVars
  <2>2. QED
    BY <2>1, OwnKept
<1>15. ASSUME NEW n \in 1..Len(navs), Respond(n) PROVE OwnInv'
  <2>1. Moved(n, "responded")
    BY <1>15, MovedIs DEF Respond
  <2>2. UNCHANGED <<target, pc, requests, owed, reply, navID>>
    BY <1>15 DEF Respond, ClientUnchanged, gotoVars, waiterVars
  <2>3. Emit(<<Msg("response", n), Msg("done", n)>>)
    BY <1>15 DEF Respond
  <2>4. "response" \in Kinds /\ "done" \in Kinds
    BY DEF Kinds
  <2>5. Grows /\ \A i \in 1..Len(wire') : i \in 1..Len(wire) \/ wire'[i].t # "reply"
    BY <2>3, <2>4, ReportIs
  <2>6. QED
    BY <2>1, <2>2, <2>5, ReportedOwn
<1>16. ASSUME NEW n \in 1..Len(navs), Abort(n) PROVE OwnInv'
  <2>1. Moved(n, "aborted")
    BY <1>16, MovedIs DEF Abort
  <2>2. UNCHANGED <<target, pc, requests, owed, reply, navID>>
    BY <1>16 DEF Abort, ClientUnchanged, gotoVars, waiterVars
  <2>3. Emit(<<Msg("done", n), Msg("aborted", n)>>) \/ Emit(<<Msg("aborted", n)>>)
    BY <1>16 DEF Abort
  <2>4. "done" \in Kinds /\ "aborted" \in Kinds
    BY DEF Kinds
  <2>5. Grows /\ \A i \in 1..Len(wire') : i \in 1..Len(wire) \/ wire'[i].t # "reply"
    BY <2>3, <2>4, ReportIs
  <2>6. QED
    BY <2>1, <2>2, <2>5, ReportedOwn
<1>17. ASSUME NEW n \in 1..Len(navs), Commit(n) PROVE OwnInv'
  <2>1. Moved(n, "committed")
    BY <1>17, MovedIs DEF Commit
  <2>2. UNCHANGED <<target, pc, requests, owed, reply, navID>>
    BY <1>17 DEF Commit, ClientUnchanged, gotoVars, waiterVars
  <2>3. Emit(<<Msg("committed", n)>>)
    BY <1>17 DEF Commit
  <2>4. "committed" \in Kinds
    BY DEF Kinds
  <2>5. Grows /\ \A i \in 1..Len(wire') : i \in 1..Len(wire) \/ wire'[i].t # "reply"
    BY <2>3, <2>4, ReportIs
  <2>6. QED
    BY <2>1, <2>2, <2>5, ReportedOwn
<1>ready. ASSUME NEW n \in 1..Len(navs), Ready(n) PROVE OwnInv'
  <2>1. Moved(n, "interactive")
    BY <1>ready, MovedIs DEF Ready
  <2>2. UNCHANGED <<target, pc, requests, owed, reply, navID>>
    BY <1>ready DEF Ready, ClientUnchanged, gotoVars, waiterVars
  <2>3. Emit(<<Msg("DOMContentLoaded", n)>>)
    BY <1>ready DEF Ready
  <2>4. "DOMContentLoaded" \in Kinds
    BY DEF Kinds
  <2>5. Grows /\ \A i \in 1..Len(wire') : i \in 1..Len(wire) \/ wire'[i].t # "reply"
    BY <2>3, <2>4, ReportIs
  <2>6. QED
    BY <2>1, <2>2, <2>5, ReportedOwn
<1>18. ASSUME NEW n \in 1..Len(navs), Load(n) PROVE OwnInv'
  <2>1. Moved(n, "loaded")
    BY <1>18, MovedIs DEF Load
  <2>2. UNCHANGED <<target, pc, requests, owed, reply, navID>>
    BY <1>18 DEF Load, ClientUnchanged, gotoVars, waiterVars
  <2>3. Emit(<<Msg("load", n)>>)
    BY <1>18 DEF Load
  <2>4. "load" \in Kinds
    BY DEF Kinds
  <2>5. Grows /\ \A i \in 1..Len(wire') : i \in 1..Len(wire) \/ wire'[i].t # "reply"
    BY <2>3, <2>4, ReportIs
  <2>6. QED
    BY <2>1, <2>2, <2>5, ReportedOwn
<1>19. ASSUME NEW g \in Gotos, BeginGoto(g) PROVE OwnInv'
  <2>1. /\ UNCHANGED <<target, reply, navs, owed, wire, navID>>
        /\ pc \in [Gotos -> {"idle", "calling", "pin", "wait", "returned"}]
        /\ requests' = requests \cup {g} /\ pc[g] = "idle"
    BY <1>19 DEF BeginGoto, browserVars, waiterVars, gotoVars, IInv, TypeOK
  <2>2. \A h \in Gotos : pc[h] # "idle" => pc'[h] # "idle"
    BY <1>19, <2>1 DEF BeginGoto, Return
  <2>3. pc'[g] = "calling"
    BY <1>19, <2>1 DEF BeginGoto
  <2>4. QED
    BY <2>1, <2>2, <2>3, OwnKept
<1>20. ASSUME NEW g \in Gotos, CallFails(g) PROVE OwnInv'
  <2>1. /\ UNCHANGED <<target, reply, navs, owed, wire, navID>>
        /\ pc \in [Gotos -> {"idle", "calling", "pin", "wait", "returned"}]
        /\ UNCHANGED requests
    BY <1>20 DEF CallFails, browserVars, waiterVars, gotoVars, IInv, TypeOK
  <2>2. \A h \in Gotos : pc[h] # "idle" => pc'[h] # "idle"
    BY <1>20, <2>1 DEF CallFails, Return
  <2>3. QED
    BY <2>1, <2>2, OwnKept
<1>21. ASSUME NEW g \in Gotos, CallReturns(g) PROVE OwnInv'
  <2>1. /\ UNCHANGED <<target, reply, navs, owed, wire, navID>>
        /\ pc \in [Gotos -> {"idle", "calling", "pin", "wait", "returned"}]
        /\ UNCHANGED requests
    BY <1>21 DEF CallReturns, browserVars, waiterVars, gotoVars, IInv, TypeOK
  <2>2. \A h \in Gotos : pc[h] # "idle" => pc'[h] # "idle"
    BY <1>21, <2>1 DEF CallReturns, Return
  <2>3. QED
    BY <2>1, <2>2, OwnKept
<1>22. ASSUME NEW g \in Gotos, PinNavID(g) PROVE OwnInv'
  <2>1. /\ UNCHANGED <<target, reply, navs, requests, owed, wire>>
        /\ pc' = [pc EXCEPT ![g] = "wait"]
             /\ pc \in [Gotos -> {"idle", "calling", "pin", "wait", "returned"}]
    BY <1>22 DEF PinNavID, browserVars, IInv, TypeOK
  <2>2. reply[g] \in 0..MaxNavs /\ navID \in [Gotos -> 0..MaxNavs] /\ MaxNavs \in Nat
    BY <1>22, NavAssumption DEF PinNavID, IInv, TypeOK, FreshInv
  <2>3. navID' = navID \/ navID' = [navID EXCEPT ![g] = reply[g]]
    BY <1>22 DEF PinNavID
  <2>4. \A h \in Gotos : navID'[h] = navID[h] \/ navID'[h] = 0
                          \/ (navID'[h] = reply[h] /\ reply[h] \in 1..MaxNavs)
    BY <2>2, <2>3
  <2>5. \A h \in Gotos : pc[h] # "idle" => pc'[h] # "idle"
    BY <2>1
  <2>6. QED
    BY <2>1, <2>4, <2>5, OwnKept
<1>23. ASSUME NEW g \in Gotos, GotoReturns(g) PROVE OwnInv'
  <2>1. /\ UNCHANGED <<target, reply, navs, owed, wire, navID>>
        /\ pc \in [Gotos -> {"idle", "calling", "pin", "wait", "returned"}]
        /\ UNCHANGED requests
    BY <1>23 DEF GotoReturns, browserVars, waiterVars, gotoVars, IInv, TypeOK
  <2>2. \A h \in Gotos : pc[h] # "idle" => pc'[h] # "idle"
    BY <1>23, <2>1 DEF GotoReturns, Return
  <2>3. QED
    BY <2>1, <2>2, OwnKept
<1>24. ASSUME NEW g \in Gotos, GotoTimesOut(g) PROVE OwnInv'
  <2>1. /\ UNCHANGED <<target, reply, navs, owed, wire, navID>>
        /\ pc \in [Gotos -> {"idle", "calling", "pin", "wait", "returned"}]
        /\ UNCHANGED requests
    BY <1>24 DEF GotoTimesOut, browserVars, waiterVars, gotoVars, IInv, TypeOK
  <2>2. \A h \in Gotos : pc[h] # "idle" => pc'[h] # "idle"
    BY <1>24, <2>1 DEF GotoTimesOut, Return
  <2>3. QED
    BY <2>1, <2>2, OwnKept
<1>25. ASSUME NEW g \in Gotos, GotoSeesClosed(g) PROVE OwnInv'
  <2>1. /\ UNCHANGED <<target, reply, navs, owed, wire, navID>>
        /\ pc \in [Gotos -> {"idle", "calling", "pin", "wait", "returned"}]
        /\ UNCHANGED requests
    BY <1>25 DEF GotoSeesClosed, browserVars, waiterVars, gotoVars, IInv, TypeOK
  <2>2. \A h \in Gotos : pc[h] # "idle" => pc'[h] # "idle"
    BY <1>25, <2>1 DEF GotoSeesClosed, Return
  <2>3. QED
    BY <2>1, <2>2, OwnKept
<1>26. ASSUME NEW g \in Gotos, Expire(g) PROVE OwnInv'
  <2>1. /\ UNCHANGED <<target, reply, navs, owed, wire, navID>>
        /\ pc \in [Gotos -> {"idle", "calling", "pin", "wait", "returned"}]
        /\ UNCHANGED requests
    BY <1>26 DEF Expire, browserVars, waiterVars, gotoVars, IInv, TypeOK
  <2>2. \A h \in Gotos : pc[h] # "idle" => pc'[h] # "idle"
    BY <1>26, <2>1 DEF Expire, Return
  <2>3. QED
    BY <2>1, <2>2, OwnKept
<1>27. ASSUME NEW h \in Histories, HistoryBegin(h) PROVE OwnInv'
  <2>1. UNCHANGED <<target, pc, reply, navs, requests, owed, wire, navID>>
    BY <1>27 DEF HistoryBegin, browserVars, waiterVars, gotoVars, vars
  <2>2. QED
    BY <2>1, OwnKept
<1>28. ASSUME NEW h \in Histories, HistoryGo(h) PROVE OwnInv'
  <2>1. UNCHANGED <<target, pc, reply, navs, requests, owed, wire, navID>>
    BY <1>28 DEF HistoryGo, browserVars, waiterVars, gotoVars, vars
  <2>2. QED
    BY <2>1, OwnKept
<1>29. ASSUME NEW h \in Histories, HistoryPoll(h) PROVE OwnInv'
  <2>1. UNCHANGED <<target, pc, reply, navs, requests, owed, wire, navID>>
    BY <1>29 DEF HistoryPoll, browserVars, waiterVars, gotoVars, vars
  <2>2. QED
    BY <2>1, OwnKept
<1>30. ASSUME NEW h \in Histories, HistoryWrite(h) PROVE OwnInv'
  <2>1. UNCHANGED <<target, pc, reply, navs, requests, owed, wire, navID>>
    BY <1>30 DEF HistoryWrite, browserVars, waiterVars, gotoVars, vars
  <2>2. QED
    BY <2>1, OwnKept
<1>31. ASSUME NEW h \in Histories, HistoryGivesUp(h) PROVE OwnInv'
  <2>1. UNCHANGED <<target, pc, reply, navs, requests, owed, wire, navID>>
    BY <1>31 DEF HistoryGivesUp, browserVars, waiterVars, gotoVars, vars
  <2>2. QED
    BY <2>1, OwnKept
<1>32. CASE UNCHANGED vars
  <2>1. UNCHANGED <<target, pc, reply, navs, requests, owed, wire, navID>>
    BY <1>32 DEF vars, browserVars, waiterVars, gotoVars, vars
  <2>2. QED
    BY <2>1, OwnKept
<1>33. QED
  BY <1>1, <1>2, <1>3, <1>4, <1>5, <1>6, <1>7, <1>8, <1>9, <1>10, <1>11, <1>12, <1>13,
     <1>14, <1>15, <1>16, <1>17, <1>18, <1>ready,
     <1>19, <1>20, <1>21, <1>22, <1>23, <1>24, <1>25,
     <1>26, <1>27, <1>28, <1>29, <1>30, <1>31, <1>32
     DEF Next, Handlers, Browser, GotoStep, HistoryStep

-----------------------------------------------------------------------------
(* The commit and the load event of the document a Goto waits for.  The     *)
(* messages of a kind about navigation n, d places nearer to the head:     *)
Near(t, n, d) ==
  /\ \A i \in 1..Len(wire') : wire'[i].t = t /\ wire'[i].n = n =>
       i + d \in 1..Len(wire) /\ wire'[i] = wire[i + d]
  /\ \A i \in 1..Len(wire) : wire[i].t = t /\ wire[i].n = n =>
       i - d \in 1..Len(wire') /\ wire'[i - d] = wire[i]

Loaded(n) == \E i \in 1..Len(wire) :
               Is(i, "load", n) /\ \A j \in 1..Len(wire) : Is(j, "committed", n)
                       => j < i

LEMMA LoadedKept ==
  ASSUME NEW n, NEW d \in {0, 1}, Near("committed", n, d),
         NEW i \in 1..Len(wire), Is(i, "load", n),
         \A j \in 1..Len(wire) : Is(j, "committed", n) => j < i,
         i - d \in 1..Len(wire'), wire'[i - d] = wire[i]
  PROVE  Loaded(n)'
<1>1. PICK k : k = i - d
  OBVIOUS
<1>2. k \in 1..Len(wire') /\ Is(k, "load", n)'
  BY <1>1 DEF Is
<1>3. ASSUME NEW j \in 1..Len(wire'), Is(j, "committed", n)' PROVE j < k
  <2>1. j + d \in 1..Len(wire) /\ Is(j + d, "committed", n)
    BY <1>3 DEF Near, Is
  <2>2. j + d < i
    BY <2>1
  <2>3. QED
    BY <1>1, <2>2
<1>4. QED
  BY <1>2, <1>3 DEF Loaded, Is

LEMMA ComesKept ==
  ASSUME NEW n, NEW g, NEW d \in {0, 1}, Comes(n, g),
         Near("committed", n, d), Near("load", n, d), committed \subseteq committed',
         navs'[n].st = "loaded" <=> navs[n].st = "loaded",
         navs'[n].st \in Shown <=> navs[n].st \in Shown
  PROVE  Comes(n, g)'
<1>1. Sent("committed", n) => Sent("committed", n)'
  <2>1. ASSUME NEW i \in 1..Len(wire), Is(i, "committed", n) PROVE Sent("committed", n)'
    <3>1. PICK k : k = i - d
      OBVIOUS
    <3>2. k \in 1..Len(wire') /\ wire'[k] = wire[i]
      BY <2>1, <3>1 DEF Near, Is
    <3>3. QED
      BY <2>1, <3>2 DEF Sent, Is
  <2>2. QED
    BY <2>1 DEF Sent
<1>2. Loaded(n) => Loaded(n)'
  <2>1. ASSUME NEW i \in 1..Len(wire), Is(i, "load", n),
               \A j \in 1..Len(wire) : Is(j, "committed", n) => j < i
        PROVE  Loaded(n)'
    <3>1. i - d \in 1..Len(wire') /\ wire'[i - d] = wire[i]
      BY <2>1 DEF Near, Is
    <3>2. QED
      BY <2>1, <3>1, LoadedKept
  <2>2. QED
    BY <2>1 DEF Loaded
<1>3. QED
  BY <1>1, <1>2 DEF Comes, Loaded

LEMMA TakenNear ==
  ASSUME IInv, NEW s, Take(s), NEW t, NEW n, s # t \/ wire[1].n # n
  PROVE  Near(t, n, 1)
<1>1. /\ wire[1].t = s
      /\ \A i \in 1..Len(wire') : i + 1 \in 1..Len(wire) /\ wire'[i] = wire[i + 1]
      /\ \A i \in 1..Len(wire) :
              i = 1 \/ (i - 1 \in 1..Len(wire') /\ wire'[i - 1] = wire[i])
  BY TakenIs
<1>2. QED
  BY <1>1 DEF Near

LEMMA GrownNear ==
  ASSUME Grows, NEW t, NEW n,
         \A i \in 1..Len(wire') : i \in 1..Len(wire) \/ wire'[i].t # t \/ wire'[i].n # n
  PROVE  Near(t, n, 0)
<1>1. \A i \in 1..Len(wire) : i \in 1..Len(wire') /\ wire'[i] = wire[i] /\ i + 0 = i
        /\ i - 0 = i
  BY DEF Grows
<1>2. QED
  BY <1>1 DEF Near

(* A step for which the documents awaited keep coming. *)
LEMMA WaitKept ==
  ASSUME WaitInv, UNCHANGED target, closed => closed',
         \A g \in Gotos : Waits(g)' => Waits(g)
                 /\ (g \in navWaiters => g \in navWaiters'),
         ASSUME NEW g \in Gotos, Waits(g), Waits(g)', g \in navWaiters, ~closed,
                ~closed',
                target[g] # Blank, \A n \in 1..Len(navs) : navs[n].by = g
                        => Comes(n, g),
                NEW n \in 1..Len(navs'), navs'[n].by = g
         PROVE  Comes(n, g)'
  PROVE  WaitInv'
<1> SUFFICES ASSUME NEW g \in Gotos, Waits(g)'
             PROVE  /\ g \in navWaiters'
                    /\ ~closed' /\ target'[g] # Blank =>
                         \A n \in 1..Len(navs') : navs'[n].by = g => Comes(n, g)'
  BY DEF WaitInv
<1>1. Waits(g) /\ g \in navWaiters /\ g \in navWaiters'
  BY DEF WaitInv
<1>2. ASSUME ~closed', target'[g] # Blank, NEW n \in 1..Len(navs'), navs'[n].by = g
      PROVE  Comes(n, g)'
  <2>1. ~closed /\ target[g] # Blank
    BY <1>2
  <2>2. \A m \in 1..Len(navs) : navs[m].by = g => Comes(m, g)
    BY <1>1, <2>1 DEF WaitInv
  <2>3. QED
    BY <1>1, <1>2, <2>1, <2>2
<1>3. QED
  BY <1>1, <1>2

LEMMA WaitSame ==
  ASSUME WaitInv, UNCHANGED <<target, closed, wire, navs, committed>>,
         \A g \in Gotos : Waits(g)' => Waits(g)
                 /\ (g \in navWaiters => g \in navWaiters')
  PROVE  WaitInv'
<1>1. \A g, n : Comes(n, g) => Comes(n, g)'
  BY DEF Comes, Sent, Is
<1>2. QED
  BY <1>1 DEF WaitInv

(* A handler of another event. *)
LEMMA WaitTaken ==
  ASSUME IInv, WaitInv, NEW s, Take(s), s \notin {"committed", "load"},
         UNCHANGED <<target, closed, navs, committed>>,
         \A g \in Gotos : Waits(g)' => Waits(g)
                 /\ (g \in navWaiters => g \in navWaiters')
  PROVE  WaitInv'
<1>1. \A n : Near("committed", n, 1) /\ Near("load", n, 1)
  BY TakenNear
<1>2. \A n, g : Comes(n, g) => Comes(n, g)'
  BY <1>1, ComesKept
<1>3. QED
  BY <1>2, WaitKept

(* The browser goes on with navigation n, and says so. *)
LEMMA WaitMoved ==
  ASSUME IInv, WaitInv, UNCHANGED <<target, closed, pc, slot, navWaiters, committed>>,
         Grows, NEW n \in 1..Len(navs), NEW st, Moved(n, st),
         \A i \in 1..Len(wire') : i \in 1..Len(wire) \/ wire'[i].n = n,
         \A g : Comes(n, g) => Comes(n, g)'
  PROVE  WaitInv'
<1>1. \A m : m # n => Near("committed", m, 0) /\ Near("load", m, 0)
  BY GrownNear
<1>2. \A m \in 1..Len(navs) : navs'[m].by = navs[m].by /\ (m # n => navs'[m] = navs[m])
  BY DEF Moved
<1>3. Len(navs') = Len(navs)
  BY DEF Moved
<1>4. ASSUME NEW m \in 1..Len(navs), NEW g, Comes(m, g) PROVE Comes(m, g)'
  <2>1. CASE m = n
    BY <1>4, <2>1
  <2>2. CASE m # n
    BY <1>1, <1>2, <1>4, <2>2, ComesKept
  <2>3. QED
    BY <2>1, <2>2
<1>5. \A g \in Gotos : Waits(g)' => Waits(g)
  BY DEF Waits
<1>6. QED
  BY <1>2, <1>3, <1>4, <1>5, WaitKept

(* The commit of the document a listed Goto waits for satisfies it. *)
LEMMA WaitCommitted ==
  ASSUME IInv, OwnInv, WaitInv, OnNavigationCommitted
  PROVE  WaitInv'
<1>1. /\ Take("committed") /\ UNCHANGED <<navs, closed, target, pc, slot, navWaiters,
        navID>>
      /\ committed' = IF IsMain(N) THEN committed
           \cup {g \in navWaiters : Satisfies(g, N)}
                                   ELSE committed
  BY DEF OnNavigationCommitted, browserVars, gotoVars
<1>2. N = wire[1].n /\ wire[1].t = "committed" /\ 1 \in 1..Len(wire)
  BY <1>1, TakenIs
<1>3. committed \subseteq committed'
  BY <1>1
<1>4. \A n : Near("load", n, 1) /\ (n # N => Near("committed", n, 1))
  BY <1>1, <1>2, TakenNear
<1>5. ASSUME NEW g \in Gotos, g \in navWaiters, target[g] # Blank,
             NEW n \in 1..Len(navs), navs[n].by = g, Comes(n, g)
      PROVE  Comes(n, g)'
  <2>1. CASE n # N
    BY <1>1, <1>3, <1>4, <1>5, <2>1, ComesKept
  <2>2. CASE n = N
    <3>1. navs[n].frame = "main" /\ navs[n].url = target[g] /\ UrlOf(n) = navs[n].url
      BY <1>5, NavsAre DEF OwnInv
    <3>2. navID[g] # 0 => navID[g] = n
      BY <1>5 DEF OwnInv, Own
    <3>3. Satisfies(g, N)
      BY <1>5, <2>2, <3>1, <3>2 DEF Satisfies
    <3>4. g \in committed'
      BY <1>1, <1>5, <2>2, <3>1, <3>3 DEF IsMain
    <3>5. navs[n].st = "loaded" => Loaded(n)'
      <4>1. ASSUME NEW i \in 1..Len(wire), Is(i, "load", n),
                   \A j \in 1..Len(wire) : Is(j, "committed", n) => j < i
            PROVE  Loaded(n)'
        <5>1. 1 < i
          BY <1>2, <2>2, <4>1 DEF Is
        <5>2. PICK k : k = i - 1
          OBVIOUS
        <5>3. k \in 1..Len(wire') /\ wire'[k] = wire[i]
          BY <1>4, <4>1, <5>2 DEF Near, Is
        <5>4. Is(k, "load", n)'
          BY <4>1, <5>3 DEF Is
        <5>5. \A j \in 1..Len(wire') : j + 1 \in 1..Len(wire) /\ wire'[j] = wire[j + 1]
          BY <1>1, TakenIs
        <5>6. ASSUME NEW j \in 1..Len(wire'), Is(j, "committed", n)' PROVE j < k
          <6>1. Is(j + 1, "committed", n) /\ j + 1 \in 1..Len(wire)
            BY <5>5, <5>6 DEF Is
          <6>2. j + 1 < i
            BY <4>1, <6>1
          <6>3. QED
            BY <5>2, <6>2
        <5>7. QED
          BY <5>3, <5>4, <5>6 DEF Loaded, Is
      <4>2. QED
        BY <1>5, <4>1 DEF Comes
    <3>6. QED
      BY <1>1, <3>4, <3>5 DEF Comes, Loaded
  <2>3. QED
    BY <2>1, <2>2
<1>6. \A g \in Gotos : Waits(g)' => Waits(g)
  BY <1>1 DEF Waits
<1>7. QED
  BY <1>1, <1>5, <1>6, WaitKept

(* A load event releases every waiter that a commit has satisfied. *)
LEMMA WaitLoad ==
  ASSUME IInv, OwnInv, WaitInv, OnLoad
  PROVE  WaitInv'
<1>1. /\ Take("load") /\ UNCHANGED <<navs, closed, target, pc, committed>>
      /\ IF IsMain(N) THEN /\ slot' = [g \in Gotos |-> IF g \in navWaiters \cap committed
                                                       THEN "ok" ELSE slot[g]]
                           /\ navWaiters' = navWaiters \ (navWaiters \cap committed)
                      ELSE UNCHANGED <<navWaiters, slot>>
  BY DEF OnLoad, Fulfil, browserVars, gotoVars
<1>2. N = wire[1].n /\ wire[1].t = "load" /\ 1 \in 1..Len(wire)
  BY <1>1, TakenIs
<1>3. \A n : Near("committed", n, 1) /\ (n # N => Near("load", n, 1))
  BY <1>1, <1>2, TakenNear
<1>4. None # "ok"
  BY NoneAssumption
<1>5. ASSUME NEW g \in Gotos, Waits(g)'
      PROVE  /\ Waits(g) /\ (g \in navWaiters => g \in navWaiters')
             /\ IsMain(N) /\ g \in navWaiters => g \notin committed
  BY <1>1, <1>4, <1>5 DEF Waits
<1>6. ASSUME NEW g \in Gotos, g \in navWaiters, Waits(g)', NEW n \in 1..Len(navs),
             navs[n].by = g, Comes(n, g)
      PROVE  Comes(n, g)'
  <2>1. CASE n # N
    BY <1>1, <1>3, <1>6, <2>1, ComesKept
  <2>2. CASE n = N
    <3>1. IsMain(N)
      BY <1>6, <2>2 DEF OwnInv, IsMain
    <3>2. g \notin committed
      BY <1>5, <1>6, <3>1
    <3>3. navs[n].st \in Shown =>
            \E j \in 1..Len(wire) : Is(j, "committed", n)
      BY <1>6, <3>2 DEF Comes, Sent
    <3>4. navs[n].st \in Shown => Sent("committed", n)'
      <4>1. ASSUME NEW j \in 1..Len(wire), Is(j, "committed", n)
            PROVE  Sent("committed", n)'
        <5>1. PICK k : k = j - 1
          OBVIOUS
        <5>2. k \in 1..Len(wire') /\ wire'[k] = wire[j]
          BY <1>3, <4>1, <5>1 DEF Near, Is
        <5>3. QED
          BY <4>1, <5>2 DEF Sent, Is
      <4>2. QED
        BY <3>3, <4>1
    <3>5. navs[n].st = "loaded" => Loaded(n)'
      <4>1. ASSUME navs[n].st = "loaded", NEW i \in 1..Len(wire), Is(i, "load", n),
                   \A j \in 1..Len(wire) : Is(j, "committed", n) => j < i
            PROVE  Loaded(n)'
        <5>1. PICK j \in 1..Len(wire) : Is(j, "committed", n)
          BY <3>3, <4>1 DEF Shown
        <5>2. j < i
          BY <4>1, <5>1
        <5>3. i # 1
          BY <5>2
        <5>4. i - 1 \in 1..Len(wire') /\ wire'[i - 1] = wire[i]
          BY <1>1, <5>3, TakenIs
        <5>5. QED
          BY <1>3, <4>1, <5>4, LoadedKept
      <4>2. QED
        BY <1>6, <4>1 DEF Comes
    <3>6. QED
      BY <1>1, <3>4, <3>5 DEF Comes, Loaded
  <2>3. QED
    BY <2>1, <2>2
<1>7. QED
  BY <1>1, <1>5, <1>6, WaitKept

(* A navigation that begins for g has nothing to come yet. *)
LEMMA WaitStarted ==
  ASSUME IInv, WaitInv, NEW f \in Frames, NEW u \in Urls, NEW h \in Gotos \cup {None},
         Start(f, u, h), UNCHANGED <<target, closed, pc, slot, navWaiters, committed>>
  PROVE  WaitInv'
<1>1. PICK new : new = Len(navs) + 1
  OBVIOUS
<1>2. /\ Grows /\ \A n \in 1..Len(navs) : n \in 1..Len(navs') /\ navs'[n] = navs[n]
      /\ \A n \in 1..Len(navs') : n \in 1..Len(navs) \/ n = new
      /\ navs'[new].st = "started"
      /\ \A i \in 1..Len(wire') : i \in 1..Len(wire)
           \/ wire'[i].t \in {"started", "request"}
  BY <1>1, StartIs
<1>3. \A n : Near("committed", n, 0) /\ Near("load", n, 0)
  BY <1>2, GrownNear
<1>4. \A n \in 1..Len(navs) : \A g : Comes(n, g) => Comes(n, g)'
  BY <1>2, <1>3, ComesKept
<1>5. \A g : Comes(new, g)'
  BY <1>2 DEF Comes, Shown
<1>6. \A g \in Gotos : Waits(g)' => Waits(g)
  BY DEF Waits
<1>7. QED
  BY <1>2, <1>4, <1>5, <1>6, WaitKept

LEMMA WaitStep ==
  ASSUME IInv, OwnInv, WaitInv, [Next]_vars
  PROVE  WaitInv'
<1>1. CASE OnNavigationStarted
  <2>1. Take("started") /\ UNCHANGED <<target, closed, navs, committed, pc, slot,
          navWaiters>>
    BY <1>1 DEF OnNavigationStarted, browserVars, gotoVars, waiterVars
  <2>2. \A g \in Gotos : Waits(g)' => Waits(g)
    BY <2>1 DEF Waits
  <2>3. QED
    BY <2>1, <2>2, WaitTaken
<1>2. CASE OnRequestWillBeSent
  <2>1. Take("request") /\ UNCHANGED <<target, closed, navs, committed, pc, slot,
          navWaiters>>
    BY <1>2 DEF OnRequestWillBeSent, browserVars, gotoVars, waiterVars
  <2>2. \A g \in Gotos : Waits(g)' => Waits(g)
    BY <2>1 DEF Waits
  <2>3. QED
    BY <2>1, <2>2, WaitTaken
<1>3. CASE OnResponseReceived
  <2>1. Take("response") /\ UNCHANGED <<target, closed, navs, committed, pc, slot,
          navWaiters>>
    BY <1>3 DEF OnResponseReceived, browserVars, gotoVars, waiterVars
  <2>2. \A g \in Gotos : Waits(g)' => Waits(g)
    BY <2>1 DEF Waits
  <2>3. QED
    BY <2>1, <2>2, WaitTaken
<1>4. CASE OnRequestDone
  <2>1. Take("done") /\ UNCHANGED <<target, closed, navs, committed, pc, slot,
          navWaiters>>
    BY <1>4 DEF OnRequestDone, browserVars, gotoVars, waiterVars
  <2>2. \A g \in Gotos : Waits(g)' => Waits(g)
    BY <2>1 DEF Waits
  <2>3. QED
    BY <2>1, <2>2, WaitTaken
<1>5. CASE OnNavigationCommitted
  BY <1>5, WaitCommitted
<1>6. CASE OnDOMContentLoaded
  <2>1. Take("DOMContentLoaded") /\ UNCHANGED <<target, closed, navs, committed, pc,
          slot, navWaiters>>
    BY <1>6 DEF OnDOMContentLoaded, browserVars, gotoVars, waiterVars
  <2>2. \A g \in Gotos : Waits(g)' => Waits(g)
    BY <2>1 DEF Waits
  <2>3. QED
    BY <2>1, <2>2, WaitTaken
<1>7. CASE OnLoad
  BY <1>7, WaitLoad
<1>8. CASE OnNavigationAborted
  <2>1. /\ Take("aborted") /\ UNCHANGED <<target, closed, navs, committed, pc>>
        /\ \/ \E S \in SUBSET navWaiters :
             /\ slot' = [g \in Gotos |-> IF g \in S THEN "aborted" ELSE slot[g]]
                                           /\ navWaiters' = navWaiters \ S
           \/ UNCHANGED <<navWaiters, slot>>
    BY <1>8 DEF OnNavigationAborted, Fulfil, browserVars, gotoVars
  <2>2. \A g \in Gotos : Waits(g)' => Waits(g)
          /\ (g \in navWaiters => g \in navWaiters')
    BY <2>1, NoneAssumption DEF Waits
  <2>3. QED
    BY <2>1, <2>2, WaitTaken
<1>9. CASE OnReply
  <2>1. (Take("reply") \/ Take("error"))
          /\ UNCHANGED <<target, closed, navs, committed, pc, slot, navWaiters>>
    BY <1>9 DEF OnReply, browserVars, gotoVars, waiterVars
  <2>2. \A g \in Gotos : Waits(g)' => Waits(g)
    BY <2>1 DEF Waits
  <2>3. QED
    BY <2>1, <2>2, WaitTaken
<1>10. ASSUME NEW f \in Frames, PageNavigates(f) PROVE WaitInv'
  <2>1. PICK u \in Urls : Start(f, u, None)
    BY <1>10 DEF PageNavigates
  <2>2. UNCHANGED <<target, closed, pc, slot, navWaiters, committed>>
    BY <1>10 DEF PageNavigates, ClientUnchanged, gotoVars, waiterVars
  <2>3. QED
    BY <2>1, <2>2, WaitStarted
<1>11. ASSUME NEW g \in Gotos, Navigate(g) PROVE WaitInv'
  <2>1. Start("main", target[g], g) /\ target[g] \in Urls /\ "main" \in Frames
    BY <1>11 DEF Navigate, IInv, TypeOK, Frames
  <2>2. UNCHANGED <<target, closed, pc, slot, navWaiters, committed>>
    BY <1>11 DEF Navigate, ClientUnchanged, gotoVars, waiterVars
  <2>3. QED
    BY <2>1, <2>2, WaitStarted
<1>12. ASSUME NEW g \in Gotos, NavigateNowhere(g) PROVE WaitInv'
  <2>1. UNCHANGED <<target, closed, wire, navs, committed, pc, slot, navWaiters>>
    BY <1>12 DEF NavigateNowhere, browserVars, waiterVars, gotoVars, vars,
       ClientUnchanged
  <2>2. \A h \in Gotos : Waits(h)' => Waits(h)
    BY <2>1 DEF Waits
  <2>3. QED
    BY <2>1, <2>2, WaitSame
<1>13. CASE Reply
  <2>1. PICK m \in owed : Emit(<<m>>)
    BY <1>13 DEF Reply
  <2>2. m \in Message /\ m.t \in {"reply", "error"}
    BY <2>1 DEF IInv, TypeOK, WireInv
  <2>3. /\ Grows /\ wire'[Len(wire) + 1] = m
        /\ \A i \in 1..Len(wire') : i \in 1..Len(wire) \/ i = Len(wire) + 1
    BY <2>1, <2>2, OneSent
  <2>4. UNCHANGED <<target, closed, navs, committed, pc, slot, navWaiters>>
    BY <1>13 DEF Reply, ClientUnchanged, gotoVars, waiterVars
  <2>5. \A n : Near("committed", n, 0) /\ Near("load", n, 0)
    BY <2>2, <2>3, GrownNear
  <2>6. \A n, g : Comes(n, g) => Comes(n, g)'
    BY <2>4, <2>5, ComesKept
  <2>7. \A g \in Gotos : Waits(g)' => Waits(g)
    BY <2>4 DEF Waits
  <2>8. QED
    BY <2>4, <2>6, <2>7, WaitKept
<1>14. CASE Close
  <2>1. closed' /\ UNCHANGED <<navWaiters, pc, slot>>
    BY <1>14 DEF Close, ClientUnchanged, gotoVars, waiterVars
  <2>2. QED
    BY <2>1 DEF WaitInv, Waits
<1>15. ASSUME NEW n \in 1..Len(navs), Respond(n) PROVE WaitInv'
  <2>1. Moved(n, "responded")
    BY <1>15, MovedIs DEF Respond
  <2>2. UNCHANGED <<target, closed, pc, slot, navWaiters, committed>>
    BY <1>15 DEF Respond, ClientUnchanged, gotoVars, waiterVars
  <2>3. Emit(<<Msg("response", n), Msg("done", n)>>)
    BY <1>15 DEF Respond
  <2>4. "response" \in Kinds /\ "done" \in Kinds
    BY DEF Kinds
  <2>5. Grows /\ \A i \in 1..Len(wire') : i \in 1..Len(wire) \/ wire'[i].n = n
    BY <2>3, <2>4, ReportIs
  <2>6. \A g : Comes(n, g)'
    BY <2>1 DEF Comes, Shown, Moved
  <2>7. QED
    BY <2>1, <2>2, <2>5, <2>6, WaitMoved
<1>16. ASSUME NEW n \in 1..Len(navs), Abort(n) PROVE WaitInv'
  <2>1. Moved(n, "aborted")
    BY <1>16, MovedIs DEF Abort
  <2>2. UNCHANGED <<target, closed, pc, slot, navWaiters, committed>>
    BY <1>16 DEF Abort, ClientUnchanged, gotoVars, waiterVars
  <2>3. Emit(<<Msg("done", n), Msg("aborted", n)>>) \/ Emit(<<Msg("aborted", n)>>)
    BY <1>16 DEF Abort
  <2>4. "done" \in Kinds /\ "aborted" \in Kinds
    BY DEF Kinds
  <2>5. Grows /\ \A i \in 1..Len(wire') : i \in 1..Len(wire) \/ wire'[i].n = n
    BY <2>3, <2>4, ReportIs
  <2>6. \A g : Comes(n, g)'
    BY <2>1 DEF Comes, Shown, Moved
  <2>7. QED
    BY <2>1, <2>2, <2>5, <2>6, WaitMoved
<1>17. ASSUME NEW n \in 1..Len(navs), Commit(n) PROVE WaitInv'
  <2>1. Moved(n, "committed")
    BY <1>17, MovedIs DEF Commit
  <2>2. UNCHANGED <<target, closed, pc, slot, navWaiters, committed>>
    BY <1>17 DEF Commit, ClientUnchanged, gotoVars, waiterVars
  <2>3. Emit(<<Msg("committed", n)>>)
    BY <1>17 DEF Commit
  <2>4. "committed" \in Kinds
    BY DEF Kinds
  <2>5. Grows /\ \A i \in 1..Len(wire') : i \in 1..Len(wire) \/ wire'[i].n = n
    BY <2>3, <2>4, ReportIs
  <2>6. PICK k : k = Len(wire) + 1
    OBVIOUS
  <2>7. k \in 1..Len(wire') /\ Is(k, "committed", n)'
    <3>1. /\ Grows /\ Len(wire') = Len(wire) + 1
          /\ wire'[Len(wire) + 1].t = "committed" /\ wire'[Len(wire) + 1].n = n
      BY <2>3, <2>4, ReportIs
    <3>2. QED
      BY <2>6, <3>1 DEF Is, Grows
  <2>8. \A g : Comes(n, g)'
    BY <2>1, <2>7 DEF Comes, Moved, Sent, Is
  <2>9. QED
    BY <2>1, <2>2, <2>5, <2>8, WaitMoved
<1>ready. ASSUME NEW n \in 1..Len(navs), Ready(n) PROVE WaitInv'
  <2>1. Moved(n, "interactive") /\ navs[n].st = "committed"
    BY <1>ready, MovedIs DEF Ready
  <2>2. UNCHANGED <<target, closed, pc, slot, navWaiters, committed>>
    BY <1>ready DEF Ready, ClientUnchanged, gotoVars, waiterVars
  <2>3. Emit(<<Msg("DOMContentLoaded", n)>>)
    BY <1>ready DEF Ready
  <2>4. "DOMContentLoaded" \in Kinds
    BY DEF Kinds
  <2>5. Grows /\ \A i \in 1..Len(wire') : i \in 1..Len(wire) \/ wire'[i].n = n
    BY <2>3, <2>4, ReportIs
  <2>6. Sent("committed", n) => Sent("committed", n)'
    BY <2>5 DEF Sent, Is, Grows
  <2>7. \A g : Comes(n, g) => Comes(n, g)'
    BY <2>1, <2>2, <2>6 DEF Comes, Shown, Moved
  <2>8. QED
    BY <2>1, <2>2, <2>5, <2>7, WaitMoved
<1>18. ASSUME NEW n \in 1..Len(navs), Load(n) PROVE WaitInv'
  <2>1. Moved(n, "loaded") /\ navs[n].st = "interactive"
    BY <1>18, MovedIs DEF Load
  <2>2. UNCHANGED <<target, closed, pc, slot, navWaiters, committed>>
    BY <1>18 DEF Load, ClientUnchanged, gotoVars, waiterVars
  <2>3. Emit(<<Msg("load", n)>>)
    BY <1>18 DEF Load
  <2>4. "load" \in Kinds
    BY DEF Kinds
  <2>5. Grows /\ \A i \in 1..Len(wire') : i \in 1..Len(wire) \/ wire'[i].n = n
    BY <2>3, <2>4, ReportIs
  <2>6. PICK k : k = Len(wire) + 1
    OBVIOUS
  <2>7. /\ k \in 1..Len(wire') /\ Is(k, "load", n)'
        /\ \A j \in 1..Len(wire') : wire'[j].t = "committed" => j < k
    <3>1. /\ Grows /\ Len(wire') = Len(wire) + 1
          /\ wire'[Len(wire) + 1].t = "load" /\ wire'[Len(wire) + 1].n = n
          /\ \A i \in 1..Len(wire') : i \in 1..Len(wire) \/ i = Len(wire) + 1
      BY <2>3, <2>4, ReportIs
    <3>2. k \in 1..Len(wire') /\ wire'[k].t = "load" /\ wire'[k].n = n
      BY <2>6, <3>1 DEF Grows
    <3>3. \A j \in 1..Len(wire') : wire'[j].t = "committed" => j \in 1..Len(wire)
      BY <3>1
    <3>4. QED
      BY <2>6, <3>1, <3>2, <3>3 DEF Is, Grows
  <2>8. Loaded(n)'
    BY <2>7 DEF Loaded, Is
  <2>9. Sent("committed", n) => Sent("committed", n)'
    BY <2>5 DEF Sent, Is, Grows
  <2>10. \A g : Comes(n, g) => Comes(n, g)'
    BY <2>1, <2>2, <2>8, <2>9 DEF Comes, Shown, Loaded
  <2>11. QED
    BY <2>1, <2>2, <2>5, <2>10, WaitMoved
<1>19. ASSUME NEW g \in Gotos, BeginGoto(g) PROVE WaitInv'
  <2>1. /\ UNCHANGED <<target, closed, wire, navs, committed, slot>> /\ pc[g] = "idle"
          /\ pc \in [Gotos -> {"idle", "calling", "pin", "wait", "returned"}]
        /\ pc' = [pc EXCEPT ![g] = "calling"] /\ navWaiters' = navWaiters \cup {g}
    BY <1>19 DEF BeginGoto, gotoVars, waiterVars, IInv, TypeOK
  <2>2. \A n \in 1..Len(navs) : navs[n].by # g
    BY <2>1 DEF OwnInv
  <2>3. \A n, h : Comes(n, h) => Comes(n, h)'
    BY <2>1 DEF Comes, Sent, Is
  <2>4. \A h \in Gotos : h # g /\ Waits(h)' => Waits(h)
    BY <2>1 DEF Waits
  <2>5. ASSUME NEW h \in Gotos, Waits(h)'
        PROVE  /\ h \in navWaiters'
               /\ ~closed' /\ target'[h] # Blank =>
                    \A n \in 1..Len(navs') : navs'[n].by = h => Comes(n, h)'
    <3>1. CASE h = g
      BY <2>1, <2>2, <3>1
    <3>2. CASE h # g
      BY <2>1, <2>3, <2>4, <2>5, <3>2 DEF WaitInv
    <3>3. QED
      BY <3>1, <3>2
  <2>6. QED
    BY <2>5 DEF WaitInv
<1>20. ASSUME NEW g \in Gotos, CallFails(g) PROVE WaitInv'
  <2>1. /\ UNCHANGED <<target, closed, wire, navs, committed>>
          /\ pc \in [Gotos -> {"idle", "calling", "pin", "wait", "returned"}]
        /\ pc' = [pc EXCEPT ![g] = "returned"] /\ navWaiters' = navWaiters \ {g}
        /\ UNCHANGED slot /\ pc[g] \in {"calling", "pin", "wait"}
        /\ slot \in [Gotos -> {None, "ok", "aborted"}]
    BY <1>20 DEF CallFails, Return, browserVars, waiterVars, IInv, TypeOK
  <2>2. \A h \in Gotos : Waits(h)' => Waits(h)
          /\ (h \in navWaiters => h \in navWaiters')
    BY <2>1 DEF Waits
  <2>3. QED
    BY <2>1, <2>2, WaitSame
<1>21. ASSUME NEW g \in Gotos, CallReturns(g) PROVE WaitInv'
  <2>1. /\ UNCHANGED <<target, closed, wire, navs, committed>>
          /\ pc \in [Gotos -> {"idle", "calling", "pin", "wait", "returned"}]
        /\ pc' = [pc EXCEPT ![g] = "pin"] /\ navWaiters' = navWaiters
        /\ UNCHANGED slot /\ pc[g] \in {"calling", "pin", "wait"}
        /\ slot \in [Gotos -> {None, "ok", "aborted"}]
    BY <1>21 DEF CallReturns, Return, browserVars, waiterVars, IInv, TypeOK
  <2>2. \A h \in Gotos : Waits(h)' => Waits(h)
          /\ (h \in navWaiters => h \in navWaiters')
    BY <2>1 DEF Waits
  <2>3. QED
    BY <2>1, <2>2, WaitSame
<1>22. ASSUME NEW g \in Gotos, PinNavID(g) PROVE WaitInv'
  <2>1. /\ UNCHANGED <<target, closed, wire, navs, committed>>
          /\ pc \in [Gotos -> {"idle", "calling", "pin", "wait", "returned"}]
        /\ pc' = [pc EXCEPT ![g] = "wait"] /\ navWaiters' = navWaiters
        /\ UNCHANGED slot /\ pc[g] \in {"calling", "pin", "wait"}
        /\ slot \in [Gotos -> {None, "ok", "aborted"}]
    BY <1>22 DEF PinNavID, Return, browserVars, waiterVars, IInv, TypeOK
  <2>2. \A h \in Gotos : Waits(h)' => Waits(h)
          /\ (h \in navWaiters => h \in navWaiters')
    BY <2>1 DEF Waits
  <2>3. QED
    BY <2>1, <2>2, WaitSame
<1>23. ASSUME NEW g \in Gotos, GotoReturns(g) PROVE WaitInv'
  <2>1. /\ UNCHANGED <<target, closed, wire, navs, committed>>
          /\ pc \in [Gotos -> {"idle", "calling", "pin", "wait", "returned"}]
        /\ pc' = [pc EXCEPT ![g] = "returned"] /\ navWaiters' = navWaiters
        /\ slot' = [slot EXCEPT ![g] = None] /\ pc[g] \in {"calling", "pin", "wait"}
        /\ slot \in [Gotos -> {None, "ok", "aborted"}]
    BY <1>23 DEF GotoReturns, Return, browserVars, waiterVars, IInv, TypeOK
  <2>2. \A h \in Gotos : Waits(h)' => Waits(h)
          /\ (h \in navWaiters => h \in navWaiters')
    BY <2>1 DEF Waits
  <2>3. QED
    BY <2>1, <2>2, WaitSame
<1>24. ASSUME NEW g \in Gotos, GotoTimesOut(g) PROVE WaitInv'
  <2>1. /\ UNCHANGED <<target, closed, wire, navs, committed>>
          /\ pc \in [Gotos -> {"idle", "calling", "pin", "wait", "returned"}]
        /\ pc' = [pc EXCEPT ![g] = "returned"] /\ navWaiters' = navWaiters \ {g}
        /\ UNCHANGED slot /\ pc[g] \in {"calling", "pin", "wait"}
        /\ slot \in [Gotos -> {None, "ok", "aborted"}]
    BY <1>24 DEF GotoTimesOut, Return, browserVars, waiterVars, IInv, TypeOK
  <2>2. \A h \in Gotos : Waits(h)' => Waits(h)
          /\ (h \in navWaiters => h \in navWaiters')
    BY <2>1 DEF Waits
  <2>3. QED
    BY <2>1, <2>2, WaitSame
<1>25. ASSUME NEW g \in Gotos, GotoSeesClosed(g) PROVE WaitInv'
  <2>1. /\ UNCHANGED <<target, closed, wire, navs, committed>>
          /\ pc \in [Gotos -> {"idle", "calling", "pin", "wait", "returned"}]
        /\ pc' = [pc EXCEPT ![g] = "returned"] /\ navWaiters' = navWaiters
        /\ UNCHANGED slot /\ pc[g] \in {"calling", "pin", "wait"}
        /\ slot \in [Gotos -> {None, "ok", "aborted"}]
    BY <1>25 DEF GotoSeesClosed, Return, browserVars, waiterVars, IInv, TypeOK
  <2>2. \A h \in Gotos : Waits(h)' => Waits(h)
          /\ (h \in navWaiters => h \in navWaiters')
    BY <2>1 DEF Waits
  <2>3. QED
    BY <2>1, <2>2, WaitSame
<1>26. ASSUME NEW g \in Gotos, Expire(g) PROVE WaitInv'
  <2>1. UNCHANGED <<target, closed, wire, navs, committed, pc, slot, navWaiters>>
    BY <1>26 DEF Expire, browserVars, waiterVars, gotoVars, vars, ClientUnchanged
  <2>2. \A h \in Gotos : Waits(h)' => Waits(h)
    BY <2>1 DEF Waits
  <2>3. QED
    BY <2>1, <2>2, WaitSame
<1>27. ASSUME NEW h \in Histories, HistoryBegin(h) PROVE WaitInv'
  <2>1. UNCHANGED <<target, closed, wire, navs, committed, pc, slot, navWaiters>>
    BY <1>27 DEF HistoryBegin, browserVars, waiterVars, gotoVars, vars, ClientUnchanged
  <2>2. \A g \in Gotos : Waits(g)' => Waits(g)
    BY <2>1 DEF Waits
  <2>3. QED
    BY <2>1, <2>2, WaitSame
<1>28. ASSUME NEW h \in Histories, HistoryGo(h) PROVE WaitInv'
  <2>1. UNCHANGED <<target, closed, wire, navs, committed, pc, slot, navWaiters>>
    BY <1>28 DEF HistoryGo, browserVars, waiterVars, gotoVars, vars, ClientUnchanged
  <2>2. \A g \in Gotos : Waits(g)' => Waits(g)
    BY <2>1 DEF Waits
  <2>3. QED
    BY <2>1, <2>2, WaitSame
<1>29. ASSUME NEW h \in Histories, HistoryPoll(h) PROVE WaitInv'
  <2>1. UNCHANGED <<target, closed, wire, navs, committed, pc, slot, navWaiters>>
    BY <1>29 DEF HistoryPoll, browserVars, waiterVars, gotoVars, vars, ClientUnchanged
  <2>2. \A g \in Gotos : Waits(g)' => Waits(g)
    BY <2>1 DEF Waits
  <2>3. QED
    BY <2>1, <2>2, WaitSame
<1>30. ASSUME NEW h \in Histories, HistoryWrite(h) PROVE WaitInv'
  <2>1. UNCHANGED <<target, closed, wire, navs, committed, pc, slot, navWaiters>>
    BY <1>30 DEF HistoryWrite, browserVars, waiterVars, gotoVars, vars, ClientUnchanged
  <2>2. \A g \in Gotos : Waits(g)' => Waits(g)
    BY <2>1 DEF Waits
  <2>3. QED
    BY <2>1, <2>2, WaitSame
<1>31. ASSUME NEW h \in Histories, HistoryGivesUp(h) PROVE WaitInv'
  <2>1. UNCHANGED <<target, closed, wire, navs, committed, pc, slot, navWaiters>>
    BY <1>31 DEF HistoryGivesUp, browserVars, waiterVars, gotoVars, vars,
       ClientUnchanged
  <2>2. \A g \in Gotos : Waits(g)' => Waits(g)
    BY <2>1 DEF Waits
  <2>3. QED
    BY <2>1, <2>2, WaitSame
<1>32. CASE UNCHANGED vars
  <2>1. UNCHANGED <<target, closed, wire, navs, committed, pc, slot, navWaiters>>
    BY <1>32 DEF vars, browserVars, waiterVars, gotoVars, vars, ClientUnchanged
  <2>2. \A g \in Gotos : Waits(g)' => Waits(g)
    BY <2>1 DEF Waits
  <2>3. QED
    BY <2>1, <2>2, WaitSame
<1>33. QED
  BY <1>1, <1>2, <1>3, <1>4, <1>5, <1>6, <1>7, <1>8, <1>9, <1>10, <1>11, <1>12, <1>13,
     <1>14, <1>15, <1>16, <1>17, <1>18, <1>ready,
     <1>19, <1>20, <1>21, <1>22, <1>23, <1>24, <1>25,
     <1>26, <1>27, <1>28, <1>29, <1>30, <1>31, <1>32
     DEF Next, Handlers, Browser, GotoStep, HistoryStep

-----------------------------------------------------------------------------
(* What is kept of the pipe, of every frame and of every Goto, together. *)
SettleInv == /\ IInv /\ ShownInv /\ ResponseInv /\ NetInv /\ FrameInv
             /\ OwnInv /\ WaitInv

LEMMA SettleInit == Init => SettleInv
<1> SUFFICES ASSUME Init PROVE SettleInv
  OBVIOUS
<1>1. IInv
  BY InitInv
<1>2. ShownInv /\ ResponseInv
  BY DEF Init, ShownInv, ResponseInv
<1>3. NetInv
  BY DEF Init, NetInv
<1>4. FrameInv
  <2>1. \A f \in Frames : current[f] = 0
    BY DEF Init
  <2>2. QED
    BY <2>1 DEF FrameInv, Frames
<1>5. OwnInv
  <2>1. Len(wire) = 0 /\ Len(navs) = 0 /\ owed = {} /\ requests = {}
    BY DEF Init
  <2>2. \A g \in Gotos : reply[g] = None /\ navID[g] = 0
    BY DEF Init
  <2>3. None \notin 1..MaxNavs
    BY NavAssumption, NoneAssumption
  <2>4. QED
    BY <2>1, <2>2, <2>3 DEF OwnInv
<1>6. WaitInv
  BY DEF Init, WaitInv, Waits
<1>7. QED
  BY <1>1, <1>2, <1>3, <1>4, <1>5, <1>6 DEF SettleInv

LEMMA SettleStep == SettleInv /\ [Next]_vars => SettleInv'
<1> SUFFICES ASSUME SettleInv, [Next]_vars PROVE SettleInv'
  OBVIOUS
<1> USE DEF SettleInv
<1>1. IInv'
  BY InvStep
<1>2. ShownInv' /\ ResponseInv' /\ NetInv'
  BY ShownStep, ResponseStep, NetStep
<1>3. FrameInv'
  BY FrameStep
<1>4. OwnInv' /\ WaitInv'
  BY OwnStep, WaitStep
<1>5. QED
  BY <1>1, <1>2, <1>3, <1>4

LEMMA SettleHolds == Spec => []SettleInv
BY SettleInit, SettleStep, PTL DEF Spec

(* Page.Goto: once every event is handled, a Goto whose document is shown   *)
(* and loaded no longer waits, in whatever order reply, commit and load    *)
(* came, unless its document is about:blank.                               *)
THEOREM LoadEventReleases == Spec => []RealLoadReleases
<1>1. SettleInv => RealLoadReleases
  <2> SUFFICES ASSUME SettleInv, NEW g \in Gotos, target[g] # Blank, Quiet,
                      pc[g] = "wait",
                      current["main"] # 0, navs[current["main"]].by = g,
                      navs[current["main"]].st = "loaded"
               PROVE  slot[g] # None
    BY DEF RealLoadReleases, LoadedDocumentReleases
  <2>1. current["main"] \in 1..Len(navs) /\ ~closed /\ Len(wire) = 0
    BY NavsAre DEF SettleInv, Quiet, Frames
  <2>2. slot[g] = None => Comes(current["main"], g)
    BY <2>1 DEF SettleInv, WaitInv, Waits
  <2>3. QED
    BY <2>1, <2>2 DEF Comes
<1>2. QED
  BY <1>1, SettleHolds, PTL

(* Page.onNavigationCommitted, onLoad, onRequest*: once every event is      *)
(* handled and unless a history navigation has begun, the URLs and load    *)
(* flags are those of the document shown; always, the requests in flight   *)
(* are the browser's then, and the response kept is one of the current     *)
(* navigation, with nothing said of its URL.                               *)
THEOREM PageCatchesUp == Spec => []PageSettles
<1>1. SettleInv => PageSettles
  <2> SUFFICES ASSUME SettleInv PROVE PageSettles
    OBVIOUS
  <2>1. lastResponse # None => lastResponse.of = mainNavID
    BY DEF SettleInv, ResponseInv
  <2>2. Quiet => Len(wire) = 0 /\ ~closed /\ \A f : NoCom(f)
    BY DEF Quiet, NoCom
  <2>3. ASSUME Quiet, NoHistory, NEW f \in Frames, current[f] # 0
        PROVE  frameUrl[f] = UrlOf(current[f])
                /\ (f = "main" => url = UrlOf(current[f]))
    BY <2>2, <2>3 DEF SettleInv, FrameInv, Shows
  <2>4. ASSUME Quiet, NoHistory, current["main"] # 0
        PROVE  /\ url = UrlOf(current["main"])
               /\ loadFired = (navs[current["main"]].st = "loaded")
               /\ domContentLoaded
                    = (navs[current["main"]].st \in {"interactive", "loaded"})
    <3>1. url = UrlOf(current["main"])
      BY <2>3, <2>4 DEF Frames
    <3>2. /\ LoadsFor(current["main"], "load", loadFired)
          /\ LoadsFor(current["main"], "DOMContentLoaded", domContentLoaded)
      BY <2>2, <2>4 DEF SettleInv, FrameInv, LoadsOf
    <3>3. \A t : ~ComesBehind(t)
      BY <2>2, <2>4 DEF ComesBehind
    <3>4. loadFired \in BOOLEAN /\ domContentLoaded \in BOOLEAN /\ NoCom("main")
      BY <2>2, <2>4 DEF SettleInv, IInv, TypeOK
    <3>5. (loadFired <=> navs[current["main"]].st = "loaded")
          /\ (domContentLoaded <=> navs[current["main"]].st \in {"interactive", "loaded"})
      BY <3>2, <3>3, <3>4 DEF LoadsFor, LoadedSt
    <3>6. QED
      BY <3>1, <3>4, <3>5
  <2>5. ASSUME Quiet
        PROVE  inflight = {n \in 1..Len(navs) : navs[n].url # Blank
                /\ navs[n].st = "started"}
    <3>1. inflight \subseteq 1..Len(navs) /\ \A n \in 1..Len(navs) : RequestsOf(n)
      BY <2>2, <2>5 DEF SettleInv, NetInv
    <3>2. \A n, t : ~Sent(t, n)
      BY <2>2, <2>5 DEF Sent
    <3>3. \A n \in 1..Len(navs) : n \in inflight <=> Pending(n)
      BY <3>1, <3>2 DEF RequestsOf
    <3>4. QED
      BY <3>1, <3>3 DEF Pending
  <2>6. QED
    BY <2>1, <2>3, <2>4, <2>5 DEF PageSettles
<1>2. QED
  BY <1>1, SettleHolds, PTL
=============================================================================
