--------------------------- MODULE PageNavProofs ---------------------------
(* What PageNav promises its callers, for any number of Gotos, history     *)
(* navigations, URLs and browser navigations and any size of pipe.         *)
EXTENDS PageNav, SequenceTheorems, TLAPS

Events == Kinds \ {"reply", "error"}

(* An event names a navigation that the browser has started, and so does   *)
(* the document a frame shows.                                             *)
Names(m, k) == m.t \in Events => m.n \in 1..k
WireInv ==
  /\ \A i \in 1..Len(wire) : Names(wire[i], Len(navs))
  /\ \A m \in owed : m.t \in {"reply", "error"}
  /\ \A f \in Frames : current[f] \in 0..Len(navs)

(* A Goto that has not begun has left no trace, and the id to pin is the   *)
(* one that a reply has brought.                                           *)
FreshInv ==
  \A g \in Gotos :
    /\ pc[g] = "idle" => /\ g \notin navWaiters /\ g \notin committed
                         /\ slot[g] = None /\ navID[g] = 0
    /\ pc[g] = "pin" => reply[g] \in 0..MaxNavs

(* What a commit leaves with the waiters it satisfies: the id it was       *)
(* matched with can no longer change.                                      *)
CommitInv ==
  \A g \in Gotos :
    /\ seen[g] \subseteq 1..Len(navs)
    /\ slot[g] = "ok" \/ result[g] = "ok" => g \in committed
    /\ g \in committed =>
         /\ navID[g] # 0 => navID[g] \in seen[g]
         /\ \E n \in seen[g] : UrlOf(n) # Blank \/ n = navID[g]

IInv == TypeOK /\ WireInv /\ FreshInv /\ ListedIsWaiting /\ CommitInv

-----------------------------------------------------------------------------
(* The pipe: what is appended, and what is taken, is named as before. *)
LEMMA EmitNames ==
  ASSUME NEW ms \in Seq(Message), NEW k \in Nat, NEW j \in Nat, k <= j,
         wire \in Seq(Message), Emit(ms),
         \A i \in 1..Len(wire) : Names(wire[i], k),
         \A i \in 1..Len(ms) : Names(ms[i], j)
  PROVE  wire' \in Seq(Message) /\ \A i \in 1..Len(wire') : Names(wire'[i], j)
<1>1. wire' = wire \o ms
  BY DEF Emit
<1>2. /\ wire \o ms \in Seq(Message)
      /\ Len(wire \o ms) = Len(wire) + Len(ms)
      /\ \A i \in 1..(Len(wire) + Len(ms)) :
           (wire \o ms)[i] = IF i <= Len(wire) THEN wire[i] ELSE ms[i - Len(wire)]
  BY ConcatProperties
<1>3. ASSUME NEW i \in 1..(Len(wire) + Len(ms)) PROVE Names((wire \o ms)[i], j)
  <2>1. Len(wire) \in Nat /\ Len(ms) \in Nat
    BY LenProperties
  <2>2. CASE i <= Len(wire)
    <3>1. Names(wire[i], k) /\ (wire \o ms)[i] = wire[i]
      BY <2>1, <2>2, <1>2
    <3> QED BY <3>1 DEF Names
  <2>3. CASE ~(i <= Len(wire))
    <3>1. i - Len(wire) \in 1..Len(ms)
      BY <2>1, <2>3
    <3>2. (wire \o ms)[i] = ms[i - Len(wire)]
      BY <2>3, <1>2
    <3> QED BY <3>1, <3>2
  <2> QED BY <2>2, <2>3
<1> QED BY <1>1, <1>2, <1>3

LEMMA TakeNames ==
  ASSUME NEW t \in Kinds, wire \in Seq(Message), navs \in Seq(Nav), WireInv, Take(t)
  PROVE  /\ wire' \in Seq(Message)
         /\ \A i \in 1..Len(wire') : Names(wire'[i], Len(navs))
         /\ N \in 0..MaxNavs
         /\ t \in Events => N \in 1..Len(navs)
<1>1. wire # <<>> /\ Head(wire).t = t /\ wire' = Tail(wire)
  BY DEF Take
<1>2. Head(wire) = wire[1] /\ 1 \in 1..Len(wire) /\ wire[1] \in Message
  BY <1>1
<1>3. wire' \in Seq(Message) /\ Len(wire') = Len(wire) - 1
      /\ \A i \in 1..Len(wire') : wire'[i] = wire[i + 1]
  BY <1>1
<1>4. \A i \in 1..Len(wire') : Names(wire'[i], Len(navs))
  <2> SUFFICES ASSUME NEW i \in 1..Len(wire') PROVE Names(wire'[i], Len(navs))
    OBVIOUS
  <2>1. i + 1 \in 1..Len(wire) /\ wire'[i] = wire[i + 1]
    BY <1>3
  <2>2. Names(wire[i + 1], Len(navs))
    BY <2>1 DEF WireInv
  <2> QED BY <2>1, <2>2
<1>5. Names(wire[1], Len(navs))
  BY <1>2 DEF WireInv
<1> QED BY <1>1, <1>2, <1>3, <1>4, <1>5 DEF Names, N, Message

-----------------------------------------------------------------------------
(* The client's half and the browser's half of the types *)
ClientTypes ==
  /\ pc \in [Gotos -> {"idle", "calling", "pin", "wait", "returned"}]
  /\ result \in [Gotos -> {"none", "ok", "aborted", "error", "ctx", "closed"}]
  /\ target \in [Gotos -> Urls]
  /\ expired \subseteq Gotos
  /\ reply \in [Gotos -> {None, Failed} \cup 0..MaxNavs]
  /\ hpc \in [Histories -> {"idle", "go", "poll", "write", "moved", "gaveUp"}]
  /\ before \in [Histories -> Urls \cup {None}]
  /\ href \in [Histories -> Urls \cup {None}]
  /\ navWaiters \subseteq Gotos /\ committed \subseteq Gotos
  /\ navID \in [Gotos -> 0..MaxNavs]
  /\ slot \in [Gotos -> {None, "ok", "aborted"}]
  /\ url \in Urls \cup {None} /\ frameUrl \in [Frames -> Urls \cup {None}]
  /\ domContentLoaded \in BOOLEAN /\ loadFired \in BOOLEAN
  /\ mainNavID \in 0..MaxNavs /\ mainNavReqID \in 0..MaxNavs
  /\ lastResponse \in Response \cup {None}
  /\ inflight \subseteq Navs
  /\ seen \in [Gotos -> SUBSET Navs]

BrowserTypes ==
  /\ requests \subseteq Gotos /\ owed \subseteq Message
  /\ wire \in Seq(Message)
  /\ navs \in Seq(Nav) /\ Len(navs) <= MaxNavs
  /\ current \in [Frames -> 0..MaxNavs]
  /\ closed \in BOOLEAN

LEMMA Halves == TypeOK <=> ClientTypes /\ BrowserTypes
  BY DEF TypeOK, ClientTypes, BrowserTypes

(* What was started keeps its place and its URL. *)
UrlsKept ==
  /\ Len(navs) <= Len(navs')
  /\ \A n \in 1..Len(navs) : navs'[n].url = navs[n].url

LEMMA UrlTyped ==
  ASSUME TypeOK, NEW n \in 0..Len(navs)
  PROVE  UrlOf(n) \in Urls
<1>1. n # 0 => navs[n] \in Nav
  BY DEF TypeOK
<1> QED BY <1>1, NavAssumption DEF UrlOf, Nav

(* A handler's message: what is left of the pipe, and the navigation. *)
LEMMA Taken ==
  ASSUME IInv, NEW t \in Kinds, Take(t), UNCHANGED browserVars
  PROVE  /\ BrowserTypes' /\ WireInv' /\ UrlsKept /\ (closed' = closed)
         /\ N \in 0..MaxNavs
         /\ t \in Events => N \in 1..Len(navs) /\ N \in Navs /\ UrlOf(N) \in Urls
<1>1. /\ wire' \in Seq(Message)
      /\ \A i \in 1..Len(wire') : Names(wire'[i], Len(navs))
      /\ N \in 0..MaxNavs /\ (t \in Events => N \in 1..Len(navs))
  BY TakeNames DEF IInv, TypeOK
<1>2. ASSUME t \in Events PROVE UrlOf(N) \in Urls /\ N \in Navs
  <2>1. N \in 0..Len(navs) /\ N \in Navs
    <3>1. N \in 1..Len(navs) /\ Len(navs) \in Nat /\ Len(navs) <= MaxNavs
      BY <1>1, <1>2 DEF IInv, TypeOK
    <3> QED BY <3>1, NavAssumption DEF Navs
  <2> QED BY <2>1, UrlTyped DEF IInv
<1>3. BrowserTypes'
  BY <1>1 DEF IInv, TypeOK, BrowserTypes, browserVars
<1>4. WireInv' /\ UrlsKept
  BY <1>1 DEF IInv, TypeOK, WireInv, browserVars, UrlsKept
<1> QED BY <1>1, <1>2, <1>3, <1>4 DEF browserVars

-----------------------------------------------------------------------------
(* The steps of the browser *)

LEMMA MoveTyped ==
  ASSUME TypeOK, NEW n \in 1..Len(navs),
         NEW st \in {"started", "responded", "aborted", "committed", "interactive", "loaded"},
         Moves(n, st)
  PROVE  navs' \in Seq(Nav) /\ Len(navs') = Len(navs) /\ UrlsKept
<1>1. navs \in Seq(Nav) /\ navs[n] \in Nav
  BY DEF TypeOK
<1>2. [navs[n] EXCEPT !.st = st] \in Nav /\ [navs[n] EXCEPT !.st = st].url = navs[n].url
  BY <1>1 DEF Nav
<1>3. navs' = [navs EXCEPT ![n] = [navs[n] EXCEPT !.st = st]]
  BY DEF Moves
<1>4. navs' \in Seq(Nav) /\ Len(navs') = Len(navs)
  BY <1>1, <1>2, <1>3
<1>5. \A m \in 1..Len(navs) : navs'[m].url = navs[m].url
  BY <1>1, <1>2, <1>3
<1> QED BY <1>1, <1>4, <1>5 DEF UrlsKept

(* One or two messages about one navigation *)
LEMMA MsgsTyped ==
  ASSUME NEW t \in Kinds, NEW t2 \in Kinds, NEW n \in 1..MaxNavs, NEW k \in Nat, n <= k
  PROVE  /\ <<Msg(t, n)>> \in Seq(Message)
         /\ <<Msg(t, n), Msg(t2, n)>> \in Seq(Message)
         /\ \A i \in 1..Len(<<Msg(t, n)>>) : Names(<<Msg(t, n)>>[i], k)
         /\ \A i \in 1..Len(<<Msg(t, n), Msg(t2, n)>>) :
               Names(<<Msg(t, n), Msg(t2, n)>>[i], k)
<1>1. \A s \in Kinds : Msg(s, n) \in Message /\ Names(Msg(s, n), k)
  BY NavAssumption DEF Msg, Message, Names
<1>2. Msg(t, n) \in Message /\ Msg(t2, n) \in Message
  BY <1>1
<1>3. Names(Msg(t, n), k) /\ Names(Msg(t2, n), k)
  BY <1>1
<1> QED BY <1>2, <1>3

LEMMA StartTyped ==
  ASSUME IInv, NEW f \in Frames, NEW u \in Urls, NEW g \in Gotos \cup {None},
         Start(f, u, g)
  PROVE  /\ navs' \in Seq(Nav) /\ Len(navs') <= MaxNavs /\ UrlsKept
         /\ wire' \in Seq(Message)
         /\ \A i \in 1..Len(wire') : Names(wire'[i], Len(navs'))
         /\ Len(navs) + 1 \in 1..MaxNavs
<1> DEFINE new == [frame |-> f, url |-> u, by |-> g, st |-> "started"]
           n == Len(navs) + 1
<1>1. navs \in Seq(Nav) /\ Len(navs) \in Nat /\ Len(navs) < MaxNavs /\ new \in Nav
      /\ navs' = Append(navs, new) /\ n \in 1..MaxNavs
  BY NavAssumption DEF IInv, TypeOK, Start, Nav
<1>2. navs' \in Seq(Nav) /\ Len(navs') = n /\ Len(navs') <= MaxNavs /\ UrlsKept
  <2>1. navs' \in Seq(Nav) /\ Len(navs') = n
    BY <1>1
  <2>2. \A m \in 1..Len(navs) : navs'[m] = navs[m]
    BY <1>1
  <2> QED BY <1>1, <2>1, <2>2, NavAssumption DEF UrlsKept
<1> DEFINE ms == IF u = Blank THEN <<Msg("started", n)>>
                 ELSE <<Msg("started", n), Msg("request", n)>>
<1>3. ms \in Seq(Message) /\ \A i \in 1..Len(ms) : Names(ms[i], n)
  <2>1. n \in Nat /\ n <= n
    BY <1>1
  <2>2. "started" \in Kinds /\ "request" \in Kinds /\ n \in 1..MaxNavs
    BY <1>1 DEF Kinds
  <2> DEFINE one == <<Msg("started", n)>>
             two == <<Msg("started", n), Msg("request", n)>>
  <2> HIDE DEF n
  <2>3. one \in Seq(Message) /\ \A i \in 1..Len(one) : Names(one[i], n)
    BY <2>1, <2>2, MsgsTyped
  <2>4. two \in Seq(Message) /\ \A i \in 1..Len(two) : Names(two[i], n)
    BY <2>1, <2>2, MsgsTyped
  <2>5. ms = one \/ ms = two
    OBVIOUS
  <2> HIDE DEF ms, one, two
  <2> QED BY <2>3, <2>4, <2>5
<1>4. Emit(ms)
  BY DEF Start
<1>5. wire \in Seq(Message) /\ \A i \in 1..Len(wire) : Names(wire[i], Len(navs))
  BY DEF IInv, TypeOK, WireInv
<1>6. wire' \in Seq(Message) /\ \A i \in 1..Len(wire') : Names(wire'[i], n)
  <2>1. n \in Nat /\ Len(navs) <= n
    BY <1>1
  <2> HIDE DEF n, ms
  <2> QED BY <1>1, <1>3, <1>4, <1>5, <2>1, EmitNames
<1> QED BY <1>1, <1>2, <1>6

(* A navigation moves and one or two messages about it are sent. *)
LEMMA ReportTyped ==
  ASSUME IInv, NEW n \in 1..Len(navs),
         NEW st \in {"started", "responded", "aborted", "committed", "interactive", "loaded"},
         Moves(n, st), NEW t \in Kinds, NEW t2 \in Kinds,
         Emit(<<Msg(t, n)>>) \/ Emit(<<Msg(t, n), Msg(t2, n)>>)
  PROVE  /\ navs' \in Seq(Nav) /\ Len(navs') <= MaxNavs /\ UrlsKept
         /\ wire' \in Seq(Message)
         /\ \A i \in 1..Len(wire') : Names(wire'[i], Len(navs'))
<1>1. navs' \in Seq(Nav) /\ Len(navs') = Len(navs) /\ UrlsKept
  BY MoveTyped DEF IInv
<1>2. Len(navs) \in Nat /\ n \in 1..MaxNavs /\ n <= Len(navs) /\ Len(navs) <= MaxNavs
  BY NavAssumption DEF IInv, TypeOK
<1>3. wire \in Seq(Message) /\ \A i \in 1..Len(wire) : Names(wire[i], Len(navs))
  BY DEF IInv, TypeOK, WireInv
<1>4. wire' \in Seq(Message) /\ \A i \in 1..Len(wire') : Names(wire'[i], Len(navs))
  <2>1. CASE Emit(<<Msg(t, n)>>)
    <3> DEFINE one == <<Msg(t, n)>>
    <3>1. one \in Seq(Message) /\ \A i \in 1..Len(one) : Names(one[i], Len(navs))
      BY <1>2, MsgsTyped
    <3> HIDE DEF one
    <3>2. Emit(one)
      BY <2>1 DEF one
    <3>3. Len(navs) <= Len(navs)
      BY <1>2
    <3> QED BY <1>2, <1>3, <3>1, <3>2, <3>3, EmitNames
  <2>2. CASE Emit(<<Msg(t, n), Msg(t2, n)>>)
    <3> DEFINE two == <<Msg(t, n), Msg(t2, n)>>
    <3>1. two \in Seq(Message) /\ \A i \in 1..Len(two) : Names(two[i], Len(navs))
      BY <1>2, MsgsTyped
    <3> HIDE DEF two
    <3>2. Emit(two)
      BY <2>2 DEF two
    <3>3. Len(navs) <= Len(navs)
      BY <1>2
    <3> QED BY <1>2, <1>3, <3>1, <3>2, <3>3, EmitNames
  <2> QED BY <2>1, <2>2
<1> QED BY <1>1, <1>2, <1>4

LEMMA BrowserStep ==
  ASSUME IInv, Browser
  PROVE  BrowserTypes' /\ WireInv' /\ UrlsKept /\ ClientUnchanged /\ (closed => closed')
<1> DEFINE Goal == BrowserTypes' /\ WireInv' /\ UrlsKept /\ ClientUnchanged
                   /\ (closed => closed')
<1>0. BrowserTypes /\ WireInv /\ target \in [Gotos -> Urls]
  BY Halves DEF IInv, TypeOK
<1> USE DEF BrowserTypes, WireInv
<1>kept. Len(navs') \in Nat /\ Len(navs) <= Len(navs') /\ current' = current
      => \A f \in Frames : current'[f] \in 0..Len(navs')
  BY <1>0
<1>1. ASSUME NEW f \in Frames, PageNavigates(f) PROVE Goal
  <2>1. PICK u \in Urls : Start(f, u, None)
    BY <1>1 DEF PageNavigates
  <2>2. /\ navs' \in Seq(Nav) /\ Len(navs') <= MaxNavs /\ UrlsKept
        /\ wire' \in Seq(Message)
        /\ \A i \in 1..Len(wire') : Names(wire'[i], Len(navs'))
    BY <2>1, StartTyped
  <2> QED BY <1>0, <1>1, <1>kept, <2>2 DEF PageNavigates, UrlsKept
<1>2. ASSUME NEW g \in Gotos, Navigate(g) PROVE Goal
  <2>1. Start("main", target[g], g) /\ target[g] \in Urls /\ "main" \in Frames
    BY <1>0, <1>2 DEF Navigate, Frames
  <2>2. /\ navs' \in Seq(Nav) /\ Len(navs') <= MaxNavs /\ UrlsKept
        /\ wire' \in Seq(Message)
        /\ \A i \in 1..Len(wire') : Names(wire'[i], Len(navs'))
        /\ Len(navs) + 1 \in 1..MaxNavs
    BY <2>1, StartTyped
  <2>3. owed' = owed \cup {[t |-> "reply", n |-> Len(navs) + 1, g |-> g]}
    BY <1>2 DEF Navigate, Owe
  <2>4. [t |-> "reply", n |-> Len(navs) + 1, g |-> g] \in Message
    BY <2>2 DEF Message, Kinds
  <2> QED BY <1>0, <1>2, <1>kept, <2>2, <2>3, <2>4 DEF Navigate, UrlsKept
<1>3. ASSUME NEW g \in Gotos, NavigateNowhere(g) PROVE Goal
  <2>1. PICK t \in {"reply", "error"} : owed' = owed \cup {[t |-> t, n |-> 0, g |-> g]}
    BY <1>3 DEF NavigateNowhere, Owe
  <2>2. [t |-> t, n |-> 0, g |-> g] \in Message
    BY NavAssumption DEF Message, Kinds
  <2>3. UrlsKept
    BY <1>0, <1>3 DEF NavigateNowhere, UrlsKept
  <2> QED BY <1>0, <1>3, <2>1, <2>2, <2>3 DEF NavigateNowhere
<1>4. ASSUME Reply PROVE Goal
  <2>1. PICK m \in owed : owed' = owed \ {m} /\ Emit(<<m>>)
    BY <1>4 DEF Reply
  <2>2. m \in Message /\ m.t \in {"reply", "error"}
    BY <1>0
  <2>3. <<m>> \in Seq(Message) /\ \A i \in 1..Len(<<m>>) : Names(<<m>>[i], Len(navs))
    BY <2>2 DEF Names, Events
  <2>4. Len(navs) \in Nat /\ Len(navs) <= Len(navs)
    BY <1>0
  <2>5. wire' \in Seq(Message) /\ \A i \in 1..Len(wire') : Names(wire'[i], Len(navs))
    BY <1>0, <2>1, <2>3, <2>4, EmitNames
  <2>6. UrlsKept
    BY <1>0, <1>4 DEF Reply, UrlsKept
  <2> QED BY <1>0, <1>4, <2>1, <2>5, <2>6 DEF Reply
<1>5. ASSUME Close PROVE Goal
  <2>1. wire' = <<>> /\ navs' = navs
    BY <1>5 DEF Close
  <2>2. UrlsKept
    BY <1>0, <2>1 DEF UrlsKept
  <2> QED BY <1>0, <1>5, <2>1, <2>2 DEF Close
<1>6. ASSUME NEW n \in 1..Len(navs), Respond(n) \/ Abort(n) \/ Commit(n) \/ Ready(n) \/ Load(n)
      PROVE Goal
  <2>1. n \in 0..MaxNavs /\ navs[n].frame \in Frames
    <3>1. navs[n] \in Nav
      BY <1>0
    <3> QED BY <1>0, <3>1, NavAssumption DEF Nav
  <2> DEFINE Reported == /\ navs' \in Seq(Nav) /\ Len(navs') <= MaxNavs /\ UrlsKept
                         /\ wire' \in Seq(Message)
                         /\ \A i \in 1..Len(wire') : Names(wire'[i], Len(navs'))
  <2>2. CASE Respond(n)
    <3>1. Moves(n, "responded") /\ Emit(<<Msg("response", n), Msg("done", n)>>)
      BY <2>2 DEF Respond
    <3>2. Reported
      BY <3>1, ReportTyped DEF Kinds
    <3> QED BY <1>0, <1>kept, <2>2, <3>2 DEF Respond, UrlsKept
  <2>3. CASE Abort(n)
    <3>1. Moves(n, "aborted")
      BY <2>3 DEF Abort
    <3>2. \/ Emit(<<Msg("done", n), Msg("aborted", n)>>)
          \/ Emit(<<Msg("aborted", n)>>)
      BY <2>3 DEF Abort
    <3>3. CASE Emit(<<Msg("done", n), Msg("aborted", n)>>)
      <4>1. Reported
        BY <3>1, <3>3, ReportTyped DEF Kinds
      <4> QED BY <1>0, <1>kept, <2>3, <4>1 DEF Abort, UrlsKept
    <3>4. CASE Emit(<<Msg("aborted", n)>>)
      <4>1. Reported
        BY <3>1, <3>4, ReportTyped DEF Kinds
      <4> QED BY <1>0, <1>kept, <2>3, <4>1 DEF Abort, UrlsKept
    <3> QED BY <3>2, <3>3, <3>4
  <2>4. CASE Commit(n)
    <3>1. Moves(n, "committed") /\ Emit(<<Msg("committed", n)>>)
      BY <2>4 DEF Commit
    <3>2. Reported
      BY <3>1, ReportTyped DEF Kinds
    <3>3. current' \in [Frames -> 0..MaxNavs]
      BY <1>0, <2>1, <2>4 DEF Commit
    <3>4. \A f \in Frames : current'[f] \in 0..Len(navs')
      BY <1>0, <2>1, <2>4, <3>2 DEF Commit, UrlsKept
    <3> QED BY <1>0, <2>4, <3>2, <3>3, <3>4 DEF Commit
  <2>5. CASE Ready(n)
    <3>1. Moves(n, "interactive") /\ Emit(<<Msg("DOMContentLoaded", n)>>)
      BY <2>5 DEF Ready
    <3>2. Reported
      BY <3>1, ReportTyped DEF Kinds
    <3> QED BY <1>0, <1>kept, <2>5, <3>2 DEF Ready, UrlsKept
  <2>6. CASE Load(n)
    <3>1. Moves(n, "loaded") /\ Emit(<<Msg("load", n)>>)
      BY <2>6 DEF Load
    <3>2. Reported
      BY <3>1, ReportTyped DEF Kinds
    <3> QED BY <1>0, <1>kept, <2>6, <3>2 DEF Load, UrlsKept
  <2> QED BY <1>6, <2>2, <2>3, <2>4, <2>5, <2>6
<1> QED BY <1>1, <1>2, <1>3, <1>4, <1>5, <1>6 DEF Browser

-----------------------------------------------------------------------------
(* The step lemmas: what every action keeps. *)

(* The client's variables keep their types. *)
LEMMA ClientStep ==
  ASSUME IInv, [Next]_vars
  PROVE  ClientTypes'
<1> USE NoneAssumption DEF ClientTypes,
      gotoVars, histVars, waiterVars, flagVars, netVars, browserVars
<1>0. ClientTypes /\ BrowserTypes /\ FreshInv /\ WireInv /\ UrlOf(current["main"]) \in Urls
  <2>1. ClientTypes /\ BrowserTypes /\ FreshInv /\ WireInv
    BY Halves DEF IInv
  <2> QED BY <2>1, UrlTyped DEF IInv, WireInv, Frames
<1> USE NavAssumption DEF BrowserTypes, Navs, Response, FreshInv
<1>1. ASSUME OnNavigationStarted PROVE ClientTypes'
  <2>1. Take("started") /\ UNCHANGED browserVars
    BY <1>1 DEF OnNavigationStarted, browserVars
  <2>2. N \in 1..Len(navs) /\ N \in Navs /\ UrlOf(N) \in Urls
    BY <2>1, Taken DEF Kinds, Events
  <2> QED BY <1>0, <1>1, <2>2 DEF OnNavigationStarted
<1>2. ASSUME OnRequestWillBeSent PROVE ClientTypes'
  <2>1. Take("request") /\ UNCHANGED browserVars
    BY <1>2 DEF OnRequestWillBeSent, browserVars
  <2>2. N \in 1..Len(navs) /\ N \in Navs /\ UrlOf(N) \in Urls
    BY <2>1, Taken DEF Kinds, Events
  <2> QED BY <1>0, <1>2, <2>2 DEF OnRequestWillBeSent
<1>3. ASSUME OnResponseReceived PROVE ClientTypes'
  <2>1. Take("response") /\ UNCHANGED browserVars
    BY <1>3 DEF OnResponseReceived, browserVars
  <2>2. N \in 1..Len(navs) /\ N \in Navs /\ UrlOf(N) \in Urls
    BY <2>1, Taken DEF Kinds, Events
  <2> QED BY <1>0, <1>3, <2>2 DEF OnResponseReceived
<1>4. ASSUME OnRequestDone PROVE ClientTypes'
  <2>1. Take("done") /\ UNCHANGED browserVars
    BY <1>4 DEF OnRequestDone, browserVars
  <2>2. N \in 1..Len(navs) /\ N \in Navs /\ UrlOf(N) \in Urls
    BY <2>1, Taken DEF Kinds, Events
  <2> QED BY <1>0, <1>4, <2>2 DEF OnRequestDone
<1>5. ASSUME OnNavigationCommitted PROVE ClientTypes'
  <2>1. Take("committed") /\ UNCHANGED browserVars
    BY <1>5 DEF OnNavigationCommitted, browserVars
  <2>2. N \in 1..Len(navs) /\ N \in Navs /\ UrlOf(N) \in Urls
    BY <2>1, Taken DEF Kinds, Events
  <2>3. navs[N].frame \in Frames
    <3>1. navs[N] \in Nav
      BY <1>0, <2>2
    <3> QED BY <3>1 DEF Nav
  <2>4. frameUrl' = [frameUrl EXCEPT ![navs[N].frame] = UrlOf(N)]
    BY <1>5 DEF OnNavigationCommitted
  <2>5. frameUrl' \in [Frames -> Urls \cup {None}]
    BY <1>0, <2>2, <2>3, <2>4
  <2>6. CASE IsMain(N)
    <3>1. /\ url' = UrlOf(N)
          /\ committed' = committed \cup {g \in navWaiters : Satisfies(g, N)}
          /\ seen' = [g \in Gotos |-> IF g \in navWaiters THEN seen[g] \cup {N} ELSE seen[g]]
      BY <1>5, <2>6 DEF OnNavigationCommitted
    <3>2. committed' \subseteq Gotos
      BY <1>0, <3>1
    <3>3. seen' \in [Gotos -> SUBSET Navs]
      BY <1>0, <2>2, <3>1
    <3>4. UNCHANGED <<gotoVars, histVars, navWaiters, navID, slot, netVars>>
      BY <1>5 DEF OnNavigationCommitted
    <3>5. domContentLoaded' \in BOOLEAN /\ loadFired' \in BOOLEAN
      BY <1>5, <2>6 DEF OnNavigationCommitted
    <3> QED BY <1>0, <2>2, <2>5, <3>1, <3>2, <3>3, <3>4, <3>5
  <2>7. CASE ~IsMain(N)
    <3>1. UNCHANGED <<gotoVars, histVars, waiterVars, url, domContentLoaded, loadFired, netVars>>
      BY <1>5, <2>7 DEF OnNavigationCommitted
    <3> QED BY <1>0, <2>5, <3>1
  <2> QED BY <2>6, <2>7
<1>6. ASSUME OnDOMContentLoaded PROVE ClientTypes'
  <2>1. Take("DOMContentLoaded") /\ UNCHANGED browserVars
    BY <1>6 DEF OnDOMContentLoaded, browserVars
  <2>2. N \in 1..Len(navs) /\ N \in Navs /\ UrlOf(N) \in Urls
    BY <2>1, Taken DEF Kinds, Events
  <2> QED BY <1>0, <1>6, <2>2 DEF OnDOMContentLoaded
<1>7. ASSUME OnLoad PROVE ClientTypes'
  <2>1. Take("load") /\ UNCHANGED browserVars
    BY <1>7 DEF OnLoad, browserVars
  <2>2. N \in 1..Len(navs) /\ N \in Navs /\ UrlOf(N) \in Urls
    BY <2>1, Taken DEF Kinds, Events
  <2>3. slot' \in [Gotos -> {None, "ok", "aborted"}] /\ navWaiters' \subseteq Gotos
    BY <1>0, <1>7 DEF OnLoad, Fulfil
  <2>4. loadFired' \in BOOLEAN /\ UNCHANGED <<gotoVars, histVars, committed, navID, seen,
                                             url, frameUrl, domContentLoaded, netVars>>
    BY <1>0, <1>7 DEF OnLoad
  <2> QED BY <1>0, <2>3, <2>4
<1>8. ASSUME OnNavigationAborted PROVE ClientTypes'
  <2>1. Take("aborted") /\ UNCHANGED browserVars
    BY <1>8 DEF OnNavigationAborted, browserVars
  <2>2. N \in 1..Len(navs) /\ N \in Navs /\ UrlOf(N) \in Urls
    BY <2>1, Taken DEF Kinds, Events
  <2>3. slot' \in [Gotos -> {None, "ok", "aborted"}] /\ navWaiters' \subseteq Gotos
    BY <1>0, <1>8 DEF OnNavigationAborted, Fulfil
  <2>4. loadFired' \in BOOLEAN /\ UNCHANGED <<gotoVars, histVars, committed, navID, seen,
                                             url, frameUrl, domContentLoaded, netVars>>
    BY <1>0, <1>8 DEF OnNavigationAborted
  <2> QED BY <1>0, <2>3, <2>4
<1>9. ASSUME OnReply PROVE ClientTypes'
  <2>1. N \in 0..MaxNavs
    <3>1. UNCHANGED browserVars /\ (Take("reply") \/ Take("error"))
      BY <1>9 DEF OnReply
    <3> QED BY <3>1, Taken DEF Kinds
  <2> DEFINE r == IF Head(wire).t = "error" THEN Failed ELSE N
             values == {None, Failed} \cup 0..MaxNavs
  <2>2. r \in values /\ reply \in [Gotos -> values]
    BY <1>0, <2>1
  <2>3. reply' = reply \/ reply' = [reply EXCEPT ![Head(wire).g] = r]
    BY <1>9 DEF OnReply
  <2> HIDE DEF r, values
  <2>4. reply' \in [Gotos -> values]
    BY <2>2, <2>3
  <2>5. UNCHANGED <<pc, result, target, expired, histVars, waiterVars, flagVars, netVars>>
    BY <1>9 DEF OnReply
  <2>6. ClientTypes
    BY <1>0
  <2> HIDE DEF Navs, Response
  <2> QED BY <2>4, <2>5, <2>6 DEF values
<1>10. ASSUME Browser PROVE ClientTypes'
  BY <1>0, <1>10, BrowserStep DEF ClientUnchanged
<1>11. ASSUME NEW g \in Gotos, GotoStep(g) PROVE ClientTypes'
  <2>1. CASE BeginGoto(g)
    BY <1>0, <2>1 DEF BeginGoto
  <2>2. CASE CallFails(g)
    BY <1>0, <2>2 DEF CallFails, Return
  <2>3. CASE CallReturns(g)
    BY <1>0, <2>3 DEF CallReturns
  <2>4. CASE PinNavID(g)
    BY <1>0, <2>4 DEF PinNavID
  <2>5. CASE GotoReturns(g)
    BY <1>0, <2>5 DEF GotoReturns, Return
  <2>6. CASE GotoTimesOut(g)
    BY <1>0, <2>6 DEF GotoTimesOut, Return
  <2>7. CASE GotoSeesClosed(g)
    BY <1>0, <2>7 DEF GotoSeesClosed, Return
  <2>8. CASE Expire(g)
    BY <1>0, <2>8 DEF Expire
  <2> QED BY <1>11, <2>1, <2>2, <2>3, <2>4, <2>5, <2>6, <2>7, <2>8 DEF GotoStep
<1>12. ASSUME NEW h \in Histories, HistoryStep(h) PROVE ClientTypes'
  <2>1. CASE HistoryBegin(h)
    BY <1>0, <2>1 DEF HistoryBegin
  <2>2. CASE HistoryGo(h)
    BY <1>0, <2>2 DEF HistoryGo
  <2>3. CASE HistoryPoll(h)
    BY <1>0, <2>3 DEF HistoryPoll
  <2>4. CASE HistoryWrite(h)
    BY <1>0, <2>4 DEF HistoryWrite
  <2>5. CASE HistoryGivesUp(h)
    BY <1>0, <2>5 DEF HistoryGivesUp
  <2> QED BY <1>12, <2>1, <2>2, <2>3, <2>4, <2>5 DEF HistoryStep
<1>13. ASSUME UNCHANGED vars PROVE ClientTypes'
  BY <1>0, <1>13 DEF vars
<1> QED BY <1>1, <1>2, <1>3, <1>4, <1>5, <1>6, <1>7,
      <1>8, <1>9, <1>10, <1>11, <1>12, <1>13 DEF Next, Handlers

(* A Goto leaves no trace before it begins. *)
LEMMA FreshStep ==
  ASSUME IInv, [Next]_vars
  PROVE  FreshInv'
<1> USE NoneAssumption DEF FreshInv,
      gotoVars, histVars, waiterVars, flagVars, netVars, browserVars
<1>0. FreshInv /\ ClientTypes
  BY Halves DEF IInv
<1> USE DEF ClientTypes
<1>1. ASSUME OnNavigationStarted PROVE FreshInv'
  <2>1. Take("started") /\ UNCHANGED browserVars
    BY <1>1 DEF OnNavigationStarted, browserVars
  <2>2. N \in 1..Len(navs) /\ N \in Navs /\ UrlOf(N) \in Urls
    BY <2>1, Taken DEF Kinds, Events
  <2> QED BY <1>0, <1>1, <2>2 DEF OnNavigationStarted
<1>2. ASSUME OnRequestWillBeSent PROVE FreshInv'
  <2>1. Take("request") /\ UNCHANGED browserVars
    BY <1>2 DEF OnRequestWillBeSent, browserVars
  <2>2. N \in 1..Len(navs) /\ N \in Navs /\ UrlOf(N) \in Urls
    BY <2>1, Taken DEF Kinds, Events
  <2> QED BY <1>0, <1>2, <2>2 DEF OnRequestWillBeSent
<1>3. ASSUME OnResponseReceived PROVE FreshInv'
  <2>1. Take("response") /\ UNCHANGED browserVars
    BY <1>3 DEF OnResponseReceived, browserVars
  <2>2. N \in 1..Len(navs) /\ N \in Navs /\ UrlOf(N) \in Urls
    BY <2>1, Taken DEF Kinds, Events
  <2> QED BY <1>0, <1>3, <2>2 DEF OnResponseReceived
<1>4. ASSUME OnRequestDone PROVE FreshInv'
  <2>1. Take("done") /\ UNCHANGED browserVars
    BY <1>4 DEF OnRequestDone, browserVars
  <2>2. N \in 1..Len(navs) /\ N \in Navs /\ UrlOf(N) \in Urls
    BY <2>1, Taken DEF Kinds, Events
  <2> QED BY <1>0, <1>4, <2>2 DEF OnRequestDone
<1>5. ASSUME OnNavigationCommitted PROVE FreshInv'
  <2>1. Take("committed") /\ UNCHANGED browserVars
    BY <1>5 DEF OnNavigationCommitted, browserVars
  <2>2. N \in 1..Len(navs) /\ N \in Navs /\ UrlOf(N) \in Urls
    BY <2>1, Taken DEF Kinds, Events
  <2> QED BY <1>0, <1>5, <2>2 DEF OnNavigationCommitted, Satisfies
<1>6. ASSUME OnDOMContentLoaded PROVE FreshInv'
  <2>1. Take("DOMContentLoaded") /\ UNCHANGED browserVars
    BY <1>6 DEF OnDOMContentLoaded, browserVars
  <2>2. N \in 1..Len(navs) /\ N \in Navs /\ UrlOf(N) \in Urls
    BY <2>1, Taken DEF Kinds, Events
  <2> QED BY <1>0, <1>6, <2>2 DEF OnDOMContentLoaded
<1>7. ASSUME OnLoad PROVE FreshInv'
  <2>1. Take("load") /\ UNCHANGED browserVars
    BY <1>7 DEF OnLoad, browserVars
  <2>2. N \in 1..Len(navs) /\ N \in Navs /\ UrlOf(N) \in Urls
    BY <2>1, Taken DEF Kinds, Events
  <2> QED BY <1>0, <1>7, <2>2 DEF OnLoad, Fulfil
<1>8. ASSUME OnNavigationAborted PROVE FreshInv'
  <2>1. Take("aborted") /\ UNCHANGED browserVars
    BY <1>8 DEF OnNavigationAborted, browserVars
  <2>2. N \in 1..Len(navs) /\ N \in Navs /\ UrlOf(N) \in Urls
    BY <2>1, Taken DEF Kinds, Events
  <2> QED BY <1>0, <1>8, <2>2 DEF OnNavigationAborted, Fulfil
<1>9. ASSUME OnReply PROVE FreshInv'
  <2>1. N \in 0..MaxNavs
    <3>1. UNCHANGED browserVars /\ (Take("reply") \/ Take("error"))
      BY <1>9 DEF OnReply
    <3> QED BY <3>1, Taken DEF Kinds
  <2> QED BY <1>0, <1>9, <2>1 DEF OnReply
<1>10. ASSUME Browser PROVE FreshInv'
  BY <1>0, <1>10, BrowserStep DEF ClientUnchanged
<1>11. ASSUME NEW g \in Gotos, GotoStep(g) PROVE FreshInv'
  <2>1. CASE BeginGoto(g)
    BY <1>0, <2>1 DEF BeginGoto
  <2>2. CASE CallFails(g)
    BY <1>0, <2>2 DEF CallFails, Return
  <2>3. CASE CallReturns(g)
    BY <1>0, <2>3 DEF CallReturns
  <2>4. CASE PinNavID(g)
    BY <1>0, <2>4 DEF PinNavID
  <2>5. CASE GotoReturns(g)
    BY <1>0, <2>5 DEF GotoReturns, Return
  <2>6. CASE GotoTimesOut(g)
    BY <1>0, <2>6 DEF GotoTimesOut, Return
  <2>7. CASE GotoSeesClosed(g)
    BY <1>0, <2>7 DEF GotoSeesClosed, Return
  <2>8. CASE Expire(g)
    BY <1>0, <2>8 DEF Expire
  <2> QED BY <1>11, <2>1, <2>2, <2>3, <2>4, <2>5, <2>6, <2>7, <2>8 DEF GotoStep
<1>12. ASSUME NEW h \in Histories, HistoryStep(h) PROVE FreshInv'
  <2>1. CASE HistoryBegin(h)
    BY <1>0, <2>1 DEF HistoryBegin
  <2>2. CASE HistoryGo(h)
    BY <1>0, <2>2 DEF HistoryGo
  <2>3. CASE HistoryPoll(h)
    BY <1>0, <2>3 DEF HistoryPoll
  <2>4. CASE HistoryWrite(h)
    BY <1>0, <2>4 DEF HistoryWrite
  <2>5. CASE HistoryGivesUp(h)
    BY <1>0, <2>5 DEF HistoryGivesUp
  <2> QED BY <1>12, <2>1, <2>2, <2>3, <2>4, <2>5 DEF HistoryStep
<1>13. ASSUME UNCHANGED vars PROVE FreshInv'
  BY <1>0, <1>13 DEF vars
<1> QED BY <1>1, <1>2, <1>3, <1>4, <1>5, <1>6, <1>7,
      <1>8, <1>9, <1>10, <1>11, <1>12, <1>13 DEF Next, Handlers

(* A waiter leaves the list as its channel is filled or its Goto returns. *)
LEMMA ListedStep ==
  ASSUME IInv, [Next]_vars
  PROVE  ListedIsWaiting'
<1> USE NoneAssumption DEF ListedIsWaiting,
      gotoVars, histVars, waiterVars, flagVars, netVars, browserVars
<1>0. ListedIsWaiting /\ FreshInv /\ ClientTypes
  BY Halves DEF IInv
<1> USE DEF ClientTypes, FreshInv
<1>1. ASSUME OnNavigationStarted PROVE ListedIsWaiting'
  <2>1. Take("started") /\ UNCHANGED browserVars
    BY <1>1 DEF OnNavigationStarted, browserVars
  <2>2. N \in 1..Len(navs) /\ N \in Navs /\ UrlOf(N) \in Urls
    BY <2>1, Taken DEF Kinds, Events
  <2> QED BY <1>0, <1>1, <2>2 DEF OnNavigationStarted
<1>2. ASSUME OnRequestWillBeSent PROVE ListedIsWaiting'
  <2>1. Take("request") /\ UNCHANGED browserVars
    BY <1>2 DEF OnRequestWillBeSent, browserVars
  <2>2. N \in 1..Len(navs) /\ N \in Navs /\ UrlOf(N) \in Urls
    BY <2>1, Taken DEF Kinds, Events
  <2> QED BY <1>0, <1>2, <2>2 DEF OnRequestWillBeSent
<1>3. ASSUME OnResponseReceived PROVE ListedIsWaiting'
  <2>1. Take("response") /\ UNCHANGED browserVars
    BY <1>3 DEF OnResponseReceived, browserVars
  <2>2. N \in 1..Len(navs) /\ N \in Navs /\ UrlOf(N) \in Urls
    BY <2>1, Taken DEF Kinds, Events
  <2> QED BY <1>0, <1>3, <2>2 DEF OnResponseReceived
<1>4. ASSUME OnRequestDone PROVE ListedIsWaiting'
  <2>1. Take("done") /\ UNCHANGED browserVars
    BY <1>4 DEF OnRequestDone, browserVars
  <2>2. N \in 1..Len(navs) /\ N \in Navs /\ UrlOf(N) \in Urls
    BY <2>1, Taken DEF Kinds, Events
  <2> QED BY <1>0, <1>4, <2>2 DEF OnRequestDone
<1>5. ASSUME OnNavigationCommitted PROVE ListedIsWaiting'
  <2>1. Take("committed") /\ UNCHANGED browserVars
    BY <1>5 DEF OnNavigationCommitted, browserVars
  <2>2. N \in 1..Len(navs) /\ N \in Navs /\ UrlOf(N) \in Urls
    BY <2>1, Taken DEF Kinds, Events
  <2> QED BY <1>0, <1>5, <2>2 DEF OnNavigationCommitted, Satisfies
<1>6. ASSUME OnDOMContentLoaded PROVE ListedIsWaiting'
  <2>1. Take("DOMContentLoaded") /\ UNCHANGED browserVars
    BY <1>6 DEF OnDOMContentLoaded, browserVars
  <2>2. N \in 1..Len(navs) /\ N \in Navs /\ UrlOf(N) \in Urls
    BY <2>1, Taken DEF Kinds, Events
  <2> QED BY <1>0, <1>6, <2>2 DEF OnDOMContentLoaded
<1>7. ASSUME OnLoad PROVE ListedIsWaiting'
  <2>1. Take("load") /\ UNCHANGED browserVars
    BY <1>7 DEF OnLoad, browserVars
  <2>2. N \in 1..Len(navs) /\ N \in Navs /\ UrlOf(N) \in Urls
    BY <2>1, Taken DEF Kinds, Events
  <2> QED BY <1>0, <1>7, <2>2 DEF OnLoad, Fulfil
<1>8. ASSUME OnNavigationAborted PROVE ListedIsWaiting'
  <2>1. Take("aborted") /\ UNCHANGED browserVars
    BY <1>8 DEF OnNavigationAborted, browserVars
  <2>2. N \in 1..Len(navs) /\ N \in Navs /\ UrlOf(N) \in Urls
    BY <2>1, Taken DEF Kinds, Events
  <2> QED BY <1>0, <1>8, <2>2 DEF OnNavigationAborted, Fulfil
<1>9. ASSUME OnReply PROVE ListedIsWaiting'
  <2>1. N \in 0..MaxNavs
    <3>1. UNCHANGED browserVars /\ (Take("reply") \/ Take("error"))
      BY <1>9 DEF OnReply
    <3> QED BY <3>1, Taken DEF Kinds
  <2> QED BY <1>0, <1>9, <2>1 DEF OnReply
<1>10. ASSUME Browser PROVE ListedIsWaiting'
  BY <1>0, <1>10, BrowserStep DEF ClientUnchanged
<1>11. ASSUME NEW g \in Gotos, GotoStep(g) PROVE ListedIsWaiting'
  <2>1. CASE BeginGoto(g)
    BY <1>0, <2>1 DEF BeginGoto
  <2>2. CASE CallFails(g)
    BY <1>0, <2>2 DEF CallFails, Return
  <2>3. CASE CallReturns(g)
    BY <1>0, <2>3 DEF CallReturns
  <2>4. CASE PinNavID(g)
    BY <1>0, <2>4 DEF PinNavID
  <2>5. CASE GotoReturns(g)
    BY <1>0, <2>5 DEF GotoReturns, Return
  <2>6. CASE GotoTimesOut(g)
    BY <1>0, <2>6 DEF GotoTimesOut, Return
  <2>7. CASE GotoSeesClosed(g)
    BY <1>0, <2>7 DEF GotoSeesClosed, Return
  <2>8. CASE Expire(g)
    BY <1>0, <2>8 DEF Expire
  <2> QED BY <1>11, <2>1, <2>2, <2>3, <2>4, <2>5, <2>6, <2>7, <2>8 DEF GotoStep
<1>12. ASSUME NEW h \in Histories, HistoryStep(h) PROVE ListedIsWaiting'
  <2>1. CASE HistoryBegin(h)
    BY <1>0, <2>1 DEF HistoryBegin
  <2>2. CASE HistoryGo(h)
    BY <1>0, <2>2 DEF HistoryGo
  <2>3. CASE HistoryPoll(h)
    BY <1>0, <2>3 DEF HistoryPoll
  <2>4. CASE HistoryWrite(h)
    BY <1>0, <2>4 DEF HistoryWrite
  <2>5. CASE HistoryGivesUp(h)
    BY <1>0, <2>5 DEF HistoryGivesUp
  <2> QED BY <1>12, <2>1, <2>2, <2>3, <2>4, <2>5 DEF HistoryStep
<1>13. ASSUME UNCHANGED vars PROVE ListedIsWaiting'
  BY <1>0, <1>13 DEF vars
<1> QED BY <1>1, <1>2, <1>3, <1>4, <1>5, <1>6, <1>7,
      <1>8, <1>9, <1>10, <1>11, <1>12, <1>13 DEF Next, Handlers

(* The commit that satisfied a waiter is never taken back. *)
LEMMA CommitStep ==
  ASSUME IInv, [Next]_vars
  PROVE  CommitInv'
<1> USE NoneAssumption DEF CommitInv,
      gotoVars, histVars, waiterVars, flagVars, netVars, browserVars
<1>0. CommitInv /\ FreshInv /\ ClientTypes /\ BrowserTypes
  BY Halves DEF IInv
<1> USE DEF ClientTypes, FreshInv, UrlOf
<1>1. ASSUME OnNavigationStarted PROVE CommitInv'
  <2>1. Take("started") /\ UNCHANGED browserVars
    BY <1>1 DEF OnNavigationStarted, browserVars
  <2>2. N \in 1..Len(navs) /\ N \in Navs /\ UrlOf(N) \in Urls
    BY <2>1, Taken DEF Kinds, Events
  <2> QED BY <1>0, <1>1, <2>2 DEF OnNavigationStarted
<1>2. ASSUME OnRequestWillBeSent PROVE CommitInv'
  <2>1. Take("request") /\ UNCHANGED browserVars
    BY <1>2 DEF OnRequestWillBeSent, browserVars
  <2>2. N \in 1..Len(navs) /\ N \in Navs /\ UrlOf(N) \in Urls
    BY <2>1, Taken DEF Kinds, Events
  <2> QED BY <1>0, <1>2, <2>2 DEF OnRequestWillBeSent
<1>3. ASSUME OnResponseReceived PROVE CommitInv'
  <2>1. Take("response") /\ UNCHANGED browserVars
    BY <1>3 DEF OnResponseReceived, browserVars
  <2>2. N \in 1..Len(navs) /\ N \in Navs /\ UrlOf(N) \in Urls
    BY <2>1, Taken DEF Kinds, Events
  <2> QED BY <1>0, <1>3, <2>2 DEF OnResponseReceived
<1>4. ASSUME OnRequestDone PROVE CommitInv'
  <2>1. Take("done") /\ UNCHANGED browserVars
    BY <1>4 DEF OnRequestDone, browserVars
  <2>2. N \in 1..Len(navs) /\ N \in Navs /\ UrlOf(N) \in Urls
    BY <2>1, Taken DEF Kinds, Events
  <2> QED BY <1>0, <1>4, <2>2 DEF OnRequestDone
<1>5. ASSUME OnNavigationCommitted PROVE CommitInv'
  <2>1. Take("committed") /\ UNCHANGED browserVars
    BY <1>5 DEF OnNavigationCommitted, browserVars
  <2>2. N \in 1..Len(navs) /\ N \in Navs /\ UrlOf(N) \in Urls
    BY <2>1, Taken DEF Kinds, Events
  <2>3. UNCHANGED <<result, navID, slot, navs>>
    BY <1>5 DEF OnNavigationCommitted
  <2>4. CASE IsMain(N)
    <3>1. /\ committed' = committed \cup {g \in navWaiters : Satisfies(g, N)}
          /\ seen' = [g \in Gotos |-> IF g \in navWaiters THEN seen[g] \cup {N} ELSE seen[g]]
      BY <1>5, <2>4 DEF OnNavigationCommitted
    <3>2. \A g \in Gotos : seen[g] \subseteq seen'[g] /\ seen'[g] \subseteq 1..Len(navs)
      BY <1>0, <2>2, <3>1
    <3>3. ASSUME NEW g \in navWaiters, Satisfies(g, N)
          PROVE  /\ navID[g] # 0 => navID[g] \in seen'[g]
                 /\ \E n \in seen'[g] : UrlOf(n) # Blank \/ n = navID[g]
      <4>1. N \in seen'[g]
        BY <1>0, <3>1
      <4> QED BY <3>3, <4>1 DEF Satisfies
    <3>4. \A n : UrlOf(n)' = UrlOf(n)
      BY <2>3
    <3>5. \A g \in Gotos : g \in committed' =>
            /\ navID'[g] # 0 => navID'[g] \in seen'[g]
            /\ \E n \in seen'[g] : UrlOf(n)' # Blank \/ n = navID'[g]
      <4> HIDE DEF UrlOf
      <4> QED BY <1>0, <2>3, <3>1, <3>2, <3>3, <3>4
    <3> HIDE DEF UrlOf
    <3> QED BY <1>0, <2>3, <3>1, <3>2, <3>5
  <2>5. CASE ~IsMain(N)
    BY <1>0, <1>5, <2>3, <2>5 DEF OnNavigationCommitted
  <2> QED BY <2>4, <2>5
<1>6. ASSUME OnDOMContentLoaded PROVE CommitInv'
  <2>1. Take("DOMContentLoaded") /\ UNCHANGED browserVars
    BY <1>6 DEF OnDOMContentLoaded, browserVars
  <2>2. N \in 1..Len(navs) /\ N \in Navs /\ UrlOf(N) \in Urls
    BY <2>1, Taken DEF Kinds, Events
  <2> QED BY <1>0, <1>6, <2>2 DEF OnDOMContentLoaded
<1>7. ASSUME OnLoad PROVE CommitInv'
  <2>1. Take("load") /\ UNCHANGED browserVars
    BY <1>7 DEF OnLoad, browserVars
  <2>2. N \in 1..Len(navs) /\ N \in Navs /\ UrlOf(N) \in Urls
    BY <2>1, Taken DEF Kinds, Events
  <2> QED BY <1>0, <1>7, <2>2 DEF OnLoad, Fulfil
<1>8. ASSUME OnNavigationAborted PROVE CommitInv'
  <2>1. Take("aborted") /\ UNCHANGED browserVars
    BY <1>8 DEF OnNavigationAborted, browserVars
  <2>2. N \in 1..Len(navs) /\ N \in Navs /\ UrlOf(N) \in Urls
    BY <2>1, Taken DEF Kinds, Events
  <2> QED BY <1>0, <1>8, <2>2 DEF OnNavigationAborted, Fulfil
<1>9. ASSUME OnReply PROVE CommitInv'
  <2>1. N \in 0..MaxNavs
    <3>1. UNCHANGED browserVars /\ (Take("reply") \/ Take("error"))
      BY <1>9 DEF OnReply
    <3> QED BY <3>1, Taken DEF Kinds
  <2> QED BY <1>0, <1>9, <2>1 DEF OnReply
<1>10. ASSUME Browser PROVE CommitInv'
  <2>1. UNCHANGED <<gotoVars, waiterVars>> /\ UrlsKept
    BY <1>10, BrowserStep DEF ClientUnchanged
  <2>2. Len(navs) \in Nat /\ Len(navs') \in Nat
    BY <1>0, <1>10, BrowserStep DEF BrowserTypes
  <2>3. \A k \in 1..Len(navs) : k \in 1..Len(navs') /\ UrlOf(k)' = UrlOf(k)
    BY <2>1, <2>2 DEF UrlsKept, UrlOf
  <2> QED BY <1>0, <2>1, <2>3
<1>11. ASSUME NEW g \in Gotos, GotoStep(g) PROVE CommitInv'
  <2>1. CASE BeginGoto(g)
    BY <1>0, <2>1 DEF BeginGoto
  <2>2. CASE CallFails(g)
    BY <1>0, <2>2 DEF CallFails, Return
  <2>3. CASE CallReturns(g)
    BY <1>0, <2>3 DEF CallReturns
  <2>4. CASE PinNavID(g)
    <3>1. /\ UNCHANGED <<result, committed, slot, seen, navs>>
          /\ g \in committed => UNCHANGED navID
          /\ \A h \in Gotos \ {g} : navID'[h] = navID[h]
      BY <1>0, <2>4 DEF PinNavID
    <3> QED BY <1>0, <3>1
  <2>5. CASE GotoReturns(g)
    BY <1>0, <2>5 DEF GotoReturns, Return
  <2>6. CASE GotoTimesOut(g)
    BY <1>0, <2>6 DEF GotoTimesOut, Return
  <2>7. CASE GotoSeesClosed(g)
    BY <1>0, <2>7 DEF GotoSeesClosed, Return
  <2>8. CASE Expire(g)
    BY <1>0, <2>8 DEF Expire
  <2> QED BY <1>11, <2>1, <2>2, <2>3, <2>4, <2>5, <2>6, <2>7, <2>8 DEF GotoStep
<1>12. ASSUME NEW h \in Histories, HistoryStep(h) PROVE CommitInv'
  <2>1. CASE HistoryBegin(h)
    BY <1>0, <2>1 DEF HistoryBegin
  <2>2. CASE HistoryGo(h)
    BY <1>0, <2>2 DEF HistoryGo
  <2>3. CASE HistoryPoll(h)
    BY <1>0, <2>3 DEF HistoryPoll
  <2>4. CASE HistoryWrite(h)
    BY <1>0, <2>4 DEF HistoryWrite
  <2>5. CASE HistoryGivesUp(h)
    BY <1>0, <2>5 DEF HistoryGivesUp
  <2> QED BY <1>12, <2>1, <2>2, <2>3, <2>4, <2>5 DEF HistoryStep
<1>13. ASSUME UNCHANGED vars PROVE CommitInv'
  BY <1>0, <1>13 DEF vars
<1> QED BY <1>1, <1>2, <1>3, <1>4, <1>5, <1>6, <1>7,
      <1>8, <1>9, <1>10, <1>11, <1>12, <1>13 DEF Next, Handlers

(* The browser's half, for the steps that are not the browser's. *)
LEMMA WireStep ==
  ASSUME IInv, [Next]_vars
  PROVE  BrowserTypes' /\ WireInv'
<1>0. BrowserTypes /\ WireInv
  BY Halves DEF IInv
<1>1. ASSUME Handlers PROVE BrowserTypes' /\ WireInv'
  <2>1. UNCHANGED browserVars
    BY <1>1 DEF Handlers, browserVars, OnNavigationStarted, OnRequestWillBeSent,
       OnResponseReceived, OnRequestDone, OnNavigationCommitted, OnDOMContentLoaded,
       OnLoad, OnNavigationAborted, OnReply
  <2>2. \E t \in Kinds : Take(t)
    BY <1>1 DEF Handlers, Kinds, OnNavigationStarted, OnRequestWillBeSent,
       OnResponseReceived, OnRequestDone, OnNavigationCommitted, OnDOMContentLoaded,
       OnLoad, OnNavigationAborted, OnReply
  <2> QED BY <2>1, <2>2, Taken
<1>2. ASSUME Browser PROVE BrowserTypes' /\ WireInv'
  BY <1>2, BrowserStep
<1>3. ASSUME NEW g \in Gotos, GotoStep(g) PROVE BrowserTypes' /\ WireInv'
  <2>1. requests' \subseteq Gotos /\ UNCHANGED <<owed, navs, current, closed, wire>>
    BY <1>0, <1>3 DEF BrowserTypes, browserVars, GotoStep, BeginGoto, CallFails, CallReturns,
       PinNavID, GotoReturns, GotoTimesOut, GotoSeesClosed, Expire
  <2> QED BY <1>0, <2>1 DEF BrowserTypes, WireInv
<1>4. ASSUME NEW h \in Histories, HistoryStep(h) PROVE BrowserTypes' /\ WireInv'
  <2>1. /\ UNCHANGED <<requests, owed, navs, closed, wire>>
        /\ \/ UNCHANGED current
           \/ \E n \in 1..Len(navs) : current' = [current EXCEPT !["main"] = n]
    BY <1>4 DEF browserVars, HistoryStep, HistoryBegin, HistoryGo, HistoryPoll,
       HistoryWrite, HistoryGivesUp
  <2>2. CASE UNCHANGED current
    BY <1>0, <2>1, <2>2 DEF BrowserTypes, WireInv
  <2>3. ASSUME NEW n \in 1..Len(navs), current' = [current EXCEPT !["main"] = n]
        PROVE BrowserTypes' /\ WireInv'
    <3>1. n \in 0..MaxNavs /\ n \in 0..Len(navs)
      BY <1>0, NavAssumption DEF BrowserTypes
    <3>2. \A f \in Frames : current'[f] = IF f = "main" THEN n ELSE current[f]
      BY <1>0, <2>3 DEF BrowserTypes
    <3> QED BY <1>0, <2>1, <2>3, <3>1, <3>2 DEF BrowserTypes, WireInv
  <2> QED BY <2>1, <2>2, <2>3
<1>5. ASSUME UNCHANGED vars PROVE BrowserTypes' /\ WireInv'
  BY <1>0, <1>5 DEF vars, browserVars, BrowserTypes, WireInv
<1> QED BY <1>1, <1>2, <1>3, <1>4, <1>5 DEF Next

LEMMA InitInv == Init => IInv
<1> SUFFICES ASSUME Init PROVE IInv
  OBVIOUS
<1> USE NavAssumption, NoneAssumption DEF Init
<1>0. 0 \in 0..MaxNavs
  BY NavAssumption
<1>1. ClientTypes
  <2>1. /\ pc \in [Gotos -> {"idle", "calling", "pin", "wait", "returned"}]
        /\ result \in [Gotos -> {"none", "ok", "aborted", "error", "ctx", "closed"}]
        /\ target \in [Gotos -> Urls]
        /\ reply \in [Gotos -> {None, Failed} \cup 0..MaxNavs]
        /\ hpc \in [Histories -> {"idle", "go", "poll", "write", "moved", "gaveUp"}]
        /\ before \in [Histories -> Urls \cup {None}]
        /\ href \in [Histories -> Urls \cup {None}]
    OBVIOUS
  <2>2. /\ navID \in [Gotos -> 0..MaxNavs]
        /\ slot \in [Gotos -> {None, "ok", "aborted"}]
        /\ frameUrl \in [Frames -> Urls \cup {None}]
        /\ seen \in [Gotos -> SUBSET Navs]
    BY <1>0
  <2>3. expired = {} /\ navWaiters = {} /\ committed = {} /\ inflight = {}
    OBVIOUS
  <2>4. /\ url = None /\ domContentLoaded = FALSE /\ loadFired = FALSE
        /\ mainNavID = 0 /\ mainNavReqID = 0 /\ lastResponse = None
    OBVIOUS
  <2> QED BY <1>0, <2>1, <2>2, <2>3, <2>4 DEF ClientTypes
<1>2. BrowserTypes
  <2>1. current \in [Frames -> 0..MaxNavs]
    BY <1>0
  <2>2. wire \in Seq(Message) /\ navs \in Seq(Nav) /\ Len(navs) <= MaxNavs
    BY NavAssumption
  <2> QED BY <2>1, <2>2 DEF BrowserTypes
<1>3. WireInv
  BY DEF WireInv
<1>4. FreshInv /\ ListedIsWaiting
  BY DEF FreshInv, ListedIsWaiting
<1>5. CommitInv
  BY DEF CommitInv
<1> QED BY <1>1, <1>2, <1>3, <1>4, <1>5, Halves DEF IInv

(* The inductive invariant of the page's navigations. *)
LEMMA InvStep == IInv /\ [Next]_vars => IInv'
<1> SUFFICES ASSUME IInv, [Next]_vars PROVE IInv'
  OBVIOUS
<1>1. TypeOK' <=> ClientTypes' /\ BrowserTypes'
  BY DEF TypeOK, ClientTypes, BrowserTypes
<1> QED BY <1>1, ClientStep, WireStep, FreshStep, ListedStep, CommitStep DEF IInv

THEOREM NavInvariant == Spec => []IInv
BY InitInv, InvStep, PTL DEF Spec

(* Every state of a page and of its Gotos has the types TypeOK gives.       *)
(* (page.go:26-77, 403-460)                                                 *)
THEOREM NavTypeCorrect == Spec => []TypeOK
<1>1. IInv => TypeOK
  BY DEF IInv
<1> QED BY <1>1, NavInvariant, PTL

(* However many Gotos wait on one page, the channel of each listed waiter   *)
(* is empty: onLoad and onNavigationAborted send under Page.mu without ever *)
(* blocking readLoop, and a Goto that has returned is on the list only when *)
(* the client is closed.  (page.go:233-260, 344-366, 403-460)               *)
THEOREM HandlersNeverBlock == Spec => []ListedIsWaiting
<1>1. IInv => ListedIsWaiting
  BY DEF IInv
<1> QED BY <1>1, NavInvariant, PTL

(* No order of reply, commits, loads and aborts releases a Goto without a   *)
(* commit that was for it.  (page.go:178-213, 233-260, 403-447)             *)
THEOREM ReleaseNeedsCommit == Spec => []ReleasedByCommit
<1>1. IInv => ReleasedByCommit
  BY DEF IInv, CommitInv, ReleasedByCommit
<1> QED BY <1>1, NavInvariant, PTL
=============================================================================
