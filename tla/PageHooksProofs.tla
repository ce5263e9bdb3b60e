--------------------------- MODULE PageHooksProofs ---------------------------
(***************************************************************************)
(* Proofs about PageHooks for any number of routes, requests, init         *)
(* scripts and dialogs, whatever the handlers do.                          *)
(***************************************************************************)
EXTENDS PageHooks, FiniteSetTheorems, TLAPS

LEMMA AsksOf ==
  /\ \A x \in Routers : x \in Procs /\ Asks(x) = {"enable"}
  /\ \A r \in Requests : r \in Procs /\ Asks(r) = Decisions
  /\ \A a \in Adders : a \in Procs /\ Asks(a) = {"setInitScripts"}
  /\ \A d \in Dialogs : d \in Procs /\ Asks(d) = {"accept", "dismiss"}
  /\ \A g \in Procs : Asks(g) \subseteq Methods
BY HooksAssumption DEF Asks, Procs, Methods, Decisions

LEMMA CallsAre ==
  ASSUME NEW ms \in Seq(Methods)
  PROVE  /\ Calls(ms) \in Seq(AnyCall) /\ Len(Calls(ms)) = Len(ms)
         /\ \A i \in 1..Len(ms) : Calls(ms)[i] = Call(ms[i]) /\ Calls(ms)[i].m = ms[i]
         /\ Calls(ms) = <<>> <=> ms = <<>>
<1>1. \A i \in 1..Len(ms) : Call(ms[i]) \in AnyCall /\ Call(ms[i]).m = ms[i]
  BY DEF AnyCall, Call
<1>2. DOMAIN ms = 1..Len(ms) /\ Calls(ms) = [i \in 1..Len(ms) |-> Call(ms[i])]
  BY DEF Calls
<1>3. QED
  BY <1>1, <1>2

(* Of some numbers up to n there is a least one. *)
LEMMA Least ==
  ASSUME NEW n \in Nat, NEW S \in SUBSET (1..n), S # {}
  PROVE  \E i \in S : \A j \in S : i <= j
<1> DEFINE Below(i) == {k \in 1..n : k <= i}
           T == {Below(i) : i \in S}
           R == StrictSubsetOrdering(1..n)
<1>1. T # {} /\ T \subseteq SUBSET (1..n)
  OBVIOUS
<1>2. IsWellFoundedOn(R, SUBSET (1..n))
  <2>1. IsFiniteSet(1..n)
    BY FS_Interval
  <2>2. FiniteSubsetsOf(1..n) = SUBSET (1..n)
    BY <2>1, FS_FiniteSubsetsOfFinite
  <2>3. QED
    BY <2>2, FS_StrictSubsetOrderingWellFounded
<1>3. \A i, j \in S : j < i => <<Below(j), Below(i)>> \in R
  <2> SUFFICES ASSUME NEW i \in S, NEW j \in S, j < i PROVE <<Below(j), Below(i)>> \in R
    OBVIOUS
  <2>1. Below(j) \subseteq Below(i) /\ i \in Below(i) /\ i \notin Below(j)
    OBVIOUS
  <2>2. Below(i) \in SUBSET (1..n) /\ Below(j) \in SUBSET (1..n)
    OBVIOUS
  <2> HIDE DEF Below
  <2>3. QED
    BY <2>1, <2>2 DEF StrictSubsetOrdering
<1> HIDE DEF R, Below
<1>4. PICK m \in T : \A y \in T : ~(<<y, m>> \in R)
  BY <1>1, <1>2, WFMin
<1>5. PICK i \in S : m = Below(i)
  BY <1>4
<1>6. \A j \in S : ~(j < i)
  BY <1>3, <1>4, <1>5
<1>7. QED
  BY <1>5, <1>6

(* The loop over the routes finds the route the request was promised to. *)
LEMMA FirstMatch ==
  ASSUME routes \in Seq(Routers), does \in [Routers -> Handlers], NEW r \in Requests
  PROVE  /\ Decides(matchRouteLocked(r)) \in Seq(Decisions)
         /\ Decides(matchRouteLocked(r)) # <<>>
         /\ Decides(matchRouteLocked(r))[1] = Wish(r)
<1>1. DOMAIN routes = 1..Len(routes)
  OBVIOUS
<1>2. CASE Owners(r) = {}
  <2>1. matchRouteLocked(r) = None
    BY <1>1, <1>2 DEF Owners, matchRouteLocked, matches
  <2>2. Decides(None) = <<"resume">> /\ Wish(r) = "resume"
    BY <1>2 DEF Decides, Wish
  <2>3. QED
    BY <2>1, <2>2 DEF Decisions
<1>3. CASE Owners(r) # {}
  <2> DEFINE IsFirst(i) == i \in Owners(r) /\ \A j \in Owners(r) : i <= j
  <2>0. Owners(r) \in SUBSET (1..Len(routes)) /\ Len(routes) \in Nat
    BY DEF Owners
  <2>1. PICK k : IsFirst(k)
    BY <1>3, <2>0, Least
  <2>2. \A i : IsFirst(i) => i = k
    BY <2>1 DEF Owners
  <2>3. (CHOOSE i \in Owners(r) : \A j \in Owners(r) : i <= j) = k
    BY <2>1, <2>2
  <2>4. \A i \in 1..Len(routes) :
          (matches(i, r) /\ \A j \in DOMAIN routes : j < i => ~matches(j, r)) <=> i = k
    BY <1>1, <2>1, <2>2 DEF Owners, matches
  <2>5. k \in 1..Len(routes) /\ matches(k, r)
    BY <2>1 DEF Owners, matches
  <2>6. matchRouteLocked(r) = routes[k]
    BY <1>1, <2>4, <2>5 DEF matchRouteLocked
  <2>7. routes[k] \in Routers /\ routes[k] # None /\ does[routes[k]] \in Seq(Decisions)
    BY <2>5, HooksAssumption
  <2>8. CASE does[routes[k]] = <<>>
    <3>1. Decides(matchRouteLocked(r)) = <<"resume">>
      BY <2>6, <2>8 DEF Decides
    <3>2. Wish(r) = "resume"
      BY <2>3, <2>8 DEF Wish
    <3>3. QED
      BY <3>1, <3>2 DEF Decisions
  <2>9. CASE does[routes[k]] # <<>>
    BY <1>3, <2>3, <2>6, <2>7, <2>9 DEF Decides, Wish
  <2>10. QED
    BY <2>8, <2>9
<1>4. QED
  BY <1>2, <1>3

-----------------------------------------------------------------------------
(* What a goroutine's steps do to it. *)

Proc == [st : {"idle", "send", "waiting", "resumed", "failed", "done"},
         todo : Seq(AnyCall), ok : BOOLEAN]

(* A goroutine whose record changes keeps what ProcsInv says of it. *)
LEMMA ProcStep ==
  ASSUME ProcsInv, NEW g \in Procs, NEW new \in Proc, proc' = [proc EXCEPT ![g] = new],
         new.st \in {"send", "waiting", "resumed", "failed"} <=> new.todo # <<>>,
         \A i \in 1..Len(new.todo) : new.todo[i].m \in Asks(g)
  PROVE  /\ ProcsInv' /\ proc'[g] = new
         /\ \A h \in Procs : h # g => proc'[h] = proc[h]
<1>1. proc \in [Procs -> Proc]
  BY DEF ProcsInv, Proc
<1>2. proc' \in [Procs -> Proc] /\ proc'[g] = new /\ \A h \in Procs : h # g
        => proc'[h] = proc[h]
  BY <1>1
<1>3. \A h \in Procs : /\ Busy(h)' <=> proc'[h].todo # <<>>
                       /\ \A i \in 1..Len(proc'[h].todo) :
                            proc'[h].todo[i].m \in Asks(h)
  BY <1>2 DEF ProcsInv, Busy
<1>4. QED
  BY <1>2, <1>3 DEF ProcsInv, Proc, Asks

LEMMA BeginStep ==
  ASSUME ProcsInv, NEW g \in Procs, NEW todo \in Seq(AnyCall), Begin(g, todo),
         \A i \in 1..Len(todo) : todo[i].m \in Asks(g)
  PROVE  /\ ProcsInv'
         /\ proc'[g].st = (IF todo = <<>> THEN "done" ELSE "send")
         /\ proc'[g].todo = todo /\ proc'[g].ok = proc[g].ok
         /\ \A h \in Procs : h # g => proc'[h] = proc[h]
<1> DEFINE s == IF todo = <<>> THEN "done" ELSE "send"
           new == [proc[g] EXCEPT !.st = s, !.todo = todo]
<1>1. proc[g] \in Proc /\ s \in {"idle", "send", "waiting", "resumed", "failed", "done"}
  BY DEF ProcsInv, Proc
<1> HIDE DEF s
<1>2. new \in Proc /\ new.st = s /\ new.todo = todo /\ new.ok = proc[g].ok
  BY <1>1 DEF Proc
<1>3. proc' = [proc EXCEPT ![g] = new]
  BY DEF Begin, ProcsInv, s
<1> HIDE DEF new
<1>4. s \in {"send", "waiting", "resumed", "failed"} <=> todo # <<>>
  BY DEF s
<1>5. QED
  BY <1>2, <1>3, <1>4, ProcStep DEF s

LEMMA SendStep ==
  ASSUME ProcsInv, NEW g \in Procs, SendCall(g)
  PROVE  /\ ProcsInv' /\ proc[g].st = "send"
         /\ proc'[g].st = "waiting" /\ proc'[g].todo = proc[g].todo
              /\ proc'[g].ok = proc[g].ok
         /\ \A h \in Procs : h # g => proc'[h] = proc[h]
         /\ proc[g].todo # <<>> /\ proc[g].todo[1] \in AnyCall
         /\ proc[g].todo[1].m \in Asks(g)
         /\ pipe' = Append(pipe, [g |-> g, do |-> proc[g].todo[1]])
<1> DEFINE new == [proc[g] EXCEPT !.st = "waiting"]
<1>1. proc[g] \in Proc
  BY DEF ProcsInv, Proc
<1>2. new \in Proc /\ new.st = "waiting" /\ new.todo = proc[g].todo
        /\ new.ok = proc[g].ok
  BY <1>1 DEF Proc
<1>3. proc' = [proc EXCEPT ![g] = new] /\ proc[g].st = "send"
  BY DEF SendCall
<1> HIDE DEF new
<1>4. proc[g].todo # <<>> /\ proc[g].todo \in Seq(AnyCall)
  BY <1>1, <1>3 DEF ProcsInv, Busy, Proc
<1>5. \A i \in 1..Len(proc[g].todo) : proc[g].todo[i].m \in Asks(g)
  BY DEF ProcsInv
<1>6. /\ Head(proc[g].todo) = proc[g].todo[1] /\ proc[g].todo[1] \in AnyCall
      /\ proc[g].todo[1].m \in Asks(g)
  BY <1>4, <1>5
<1>7. pipe' = Append(pipe, [g |-> g, do |-> proc[g].todo[1]])
  BY <1>6 DEF SendCall
<1>8. ProcsInv' /\ proc'[g] = new /\ \A h \in Procs : h # g => proc'[h] = proc[h]
  BY <1>2, <1>3, <1>4, <1>5, ProcStep
<1>9. QED
  BY <1>2, <1>3, <1>4, <1>6, <1>7, <1>8

LEMMA ReturnStep ==
  ASSUME ProcsInv, NEW g \in Procs, NEW ok \in BOOLEAN, Busy(g), Return(g, ok)
  PROVE  /\ ProcsInv'
         /\ proc[g].todo \in Seq(AnyCall) /\ proc[g].todo # <<>>
         /\ Len(proc'[g].todo) = Len(proc[g].todo) - 1
         /\ proc'[g].st = (IF Len(proc[g].todo) = 1 THEN "done" ELSE "send")
         /\ proc'[g].ok = (proc[g].ok /\ ok)
         /\ \A h \in Procs : h # g => proc'[h] = proc[h]
<1> DEFINE rest == Tail(proc[g].todo)
           s == IF rest = <<>> THEN "done" ELSE "send"
           k == proc[g].ok /\ ok
           new == [proc[g] EXCEPT !.todo = rest, !.ok = k, !.st = s]
<1>1. /\ proc[g] \in Proc /\ k \in BOOLEAN
      /\ s \in {"idle", "send", "waiting", "resumed", "failed", "done"}
  BY DEF ProcsInv, Proc
<1>2. proc[g].todo \in Seq(AnyCall) /\ proc[g].todo # <<>>
  BY DEF ProcsInv
<1>3. /\ rest \in Seq(AnyCall) /\ Len(rest) = Len(proc[g].todo) - 1
      /\ \A i \in 1..Len(rest) : rest[i] = proc[g].todo[i+1]
      /\ rest = <<>> <=> Len(proc[g].todo) = 1
  <2>1. /\ rest \in Seq(AnyCall) /\ Len(rest) = Len(proc[g].todo) - 1
        /\ \A i \in 1..Len(rest) : rest[i] = proc[g].todo[i+1]
    BY <1>2
  <2>0. rest \in Seq(AnyCall)
    BY <2>1
  <2> HIDE DEF rest
  <2>2. rest = <<>> <=> Len(rest) = 0
    BY <2>0
  <2>3. QED
    BY <1>2, <2>1, <2>2
<1>4. \A i \in 1..Len(rest) : rest[i].m \in Asks(g)
  BY <1>2, <1>3 DEF ProcsInv
<1>s. s \in {"send", "waiting", "resumed", "failed"} <=> rest # <<>>
  OBVIOUS
<1>r. s = IF Len(proc[g].todo) = 1 THEN "done" ELSE "send"
  BY <1>3
<1>6. proc' = [proc EXCEPT ![g] = new]
  BY DEF Return, ProcsInv
<1> HIDE DEF s, rest, k
<1>5. new \in Proc /\ new.st = s /\ new.todo = rest /\ new.ok = k
  BY <1>1, <1>3 DEF Proc
<1> HIDE DEF new
<1>7. ProcsInv' /\ proc'[g] = new /\ \A h \in Procs : h # g => proc'[h] = proc[h]
  BY <1>4, <1>5, <1>6, <1>s, ProcStep
<1>8. QED
  BY <1>2, <1>3, <1>5, <1>7, <1>r DEF k

LEMMA ResumeStep ==
  ASSUME ProcsInv, NEW g \in Procs, proc[g].st = "waiting",
         NEW s \in {"resumed", "failed"}, proc' = [proc EXCEPT ![g].st = s]
  PROVE  /\ ProcsInv'
         /\ proc'[g].st = s /\ proc'[g].todo = proc[g].todo
              /\ proc'[g].ok = proc[g].ok
         /\ \A h \in Procs : h # g => proc'[h] = proc[h]
<1> DEFINE new == [proc[g] EXCEPT !.st = s]
<1>1. proc[g] \in Proc
  BY DEF ProcsInv, Proc
<1>2. new \in Proc /\ new.st = s /\ new.todo = proc[g].todo
        /\ new.ok = proc[g].ok
  BY <1>1 DEF Proc
<1>3. proc' = [proc EXCEPT ![g] = new]
  OBVIOUS
<1> HIDE DEF new
<1>4. \A i \in 1..Len(proc[g].todo) : proc[g].todo[i].m \in Asks(g)
  BY DEF ProcsInv
<1>5. proc[g].todo # <<>>
  BY DEF ProcsInv, Busy
<1>6. QED
  BY <1>2, <1>3, <1>4, <1>5, ProcStep

(* The queues, and the rest of the types. *)

Msgs == [t : {"reply", "error"}, g : Procs, do : AnyCall]
          \cup [t : {"request"}, g : Requests, do : {None}]
          \cup [t : {"dialog"}, g : Dialogs, do : {None}]
          \cup [t : {"console"}, g : {None}, do : {None}]
Sent == [g : Procs, do : AnyCall]

PlainOK ==
  /\ play \in Plays /\ does \in [Routers -> Handlers]
  /\ routes \in Seq(Routers) /\ interceptEnabled \in BOOLEAN
  /\ initScripts \in Seq(Adders)
  /\ dialogHandler \in {None, "accept", "leave"}
  /\ loop \in {"free", "stalled"}
  /\ intercepts \in BOOLEAN /\ scripts \in Seq(Adders)
  /\ state \in [Requests \cup Dialogs ->
                  {"new", "held", "let go", "resume", "abort", "fulfill",
                   "open", "accept", "dismiss"}]

LEMMA TypesTogether ==
  ASSUME PlainOK, ProcsInv, QueuesInv PROVE TypeOK
<1>1. \A g \in Procs :
         /\ proc[g].st \in {"idle", "send", "waiting", "resumed", "failed", "done"}
         /\ proc[g].ok \in BOOLEAN
         /\ proc[g].todo = <<>> => proc[g].st \in {"idle", "done"}
  BY DEF ProcsInv, Busy
<1>2. \A i \in 1..Len(pipe) : pipe[i].g \in Procs
  <2>1. pipe \in Seq(Sent)
    BY DEF QueuesInv, Sent
  <2>2. \A i \in 1..Len(pipe) : pipe[i] \in Sent
    BY <2>1
  <2>3. QED
    BY <2>2 DEF Sent
<1>3. QED
  BY <1>1, <1>2 DEF PlainOK, TypeOK

LEMMA TailIs ==
  ASSUME NEW S, NEW s \in Seq(S), s # <<>>
  PROVE  /\ Head(s) = s[1] /\ s[1] \in S /\ 1 \in 1..Len(s)
         /\ Tail(s) \in Seq(S) /\ Len(Tail(s)) = Len(s) - 1 /\ Len(s) \in Nat
         /\ \A i \in 1..Len(Tail(s)) : i+1 \in 1..Len(s) /\ Tail(s)[i] = s[i+1]
OBVIOUS

LEMMA AppendIs ==
  ASSUME NEW S, NEW s \in Seq(S), NEW e \in S
  PROVE  /\ Append(s, e) \in Seq(S) /\ Len(Append(s, e)) = Len(s) + 1 /\ Len(s) \in Nat
         /\ \A i \in 1..Len(s) : Append(s, e)[i] = s[i]
         /\ Append(s, e)[Len(s) + 1] = e
OBVIOUS

LEMMA Taken ==
  ASSUME QueuesInv, NEW t, Take(t)
  PROVE  /\ Head(wire) = wire[1] /\ wire[1] \in Msgs /\ wire[1].t = t
          /\ 1 \in 1..Len(wire)
         /\ wire' \in Seq(Msgs) /\ Len(wire') = Len(wire) - 1 /\ Len(wire) \in Nat
         /\ \A i \in 1..Len(wire') : i+1 \in 1..Len(wire) /\ wire'[i] = wire[i+1]
         /\ t \in {"reply", "error"} => wire[1].g \in Procs /\ wire[1].do \in AnyCall
         /\ t = "request" => wire[1].g \in Requests
         /\ t = "dialog" => wire[1].g \in Dialogs
<1>1. wire \in Seq(Msgs) /\ wire # <<>> /\ Head(wire).t = t /\ wire' = Tail(wire)
  BY DEF Take, QueuesInv, Msgs
<1>2. /\ Head(wire) = wire[1] /\ wire[1] \in Msgs /\ 1 \in 1..Len(wire)
      /\ wire' \in Seq(Msgs) /\ Len(wire') = Len(wire) - 1 /\ Len(wire) \in Nat
      /\ \A i \in 1..Len(wire') : i+1 \in 1..Len(wire) /\ wire'[i] = wire[i+1]
  BY <1>1, TailIs
<1>3. wire[1].t = t
  BY <1>1, <1>2
<1>4. /\ t \in {"reply", "error"} => wire[1].g \in Procs /\ wire[1].do \in AnyCall
      /\ t = "request" => wire[1].g \in Requests
      /\ t = "dialog" => wire[1].g \in Dialogs
  BY <1>2, <1>3 DEF Msgs
<1>5. QED
  BY <1>2, <1>3, <1>4

LEMMA Wired ==
  ASSUME QueuesInv, NEW m \in Msgs, wire' = Append(wire, m)
  PROVE  /\ wire' \in Seq(Msgs) /\ Len(wire') = Len(wire) + 1 /\ Len(wire) \in Nat
         /\ \A i \in 1..Len(wire) : wire'[i] = wire[i]
         /\ wire'[Len(wire) + 1] = m
BY AppendIs DEF QueuesInv, Msgs

-----------------------------------------------------------------------------
(* What each action does to the goroutines. *)

LEMMA RouteProc ==
  ASSUME PlainOK, ProcsInv, NEW x \in Routers, Route(x)
  PROVE  /\ ProcsInv' /\ proc[x].st = "idle"
         /\ proc'[x].st = (IF interceptEnabled THEN "done" ELSE "send")
         /\ proc'[x].ok = proc[x].ok
         /\ \A h \in Procs : h # x => proc'[h] = proc[h]
<1>1. x \in Procs /\ Asks(x) = {"enable"}
  BY AsksOf
<1>2. <<"enable">> \in Seq(Methods) /\ Len(<<"enable">>) = 1
        /\ <<"enable">>[1] = "enable"
  BY DEF Methods
<1>3. CASE interceptEnabled
  <2> DEFINE todo == <<>>
  <2>1. Begin(x, todo)
    BY <1>3 DEF Route, NeedEnable
  <2>2. /\ todo \in Seq(AnyCall) /\ todo = <<>>
        /\ \A i \in 1..Len(todo) : todo[i].m \in Asks(x)
    OBVIOUS
  <2> HIDE DEF todo
  <2>3. /\ ProcsInv' /\ proc'[x].st = "done" /\ proc'[x].ok = proc[x].ok
        /\ \A h \in Procs : h # x => proc'[h] = proc[h]
    BY <1>1, <2>1, <2>2, BeginStep
  <2>4. QED
    BY <1>3, <2>3 DEF Route
<1>4. CASE ~interceptEnabled
  <2> DEFINE todo == Calls(<<"enable">>)
  <2>1. Begin(x, todo)
    BY <1>4 DEF Route, NeedEnable
  <2>2. /\ todo \in Seq(AnyCall) /\ todo # <<>>
        /\ \A i \in 1..Len(todo) : todo[i].m \in Asks(x)
    <3> DEFINE ms == <<"enable">>
    <3>1. \A i \in 1..Len(ms) : ms[i] \in Asks(x)
      BY <1>1
    <3>2. ms \in Seq(Methods) /\ ms # <<>>
      BY <1>2
    <3> HIDE DEF ms
    <3>3. /\ Calls(ms) \in Seq(AnyCall) /\ Calls(ms) # <<>> /\ Len(Calls(ms)) = Len(ms)
          /\ \A i \in 1..Len(ms) : Calls(ms)[i].m = ms[i]
      BY <3>2, CallsAre
    <3>4. \A i \in 1..Len(Calls(ms)) : Calls(ms)[i].m \in Asks(x)
      BY <3>1, <3>3
    <3>5. QED
      BY <3>3, <3>4 DEF ms
  <2> HIDE DEF todo
  <2>3. /\ ProcsInv' /\ proc'[x].st = "send" /\ proc'[x].ok = proc[x].ok
        /\ \A h \in Procs : h # x => proc'[h] = proc[h]
    BY <1>1, <2>1, <2>2, BeginStep
  <2>4. QED
    BY <1>4, <2>3 DEF Route
<1>5. QED
  BY <1>3, <1>4

LEMMA AddProc ==
  ASSUME PlainOK, ProcsInv, NEW a \in Adders, AddInitScript(a)
  PROVE  /\ ProcsInv' /\ proc[a].st = "idle" /\ proc'[a].st = "send"
         /\ proc'[a].todo = <<SetScripts(initScripts')>>
         /\ initScripts' \in Seq(Adders)
         /\ \A h \in Procs : h # a => proc'[h] = proc[h]
<1> DEFINE todo == <<SetScripts(initScripts')>>
<1>1. a \in Procs /\ Asks(a) = {"setInitScripts"}
  BY AsksOf
<1>2. initScripts' \in Seq(Adders)
  <2>1. initScripts \in Seq(Adders) /\ initScripts' = Append(initScripts, a)
    BY DEF PlainOK, AddInitScript
  <2>2. QED
    BY <2>1
<1>3. SetScripts(initScripts') \in AnyCall
        /\ SetScripts(initScripts').m = "setInitScripts"
  BY <1>2 DEF SetScripts, AnyCall, Methods
<1>4. Begin(a, todo) /\ proc[a].st = "idle"
  BY DEF AddInitScript
<1>5. /\ todo \in Seq(AnyCall) /\ Len(todo) = 1 /\ todo[1] = SetScripts(initScripts')
      /\ todo # <<>>
  BY <1>3
<1>6. \A i \in 1..Len(todo) : todo[i].m \in Asks(a)
  BY <1>1, <1>3, <1>5
<1> HIDE DEF todo
<1>7. /\ ProcsInv' /\ proc'[a].st = "send" /\ proc'[a].todo = todo
      /\ \A h \in Procs : h # a => proc'[h] = proc[h]
  BY <1>1, <1>4, <1>5, <1>6, BeginStep
<1>8. QED
  BY <1>2, <1>4, <1>7 DEF todo

LEMMA ReplyProc ==
  ASSUME ProcsInv, QueuesInv, OnReply
  PROVE  /\ ProcsInv' /\ wire[1].g \in Procs /\ 1 \in 1..Len(wire)
         /\ \/ proc' = proc
            \/ /\ proc[wire[1].g].st = "waiting" /\ proc[wire[1].g].todo[1] = wire[1].do
               /\ proc'[wire[1].g].st \in {"resumed", "failed"}
               /\ proc'[wire[1].g].st = "resumed" => wire[1].t = "reply"
               /\ proc'[wire[1].g].todo = proc[wire[1].g].todo
               /\ proc'[wire[1].g].ok = proc[wire[1].g].ok
               /\ \A h \in Procs : h # wire[1].g => proc'[h] = proc[h]
<1> DEFINE s(t) == IF t = "reply" THEN "resumed" ELSE "failed"
<1>1. PICK t \in {"reply", "error"} :
         /\ Take(t)
         /\ proc' = IF proc[G].st = "waiting" /\ proc[G].todo[1] = Head(wire).do
                    THEN [proc EXCEPT ![G].st = s(t)] ELSE proc
  BY DEF OnReply
<1>2. Head(wire) = wire[1] /\ wire[1].g \in Procs /\ wire[1].t = t /\ 1 \in 1..Len(wire)
  BY <1>1, Taken
<1>s. s(t) \in {"resumed", "failed"} /\ (s(t) = "resumed" => wire[1].t = "reply")
  BY <1>2
<1> HIDE DEF s
<1>3. CASE proc' = proc
  BY <1>2, <1>3 DEF ProcsInv, Busy
<1>4. CASE /\ proc[wire[1].g].st = "waiting" /\ proc[wire[1].g].todo[1] = wire[1].do
           /\ proc' = [proc EXCEPT ![wire[1].g].st = s(t)]
  BY <1>2, <1>4, <1>s, ResumeStep
<1>5. QED
  BY <1>1, <1>2, <1>3, <1>4 DEF G

LEMMA RequestProc ==
  ASSUME PlainOK, ProcsInv, QueuesInv, OnRequestWillBeSent
  PROVE  /\ ProcsInv' /\ wire[1].g \in Requests /\ wire[1].t = "request"
         /\ state[wire[1].g] # "held" => proc' = proc
         /\ state[wire[1].g] = "held" =>
              /\ proc'[wire[1].g].st = "send"
              /\ proc'[wire[1].g].todo[1] = Call(Wish(wire[1].g))
         /\ \A h \in Procs : h # wire[1].g => proc'[h] = proc[h]
<1> DEFINE r == wire[1].g
<1>1. Take("request")
  BY DEF OnRequestWillBeSent
<1>2. Head(wire) = wire[1] /\ r \in Requests /\ wire[1].t = "request"
  BY <1>1, Taken
<1>3. CASE state[r] # "held"
  <2>1. proc' = proc
    BY <1>2, <1>3 DEF OnRequestWillBeSent, G
  <2>2. ProcsInv'
    BY <2>1 DEF ProcsInv, Busy
  <2>3. QED
    BY <1>2, <1>3, <2>1, <2>2
<1>4. CASE state[r] = "held"
  <2> DEFINE ms == Decides(matchRouteLocked(r))
             todo == Calls(ms)
  <2>1. r \in Procs /\ Asks(r) = Decisions
    BY <1>2, AsksOf
  <2>2. Begin(r, todo)
    BY <1>2, <1>4 DEF OnRequestWillBeSent, G
  <2>3. routes \in Seq(Routers) /\ does \in [Routers -> Handlers]
    BY DEF PlainOK
  <2>4. ms \in Seq(Decisions) /\ ms # <<>> /\ ms[1] = Wish(r)
    BY <1>2, <2>3, FirstMatch
  <2> HIDE DEF ms, r
  <2>5. /\ ms \in Seq(Methods) /\ Len(ms) \in Nat /\ Len(ms) >= 1
        /\ \A i \in 1..Len(ms) : ms[i] \in Decisions
    BY <2>4 DEF Methods
  <2>6. /\ todo \in Seq(AnyCall) /\ Len(todo) = Len(ms) /\ todo # <<>>
        /\ \A i \in 1..Len(ms) : todo[i] = Call(ms[i]) /\ todo[i].m = ms[i]
    BY <2>4, <2>5, CallsAre
  <2> HIDE DEF todo
  <2>7. \A i \in 1..Len(todo) : todo[i].m \in Asks(r)
    BY <2>1, <2>5, <2>6
  <2>8. /\ ProcsInv' /\ proc'[r].st = "send" /\ proc'[r].todo = todo
        /\ \A h \in Procs : h # r => proc'[h] = proc[h]
    BY <2>1, <2>2, <2>6, <2>7, BeginStep
  <2>9. proc'[r].todo[1] = Call(Wish(r))
    BY <2>4, <2>5, <2>6, <2>8
  <2>10. QED
    BY <1>2, <1>4, <2>8, <2>9 DEF r
<1>5. QED
  BY <1>3, <1>4

LEMMA DialogProc ==
  ASSUME PlainOK, ProcsInv, QueuesInv, OnDialogOpened
  PROVE  /\ ProcsInv' /\ wire[1].g \in Dialogs /\ wire[1].t = "dialog"
         /\ \A h \in Procs : h # wire[1].g => proc'[h] = proc[h]
<1> DEFINE d == wire[1].g
           ms == Answers(dialogHandler)
           todo == Calls(ms)
<1>1. Take("dialog")
  BY DEF OnDialogOpened
<1>2. Head(wire) = wire[1] /\ d \in Dialogs /\ wire[1].t = "dialog"
  BY <1>1, Taken
<1>3. d \in Procs /\ Asks(d) = {"accept", "dismiss"}
  BY <1>2, AsksOf
<1>4. Begin(d, todo)
  BY <1>2 DEF OnDialogOpened, G
<1>5. ms \in {<<"dismiss">>, <<"accept">>, <<>>}
  BY DEF Answers
<1> HIDE DEF ms, d
<1>6. ms \in Seq({"accept", "dismiss"})
  <2>1. CASE ms = <<"dismiss">>
    BY <2>1
  <2>2. CASE ms = <<"accept">>
    BY <2>2
  <2>3. CASE ms = <<>>
    BY <2>3
  <2>4. QED
    BY <1>5, <2>1, <2>2, <2>3
<1>7. ms \in Seq(Methods) /\ \A i \in 1..Len(ms) : ms[i] \in {"accept", "dismiss"}
  BY <1>6 DEF Methods
<1>8. /\ todo \in Seq(AnyCall) /\ Len(todo) = Len(ms)
      /\ \A i \in 1..Len(ms) : todo[i].m = ms[i]
  BY <1>7, CallsAre
<1> HIDE DEF todo
<1>9. \A i \in 1..Len(todo) : todo[i].m \in Asks(d)
  BY <1>3, <1>7, <1>8
<1>10. ProcsInv' /\ \A h \in Procs : h # d => proc'[h] = proc[h]
  BY <1>3, <1>4, <1>8, <1>9, BeginStep
<1>11. QED
  BY <1>2, <1>10 DEF d

LEMMA ReturnsProc ==
  ASSUME ProcsInv, NEW g \in Procs, CallReturns(g) \/ CallTimesOut(g)
  PROVE  /\ ProcsInv' /\ proc[g].st \in {"waiting", "resumed", "failed"}
         /\ proc[g].todo \in Seq(AnyCall) /\ proc[g].todo # <<>>
         /\ Len(proc'[g].todo) = Len(proc[g].todo) - 1
         /\ proc'[g].st = (IF Len(proc[g].todo) = 1 THEN "done" ELSE "send")
         /\ proc'[g].ok => proc[g].st = "resumed" /\ proc[g].ok
         /\ \A h \in Procs : h # g => proc'[h] = proc[h]
<1>1. CASE CallReturns(g)
  <2> DEFINE ok == proc[g].st = "resumed"
  <2>1. Busy(g) /\ Return(g, ok) /\ proc[g].st \in {"resumed", "failed"}
    BY <1>1 DEF CallReturns, Busy
  <2>2. ok \in BOOLEAN /\ (ok => proc[g].st = "resumed")
    OBVIOUS
  <2> HIDE DEF ok
  <2>3. /\ ProcsInv'
        /\ proc[g].todo \in Seq(AnyCall) /\ proc[g].todo # <<>>
        /\ Len(proc'[g].todo) = Len(proc[g].todo) - 1
        /\ proc'[g].st = (IF Len(proc[g].todo) = 1 THEN "done" ELSE "send")
        /\ proc'[g].ok = (proc[g].ok /\ ok)
        /\ \A h \in Procs : h # g => proc'[h] = proc[h]
    BY <2>1, <2>2, ReturnStep
  <2>4. QED
    BY <2>1, <2>2, <2>3
<1>2. CASE CallTimesOut(g)
  <2>1. Busy(g) /\ Return(g, FALSE) /\ proc[g].st = "waiting"
    BY <1>2 DEF CallTimesOut, Busy
  <2>2. QED
    BY <2>1, ReturnStep
<1>3. QED
  BY <1>1, <1>2

(* A call that could not be sent returns as well. *)
LEMMA FailProc ==
  ASSUME ProcsInv, NEW g \in Procs, SendFails(g)
  PROVE  /\ ProcsInv' /\ proc[g].st = "send"
         /\ proc'[g].st = (IF Len(proc[g].todo) = 1 THEN "done" ELSE "send")
         /\ ~proc'[g].ok
         /\ \A h \in Procs : h # g => proc'[h] = proc[h]
         /\ proc[g].todo[1] \in AnyCall /\ proc[g].todo[1].m \in Asks(g)
         /\ refused' = refused \cup {[g |-> g, do |-> proc[g].todo[1]]}
<1>1. /\ proc[g].st = "send" /\ Busy(g) /\ Return(g, FALSE)
      /\ refused' = refused \cup {[g |-> g, do |-> Head(proc[g].todo)]}
  BY DEF SendFails, Busy
<1>2. /\ ProcsInv'
      /\ proc[g].todo \in Seq(AnyCall) /\ proc[g].todo # <<>>
      /\ proc'[g].st = (IF Len(proc[g].todo) = 1 THEN "done" ELSE "send")
      /\ ~proc'[g].ok
      /\ \A h \in Procs : h # g => proc'[h] = proc[h]
  BY <1>1, ReturnStep
<1>3. /\ Head(proc[g].todo) = proc[g].todo[1] /\ proc[g].todo[1] \in AnyCall
      /\ 1 \in 1..Len(proc[g].todo)
  BY <1>2, TailIs
<1>4. proc[g].todo[1].m \in Asks(g)
  BY <1>3 DEF ProcsInv
<1>5. QED
  BY <1>1, <1>2, <1>3, <1>4

-----------------------------------------------------------------------------
(* What the browser does with a call, and what it and a goroutine put in   *)
(* the queues.                                                             *)

LEMMA Served ==
  ASSUME QueuesInv, Serve
  PROVE  /\ pipe[1] \in Sent /\ pipe[1].do.m \in Asks(pipe[1].g) /\ 1 \in 1..Len(pipe)
         /\ pipe[1].g \in Procs /\ pipe[1].do \in AnyCall
         /\ pipe' \in Seq(Sent) /\ Len(pipe') = Len(pipe) - 1 /\ Len(pipe) \in Nat
         /\ \A i \in 1..Len(pipe') : i+1 \in 1..Len(pipe) /\ pipe'[i] = pipe[i+1]
         /\ wire' \in Seq(Msgs) /\ Len(wire') = Len(wire) + 1 /\ Len(wire) \in Nat
         /\ \A i \in 1..Len(wire) : wire'[i] = wire[i]
         /\ wire'[Len(wire) + 1] = [t |-> "reply", g |-> pipe[1].g, do |-> pipe[1].do]
         /\ \/ pipe[1].do.m = "enable" /\ intercepts' = TRUE
              /\ UNCHANGED <<state, scripts>>
            \/ /\ pipe[1].do.m \in Decisions /\ Put(pipe[1].g, "held", pipe[1].do.m)
               /\ UNCHANGED <<intercepts, scripts>>
            \/ /\ pipe[1].do.m \in {"accept", "dismiss"}
               /\ Put(pipe[1].g, "open", pipe[1].do.m)
                    /\ UNCHANGED <<intercepts, scripts>>
            \/ /\ pipe[1].do.m = "setInitScripts" /\ scripts' = pipe[1].do.list
               /\ UNCHANGED <<intercepts, state>>
         /\ UNCHANGED <<play, does, pageVars, proc, loop, history>>
<1>1. pipe \in Seq(Sent) /\ pipe # <<>> /\ pipe' = Tail(pipe)
  BY DEF QueuesInv, Serve, Sent
<1>2. /\ Head(pipe) = pipe[1] /\ pipe[1] \in Sent /\ 1 \in 1..Len(pipe)
      /\ pipe' \in Seq(Sent) /\ Len(pipe') = Len(pipe) - 1 /\ Len(pipe) \in Nat
      /\ \A i \in 1..Len(pipe') : i+1 \in 1..Len(pipe) /\ pipe'[i] = pipe[i+1]
  BY <1>1, TailIs
<1>3. pipe[1].do.m \in Asks(pipe[1].g)
  BY <1>2 DEF QueuesInv
<1>4. pipe[1].g \in Procs /\ pipe[1].do \in AnyCall
  BY <1>2 DEF Sent
<1> DEFINE m == [t |-> "reply", g |-> pipe[1].g, do |-> pipe[1].do]
<1>5. m \in Msgs
  BY <1>4 DEF Msgs
<1>6. wire' = Append(wire, m)
  BY <1>2 DEF Serve, Reply
<1> HIDE DEF m
<1>7. /\ wire' \in Seq(Msgs) /\ Len(wire') = Len(wire) + 1 /\ Len(wire) \in Nat
      /\ \A i \in 1..Len(wire) : wire'[i] = wire[i]
      /\ wire'[Len(wire) + 1] = m
  BY <1>5, <1>6, Wired
<1>8. /\ \/ /\ pipe[1].do.m = "enable" /\ intercepts' = TRUE
            /\ UNCHANGED <<state, scripts>>
         \/ /\ pipe[1].do.m \in Decisions /\ Put(pipe[1].g, "held", pipe[1].do.m)
            /\ UNCHANGED <<intercepts, scripts>>
         \/ /\ pipe[1].do.m \in {"accept", "dismiss"}
            /\ Put(pipe[1].g, "open", pipe[1].do.m) /\ UNCHANGED <<intercepts, scripts>>
         \/ /\ pipe[1].do.m = "setInitScripts" /\ scripts' = pipe[1].do.list
            /\ UNCHANGED <<intercepts, state>>
      /\ UNCHANGED <<play, does, pageVars, proc, loop, history>>
  BY <1>2 DEF Serve
<1>9. QED
  BY <1>2, <1>3, <1>4, <1>7, <1>8 DEF m

LEMMA Refused ==
  ASSUME QueuesInv, Refuse
  PROVE  /\ pipe[1] \in Sent /\ pipe[1].do.m \in Asks(pipe[1].g) /\ 1 \in 1..Len(pipe)
         /\ pipe[1].g \in Procs /\ pipe[1].do \in AnyCall
         /\ pipe' \in Seq(Sent) /\ Len(pipe') = Len(pipe) - 1 /\ Len(pipe) \in Nat
         /\ \A i \in 1..Len(pipe') : i+1 \in 1..Len(pipe) /\ pipe'[i] = pipe[i+1]
         /\ wire' \in Seq(Msgs) /\ Len(wire') = Len(wire) + 1 /\ Len(wire) \in Nat
         /\ \A i \in 1..Len(wire) : wire'[i] = wire[i]
         /\ wire'[Len(wire) + 1].t = "error"
         /\ refused' = refused \cup {pipe[1]}
<1>1. pipe \in Seq(Sent) /\ pipe # <<>> /\ pipe' = Tail(pipe)
  BY DEF QueuesInv, Refuse, Sent
<1>2. /\ Head(pipe) = pipe[1] /\ pipe[1] \in Sent /\ 1 \in 1..Len(pipe)
      /\ pipe' \in Seq(Sent) /\ Len(pipe') = Len(pipe) - 1 /\ Len(pipe) \in Nat
      /\ \A i \in 1..Len(pipe') : i+1 \in 1..Len(pipe) /\ pipe'[i] = pipe[i+1]
  BY <1>1, TailIs
<1>3. pipe[1].do.m \in Asks(pipe[1].g)
  BY <1>2 DEF QueuesInv
<1>4. pipe[1].g \in Procs /\ pipe[1].do \in AnyCall
  BY <1>2 DEF Sent
<1> DEFINE m == [t |-> "error", g |-> pipe[1].g, do |-> pipe[1].do]
<1>5. m \in Msgs /\ m.t = "error"
  BY <1>4 DEF Msgs
<1>6. wire' = Append(wire, m) /\ refused' = refused \cup {pipe[1]}
  BY <1>2 DEF Refuse, Reply
<1> HIDE DEF m
<1>7. /\ wire' \in Seq(Msgs) /\ Len(wire') = Len(wire) + 1 /\ Len(wire) \in Nat
      /\ \A i \in 1..Len(wire) : wire'[i] = wire[i]
      /\ wire'[Len(wire) + 1] = m
  BY <1>5, <1>6, Wired
<1>8. QED
  BY <1>2, <1>3, <1>4, <1>5, <1>6, <1>7

LEMMA Queued ==
  ASSUME ProcsInv, QueuesInv, NEW g \in Procs, SendCall(g)
  PROVE  /\ pipe' \in Seq(Sent) /\ Len(pipe') = Len(pipe) + 1 /\ Len(pipe) \in Nat
         /\ \A i \in 1..Len(pipe) : pipe'[i] = pipe[i]
         /\ pipe'[Len(pipe) + 1].g = g /\ pipe'[Len(pipe) + 1].do = proc[g].todo[1]
<1> DEFINE e == [g |-> g, do |-> proc[g].todo[1]]
<1>1. e \in Sent /\ pipe' = Append(pipe, e)
  BY SendStep DEF Sent
<1>2. pipe \in Seq(Sent) /\ e.g = g /\ e.do = proc[g].todo[1]
  BY DEF QueuesInv, Sent
<1> HIDE DEF e
<1>3. /\ pipe' \in Seq(Sent) /\ Len(pipe') = Len(pipe) + 1 /\ Len(pipe) \in Nat
      /\ \A i \in 1..Len(pipe) : pipe'[i] = pipe[i]
      /\ pipe'[Len(pipe) + 1] = e
  BY <1>1, <1>2, AppendIs
<1>4. QED
  BY <1>2, <1>3

(* What a page's step tells readLoop. *)
LEMMA Told ==
  ASSUME QueuesInv, NEW t, NEW g, [t |-> t, g |-> g, do |-> None] \in Msgs, Tell(t, g)
  PROVE  /\ wire' \in Seq(Msgs) /\ Len(wire') = Len(wire) + 1 /\ Len(wire) \in Nat
         /\ \A i \in 1..Len(wire) : wire'[i] = wire[i]
         /\ wire'[Len(wire) + 1].t = t /\ wire'[Len(wire) + 1].g = g
<1> DEFINE m == [t |-> t, g |-> g, do |-> None]
<1>1. m \in Msgs /\ wire' = Append(wire, m) /\ m.t = t /\ m.g = g
  BY DEF Tell
<1> HIDE DEF m
<1>2. /\ wire' \in Seq(Msgs) /\ Len(wire') = Len(wire) + 1 /\ Len(wire) \in Nat
      /\ \A i \in 1..Len(wire) : wire'[i] = wire[i]
      /\ wire'[Len(wire) + 1] = m
  BY <1>1, Wired
<1>3. QED
  BY <1>1, <1>2

LEMMA Tells ==
  /\ \A r \in Requests : [t |-> "request", g |-> r, do |-> None] \in Msgs
  /\ \A d \in Dialogs : [t |-> "dialog", g |-> d, do |-> None] \in Msgs
  /\ [t |-> "console", g |-> None, do |-> None] \in Msgs
BY DEF Msgs

-----------------------------------------------------------------------------
(* Type correctness *)

LEMMA ProcsStep == ASSUME PlainOK, ProcsInv, QueuesInv, [Next]_vars PROVE ProcsInv'
<1>0. UNCHANGED proc => ProcsInv'
  BY DEF ProcsInv, Busy
<1>1. ASSUME NEW x \in Routers, Route(x) PROVE ProcsInv'
  BY <1>1, RouteProc
<1>2. ASSUME NEW a \in Adders, AddInitScript(a) PROVE ProcsInv'
  BY <1>2, AddProc
<1>3. ASSUME NEW g \in Procs, SendCall(g) PROVE ProcsInv'
  BY <1>3, SendStep
<1>4. ASSUME NEW g \in Procs, CallReturns(g) PROVE ProcsInv'
  BY <1>4, ReturnsProc
<1>5. ASSUME NEW g \in Procs, CallTimesOut(g) PROVE ProcsInv'
  BY <1>5, ReturnsProc
<1>6. CASE OnReply
  BY <1>6, ReplyProc
<1>7. CASE OnRequestWillBeSent
  BY <1>7, RequestProc
<1>8. CASE OnDialogOpened
  BY <1>8, DialogProc
<1>9. CASE OnConsole
  BY <1>0, <1>9 DEF OnConsole
<1>10. CASE ConsoleTimesOut
  BY <1>0, <1>10 DEF ConsoleTimesOut
<1>11. CASE Serve
  BY <1>0, <1>11 DEF Serve
<1>12. CASE Speak
  BY <1>0, <1>12 DEF Speak
<1>13. ASSUME NEW r \in Requests, Make(r) PROVE ProcsInv'
  BY <1>0, <1>13 DEF Make
<1>14. ASSUME NEW d \in Dialogs, Open(d) PROVE ProcsInv'
  BY <1>0, <1>14 DEF Open
<1>15. ASSUME NEW h \in {None, "accept", "leave"}, OnDialog(h) PROVE ProcsInv'
  BY <1>0, <1>15 DEF OnDialog
<1>16. CASE UNCHANGED vars
  BY <1>0, <1>16 DEF vars, pageVars, browserVars, history
<1>17. CASE Refuse
  BY <1>0, <1>17 DEF Refuse
<1>18. ASSUME NEW g \in Procs, SendFails(g) PROVE ProcsInv'
  BY <1>18, FailProc
<1>19. QED
  BY <1>1, <1>2, <1>3, <1>4, <1>5, <1>6, <1>7, <1>8, <1>9, <1>10, <1>11, <1>12, <1>13,
     <1>14, <1>15, <1>16, <1>17, <1>18 DEF Next, ReadLoop

LEMMA QueuesStep == ASSUME PlainOK, ProcsInv, QueuesInv, [Next]_vars PROVE QueuesInv'
<1>0. UNCHANGED pipe /\ wire' \in Seq(Msgs) => QueuesInv'
  BY DEF QueuesInv, Msgs, Asks
<1>a. wire \in Seq(Msgs)
  BY DEF QueuesInv, Msgs
<1>1. ASSUME NEW x \in Routers, Route(x) PROVE QueuesInv'
  BY <1>0, <1>a, <1>1 DEF Route, pageVars, browserVars, history
<1>2. ASSUME NEW a \in Adders, AddInitScript(a) PROVE QueuesInv'
  BY <1>0, <1>a, <1>2 DEF AddInitScript, pageVars, browserVars, history
<1>3. ASSUME NEW g \in Procs, SendCall(g) PROVE QueuesInv'
  <2>1. /\ pipe' \in Seq(Sent) /\ Len(pipe') = Len(pipe) + 1 /\ Len(pipe) \in Nat
        /\ \A i \in 1..Len(pipe) : pipe'[i] = pipe[i]
        /\ pipe'[Len(pipe) + 1].g = g /\ pipe'[Len(pipe) + 1].do = proc[g].todo[1]
    BY <1>3, Queued
  <2>2. proc[g].todo[1].m \in Asks(g) /\ wire' = wire
    BY <1>3, SendStep DEF SendCall
  <2>3. \A i \in 1..Len(pipe') : pipe'[i].do.m \in Asks(pipe'[i].g)
    <3> SUFFICES ASSUME NEW i \in 1..Len(pipe') PROVE pipe'[i].do.m \in Asks(pipe'[i].g)
      OBVIOUS
    <3>1. CASE i \in 1..Len(pipe)
      BY <2>1, <3>1 DEF QueuesInv
    <3>2. CASE i = Len(pipe) + 1
      BY <2>1, <2>2, <3>2
    <3>3. QED
      BY <2>1, <3>1, <3>2
  <2>4. QED
    BY <1>a, <2>1, <2>2, <2>3 DEF QueuesInv, Sent, Msgs, Asks
<1>4. ASSUME NEW g \in Procs, CallReturns(g) PROVE QueuesInv'
  BY <1>0, <1>a, <1>4 DEF CallReturns, pageVars, browserVars, history
<1>5. ASSUME NEW g \in Procs, CallTimesOut(g) PROVE QueuesInv'
  BY <1>0, <1>a, <1>5 DEF CallTimesOut, pageVars, browserVars, history
<1>6. CASE OnReply
  BY <1>0, <1>6, Taken DEF OnReply
<1>7. CASE OnRequestWillBeSent
  BY <1>0, <1>7, Taken DEF OnRequestWillBeSent
<1>8. CASE OnDialogOpened
  BY <1>0, <1>8, Taken DEF OnDialogOpened
<1>9. CASE OnConsole
  BY <1>0, <1>9, Taken DEF OnConsole
<1>10. CASE ConsoleTimesOut
  BY <1>0, <1>a, <1>10 DEF ConsoleTimesOut, pageVars, browserVars, history
<1>11. CASE Serve
  <2>1. /\ pipe' \in Seq(Sent) /\ wire' \in Seq(Msgs)
        /\ \A i \in 1..Len(pipe') : i+1 \in 1..Len(pipe) /\ pipe'[i] = pipe[i+1]
    BY <1>11, Served
  <2>2. \A i \in 1..Len(pipe') : pipe'[i].do.m \in Asks(pipe'[i].g)
    BY <2>1 DEF QueuesInv
  <2>3. QED
    BY <2>1, <2>2 DEF QueuesInv, Sent, Msgs, Asks
<1>12. CASE Speak
  BY <1>0, <1>12, Told, Tells DEF Speak
<1>13. ASSUME NEW r \in Requests, Make(r) PROVE QueuesInv'
  BY <1>0, <1>13, Told, Tells DEF Make
<1>14. ASSUME NEW d \in Dialogs, Open(d) PROVE QueuesInv'
  BY <1>0, <1>14, Told, Tells DEF Open
<1>15. ASSUME NEW h \in {None, "accept", "leave"}, OnDialog(h) PROVE QueuesInv'
  BY <1>0, <1>a, <1>15 DEF OnDialog, pageVars, browserVars, history
<1>16. CASE UNCHANGED vars
  BY <1>0, <1>a, <1>16 DEF vars, pageVars, browserVars, history, pageVars, browserVars,
     history
<1>17. CASE Refuse
  <2>1. /\ pipe' \in Seq(Sent) /\ wire' \in Seq(Msgs)
        /\ \A i \in 1..Len(pipe') : i+1 \in 1..Len(pipe) /\ pipe'[i] = pipe[i+1]
    BY <1>17, Refused
  <2>2. \A i \in 1..Len(pipe') : pipe'[i].do.m \in Asks(pipe'[i].g)
    BY <2>1 DEF QueuesInv
  <2>3. QED
    BY <2>1, <2>2 DEF QueuesInv, Sent, Msgs, Asks
<1>18. ASSUME NEW g \in Procs, SendFails(g) PROVE QueuesInv'
  BY <1>0, <1>a, <1>18 DEF SendFails, pageVars, browserVars
<1>19. QED
  BY <1>1, <1>2, <1>3, <1>4, <1>5, <1>6, <1>7, <1>8, <1>9, <1>10, <1>11, <1>12, <1>13,
     <1>14, <1>15, <1>16, <1>17, <1>18 DEF Next, ReadLoop

LEMMA PlainStep == ASSUME PlainOK, ProcsInv, QueuesInv, [Next]_vars PROVE PlainOK'
<1>0. UNCHANGED <<play, does, routes, interceptEnabled, initScripts, dialogHandler,
        loop,
                  intercepts, scripts, state>> => PlainOK'
  BY DEF PlainOK
<1>a. /\ Decisions \cup {"accept", "dismiss"} \subseteq
           {"new", "held", "let go", "resume", "abort", "fulfill", "open", "accept",
                   "dismiss"}
      /\ "enable" \notin Decisions /\ "setInitScripts" \notin Decisions
  BY DEF Decisions
<1>1. ASSUME NEW x \in Routers, Route(x) PROVE PlainOK'
  <2>1. routes' = Append(routes, x) /\ routes \in Seq(Routers)
    BY <1>1 DEF Route, PlainOK
  <2>2. routes' \in Seq(Routers)
    BY <2>1
  <2>3. QED
    BY <1>1, <2>2 DEF Route, PlainOK, browserVars
<1>2. ASSUME NEW a \in Adders, AddInitScript(a) PROVE PlainOK'
  <2>1. initScripts' \in Seq(Adders)
    BY <1>2, AddProc
  <2>2. QED
    BY <1>2, <2>1 DEF AddInitScript, PlainOK, browserVars
<1>3. ASSUME NEW g \in Procs, SendCall(g) PROVE PlainOK'
  BY <1>0, <1>3 DEF SendCall, pageVars, browserVars, history
<1>4. ASSUME NEW g \in Procs, CallReturns(g) PROVE PlainOK'
  BY <1>0, <1>4 DEF CallReturns, pageVars, browserVars, history
<1>5. ASSUME NEW g \in Procs, CallTimesOut(g) PROVE PlainOK'
  BY <1>0, <1>5 DEF CallTimesOut, pageVars, browserVars, history
<1>6. CASE OnReply
  BY <1>0, <1>6 DEF OnReply, pageVars, browserVars, history
<1>7. CASE OnRequestWillBeSent
  BY <1>0, <1>7 DEF OnRequestWillBeSent, pageVars, browserVars, history
<1>8. CASE OnDialogOpened
  BY <1>0, <1>8 DEF OnDialogOpened, pageVars, browserVars, history
<1>9. CASE OnConsole
  BY <1>9 DEF OnConsole, PlainOK, pageVars, browserVars
<1>10. CASE ConsoleTimesOut
  BY <1>10 DEF ConsoleTimesOut, PlainOK, pageVars, browserVars
<1>11. CASE Serve
  <2>1. UNCHANGED <<play, does, routes, interceptEnabled, initScripts, dialogHandler,
          loop>>
    BY <1>11 DEF Serve, pageVars
  <2>2. pipe[1].do.list \in Seq(Adders) /\ pipe[1].g \in Procs
    BY <1>11, Served DEF AnyCall
  <2>3. scripts' \in Seq(Adders) /\ intercepts' \in BOOLEAN
    BY <1>11, <2>2, Served DEF PlainOK
  <2>4. state' = state \/ \E s \in Decisions \cup {"accept", "dismiss"}, g \in Procs :
          state' = [state EXCEPT ![g] = s]
    BY <1>11, <2>2, Served DEF Put
  <2>5. QED
    BY <1>a, <2>1, <2>3, <2>4 DEF PlainOK
<1>12. CASE Speak
  BY <1>0, <1>12 DEF Speak, pageVars, browserVars, history
<1>13. ASSUME NEW r \in Requests, Make(r) PROVE PlainOK'
  <2>1. state' = [state EXCEPT ![r] = IF intercepts THEN "held" ELSE "let go"]
    BY <1>13 DEF Make
  <2>2. state' \in [Requests \cup Dialogs ->
                     {"new", "held", "let go", "resume", "abort", "fulfill",
                      "open", "accept", "dismiss"}]
    BY <2>1 DEF PlainOK
  <2>3. QED
    BY <1>13, <2>2 DEF Make, PlainOK, pageVars
<1>14. ASSUME NEW d \in Dialogs, Open(d) PROVE PlainOK'
  <2>1. state' = [state EXCEPT ![d] = "open"]
    BY <1>14 DEF Open
  <2>2. state' \in [Requests \cup Dialogs ->
                     {"new", "held", "let go", "resume", "abort", "fulfill",
                      "open", "accept", "dismiss"}]
    BY <2>1 DEF PlainOK
  <2>3. QED
    BY <1>14, <2>2 DEF Open, PlainOK, pageVars
<1>15. ASSUME NEW h \in {None, "accept", "leave"}, OnDialog(h) PROVE PlainOK'
  BY <1>15 DEF OnDialog, PlainOK, browserVars
<1>16. CASE UNCHANGED vars
  BY <1>0, <1>16 DEF vars, pageVars, browserVars, history, pageVars, browserVars,
     history
<1>17. CASE Refuse
  BY <1>0, <1>17 DEF Refuse, pageVars, browserVars
<1>18. ASSUME NEW g \in Procs, SendFails(g) PROVE PlainOK'
  BY <1>0, <1>18 DEF SendFails, pageVars, browserVars
<1>19. QED
  BY <1>1, <1>2, <1>3, <1>4, <1>5, <1>6, <1>7, <1>8, <1>9, <1>10, <1>11, <1>12, <1>13,
     <1>14, <1>15, <1>16, <1>17, <1>18 DEF Next, ReadLoop

-----------------------------------------------------------------------------
(* Interception is on when the first Page.Route has returned well. *)

ByReply == \A i \in 1..Len(wire) :
             wire[i].t = "reply" /\ wire[i].do.m = "enable" => intercepts

LEMMA ReplyKept ==
  ASSUME PlainOK, ProcsInv, QueuesInv, EnableInv, [Next]_vars
  PROVE  ByReply' /\ (intercepts => intercepts')
<1>0. ByReply
  BY DEF EnableInv, ByReply
<1>a. UNCHANGED <<wire, intercepts>> => ByReply' /\ (intercepts => intercepts')
  BY <1>0 DEF ByReply
<1>b. ASSUME NEW t, Take(t), UNCHANGED intercepts
      PROVE  ByReply' /\ (intercepts => intercepts')
  BY <1>0, <1>b, Taken DEF ByReply
<1>c. ASSUME NEW t, NEW g, [t |-> t, g |-> g, do |-> None] \in Msgs, Tell(t, g),
             t # "reply",
             UNCHANGED intercepts
      PROVE  ByReply' /\ (intercepts => intercepts')
  <2>1. /\ wire' \in Seq(Msgs) /\ Len(wire') = Len(wire) + 1 /\ Len(wire) \in Nat
        /\ \A i \in 1..Len(wire) : wire'[i] = wire[i]
        /\ wire'[Len(wire) + 1].t = t
    BY <1>c, Told
  <2>2. \A i \in 1..Len(wire') : i \in 1..Len(wire) \/ i = Len(wire) + 1
    BY <2>1
  <2>3. QED
    BY <1>0, <1>c, <2>1, <2>2 DEF ByReply
<1>1. ASSUME NEW x \in Routers, Route(x) PROVE ByReply' /\ (intercepts => intercepts')
  BY <1>a, <1>1 DEF Route, pageVars, browserVars, history
<1>2. ASSUME NEW a \in Adders, AddInitScript(a)
      PROVE  ByReply' /\ (intercepts => intercepts')
  BY <1>a, <1>2 DEF AddInitScript, pageVars, browserVars, history
<1>3. ASSUME NEW g \in Procs, SendCall(g) PROVE ByReply' /\ (intercepts => intercepts')
  BY <1>a, <1>3 DEF SendCall, pageVars, browserVars, history
<1>4. ASSUME NEW g \in Procs, CallReturns(g)
      PROVE  ByReply' /\ (intercepts => intercepts')
  BY <1>a, <1>4 DEF CallReturns, pageVars, browserVars, history
<1>5. ASSUME NEW g \in Procs, CallTimesOut(g)
      PROVE  ByReply' /\ (intercepts => intercepts')
  BY <1>a, <1>5 DEF CallTimesOut, pageVars, browserVars, history
<1>6. CASE OnReply
  BY <1>b, <1>6 DEF OnReply, pageVars, browserVars, history
<1>7. CASE OnRequestWillBeSent
  BY <1>b, <1>7 DEF OnRequestWillBeSent, pageVars, browserVars, history
<1>8. CASE OnDialogOpened
  BY <1>b, <1>8 DEF OnDialogOpened, pageVars, browserVars, history
<1>9. CASE OnConsole
  BY <1>b, <1>9 DEF OnConsole, pageVars, browserVars, history
<1>10. CASE ConsoleTimesOut
  BY <1>a, <1>10 DEF ConsoleTimesOut, pageVars, browserVars, history
<1>11. CASE Serve
  <2>1. /\ Len(wire') = Len(wire) + 1 /\ Len(wire) \in Nat
        /\ \A i \in 1..Len(wire) : wire'[i] = wire[i]
        /\ wire'[Len(wire) + 1] = [t |-> "reply", g |-> pipe[1].g, do |-> pipe[1].do]
    BY <1>11, Served
  <2>2. wire'[Len(wire) + 1].do.m = "enable" => intercepts'
    <3>1. wire'[Len(wire) + 1].do.m = pipe[1].do.m
      BY <2>1
    <3>2. pipe[1].do.m = "enable" => intercepts'
      BY <1>11, Served DEF Decisions
    <3>3. QED
      BY <3>1, <3>2
  <2>3. intercepts => intercepts'
    BY <1>11, Served
  <2>4. \A i \in 1..Len(wire') : i \in 1..Len(wire) \/ i = Len(wire) + 1
    BY <2>1
  <2>5. QED
    BY <1>0, <2>1, <2>2, <2>3, <2>4 DEF ByReply
<1>12. CASE Speak
  BY <1>c, Tells, <1>12 DEF Speak, pageVars, browserVars, history
<1>13. ASSUME NEW r \in Requests, Make(r) PROVE ByReply' /\ (intercepts => intercepts')
  BY <1>c, Tells, <1>13 DEF Make, pageVars, browserVars, history
<1>14. ASSUME NEW d \in Dialogs, Open(d) PROVE ByReply' /\ (intercepts => intercepts')
  BY <1>c, Tells, <1>14 DEF Open, pageVars, browserVars, history
<1>15. ASSUME NEW h \in {None, "accept", "leave"}, OnDialog(h)
       PROVE  ByReply' /\ (intercepts => intercepts')
  BY <1>a, <1>15 DEF OnDialog, pageVars, browserVars, history
<1>16. CASE UNCHANGED vars
  BY <1>a, <1>16 DEF vars, pageVars, browserVars, history, pageVars, browserVars,
     history
<1>17. CASE Refuse
  <2>1. /\ Len(wire') = Len(wire) + 1 /\ Len(wire) \in Nat
        /\ \A i \in 1..Len(wire) : wire'[i] = wire[i]
        /\ wire'[Len(wire) + 1].t = "error"
    BY <1>17, Refused
  <2>2. intercepts' = intercepts
    BY <1>17 DEF Refuse, browserVars
  <2>3. \A i \in 1..Len(wire') : i \in 1..Len(wire) \/ i = Len(wire) + 1
    BY <2>1
  <2>4. QED
    BY <1>0, <2>1, <2>2, <2>3 DEF ByReply
<1>18. ASSUME NEW g \in Procs, SendFails(g) PROVE ByReply' /\ (intercepts => intercepts')
  BY <1>a, <1>18 DEF SendFails, pageVars, browserVars
<1>19. QED
  BY <1>1, <1>2, <1>3, <1>4, <1>5, <1>6, <1>7, <1>8, <1>9, <1>10, <1>11, <1>12, <1>13,
     <1>14, <1>15, <1>16, <1>17, <1>18 DEF Next, ReadLoop

LEMMA EnableStep ==
  ASSUME PlainOK, ProcsInv, QueuesInv, EnableInv, [Next]_vars
  PROVE  EnableInv'
<1> DEFINE Ended(x) == proc'[x].st = "done" /\ proc'[x].ok
<1>0. ByReply' /\ (intercepts => intercepts')
  BY ReplyKept
<1>r. routes \in Seq(Routers) /\ (routes # <<>>
        => routes[1] \in Routers /\ routes[1] \in Procs)
  <2>1. routes \in Seq(Routers)
    BY DEF PlainOK
  <2>2. routes # <<>> => routes[1] \in Routers
    BY <2>1, TailIs
  <2>3. QED
    BY <2>1, <2>2, AsksOf
<1>a. ASSUME UNCHANGED <<play, routes, interceptEnabled, inForce>>,
             \A x \in Routers :
               \/ proc'[x] = proc[x]
               \/ /\ proc[x].st # "done" /\ proc'[x].st # "idle"
                  /\ routes # <<>> /\ x = routes[1]
                       /\ (proc'[x].st = "resumed" \/ Ended(x)) => intercepts'
      PROVE  EnableInv'
  <2>1. inForce # {} => \A x \in play \cap Routers : Ended(x)
    BY <1>a DEF EnableInv
  <2>2. routes # <<>> => /\ proc'[routes[1]].st # "idle"
                         /\ proc'[routes[1]].st = "resumed" => intercepts'
                         /\ Ended(routes[1]) => intercepts'
    BY <1>0, <1>r, <1>a DEF EnableInv
  <2>3. QED
    BY <1>0, <1>a, <2>1, <2>2 DEF EnableInv, ByReply
<1>b. UNCHANGED <<play, routes, interceptEnabled, inForce, proc>> => EnableInv'
  BY <1>a
<1>1. ASSUME NEW x \in Routers, Route(x) PROVE EnableInv'
  <2>1. /\ proc[x].st = "idle"
        /\ proc'[x].st = (IF interceptEnabled THEN "done" ELSE "send")
        /\ \A h \in Procs : h # x => proc'[h] = proc[h]
    BY <1>1, RouteProc
  <2>2. /\ x \in play /\ routes' = Append(routes, x) /\ interceptEnabled' = TRUE
        /\ UNCHANGED <<play, inForce>>
    BY <1>1 DEF Route, history
  <2>3. inForce = {}
    BY <1>1, <2>1, <2>2 DEF EnableInv
  <2>4. /\ routes' # <<>> /\ Len(routes') = Len(routes) + 1 /\ Len(routes) \in Nat
        /\ \A i \in 1..Len(routes) : routes'[i] = routes[i]
        /\ routes'[Len(routes) + 1] = x
    BY <1>r, <2>2, AppendIs
  <2>5. \A i \in 1..Len(routes') : routes'[i] \in play
    <3> SUFFICES ASSUME NEW i \in 1..Len(routes') PROVE routes'[i] \in play
      OBVIOUS
    <3>1. i \in 1..Len(routes) \/ i = Len(routes) + 1
      BY <2>4
    <3>2. QED
      BY <2>2, <2>4, <3>1 DEF EnableInv
  <2>6. /\ proc'[routes'[1]].st # "idle"
        /\ proc'[routes'[1]].st = "resumed" => intercepts'
        /\ Ended(routes'[1]) => intercepts'
    <3>1. CASE routes = <<>>
      <4>1. routes'[1] = x /\ ~interceptEnabled
        BY <2>4, <3>1 DEF EnableInv
      <4>2. QED
        BY <2>1, <4>1
    <3>2. CASE routes # <<>>
      <4>1. routes'[1] = routes[1] /\ routes[1] \in Procs /\ proc[routes[1]].st # "idle"
        BY <1>r, <2>4, <3>2 DEF EnableInv
      <4>2. proc'[routes[1]] = proc[routes[1]]
        BY <2>1, <4>1
      <4>3. QED
        BY <1>0, <3>2, <4>1, <4>2 DEF EnableInv
    <3>3. QED
      BY <3>1, <3>2
  <2>7. QED
    BY <1>0, <2>2, <2>3, <2>4, <2>5, <2>6 DEF EnableInv, ByReply
<1>2. ASSUME NEW a \in Adders, AddInitScript(a) PROVE EnableInv'
  <2>1. \A x \in Routers : x \in Procs /\ x # a
    BY <1>2, AsksOf, HooksAssumption
  <2>2. QED
    BY <1>a, <2>1, <1>2, AddProc DEF AddInitScript
<1>3. ASSUME NEW g \in Procs, SendCall(g) PROVE EnableInv'
  <2>1. \A x \in Routers : x \in Procs
    BY AsksOf
  <2>2. QED
    BY <1>a, <2>1, <1>3, SendStep DEF SendCall, pageVars, browserVars, history
<1>4. ASSUME NEW g \in Procs, CallReturns(g) PROVE EnableInv'
  <2>1. \A x \in Routers : x \in Procs
    BY AsksOf
  <2>2. /\ proc[g].st \in {"waiting", "resumed", "failed"} /\ proc'[g].st \in {"done", "send"}
        /\ proc'[g].ok => proc[g].st = "resumed"
        /\ \A h \in Procs : h # g => proc'[h] = proc[h]
    BY <1>4, ReturnsProc
  <2>3. routes # <<>> /\ g = routes[1] /\ Ended(g) => intercepts'
    BY <1>0, <2>2 DEF EnableInv
  <2>4. QED
    BY <1>a, <2>1, <2>2, <2>3, <1>4 DEF CallReturns, pageVars, browserVars, history
<1>5. ASSUME NEW g \in Procs, CallTimesOut(g) PROVE EnableInv'
  <2>1. \A x \in Routers : x \in Procs
    BY AsksOf
  <2>2. /\ proc[g].st = "waiting" /\ proc'[g].st \in {"done", "send"} /\ ~proc'[g].ok
        /\ \A h \in Procs : h # g => proc'[h] = proc[h]
    BY <1>5, ReturnsProc DEF CallTimesOut
  <2>3. QED
    BY <1>a, <2>1, <2>2, <1>5 DEF CallTimesOut, pageVars, browserVars, history
<1>6. CASE OnReply
  <2>1. \A x \in Routers : x \in Procs /\ Asks(x) = {"enable"}
    BY AsksOf
  <2>2. UNCHANGED <<play, routes, interceptEnabled, inForce, intercepts>>
    BY <1>6 DEF OnReply, pageVars, browserVars, history
  <2>3. CASE proc' = proc
    BY <1>b, <2>2, <2>3
  <2>4. CASE proc' # proc
    <3> DEFINE g == wire[1].g
    <3>1. /\ g \in Procs /\ proc[g].st = "waiting" /\ proc[g].todo[1] = wire[1].do
          /\ proc'[g].st \in {"resumed", "failed"}
          /\ \A h \in Procs : h # g => proc'[h] = proc[h]
      BY <2>4, <1>6, ReplyProc
    <3>2. 1 \in 1..Len(wire) /\ (proc'[g].st = "resumed" => wire[1].t = "reply")
      BY <2>4, <1>6, ReplyProc
    <3>3. g \in Routers => wire[1].do.m = "enable"
      <4>1. proc[g].todo # <<>> /\ proc[g].todo \in Seq(AnyCall)
        BY <3>1 DEF ProcsInv, Busy
      <4>2. proc[g].todo[1].m \in Asks(g)
        BY <3>1, <4>1 DEF ProcsInv
      <4>3. QED
        BY <2>1, <3>1, <4>2
    <3>4. g \in Routers /\ proc'[g].st = "resumed" => intercepts'
      BY <2>2, <3>2, <3>3 DEF EnableInv
    <3> HIDE DEF g
    <3>5. QED
      BY <1>a, <2>1, <2>2, <3>1, <3>4
  <2>5. QED
    BY <2>3, <2>4
<1>7. CASE OnRequestWillBeSent
  <2>1. \A x \in Routers : x \in Procs /\ x # wire[1].g
    BY <1>7, RequestProc, AsksOf, HooksAssumption
  <2>2. QED
    BY <1>a, <2>1, <1>7, RequestProc DEF OnRequestWillBeSent, pageVars, browserVars,
       history
<1>8. CASE OnDialogOpened
  <2>1. \A x \in Routers : x \in Procs /\ x # wire[1].g
    BY <1>8, DialogProc, AsksOf, HooksAssumption
  <2>2. QED
    BY <1>a, <2>1, <1>8, DialogProc DEF OnDialogOpened, pageVars, browserVars, history
<1>9. CASE OnConsole
  BY <1>b, <1>9 DEF OnConsole, pageVars, browserVars, history
<1>10. CASE ConsoleTimesOut
  BY <1>b, <1>10 DEF ConsoleTimesOut, pageVars, browserVars, history
<1>11. CASE Serve
  BY <1>b, <1>11 DEF Serve, pageVars, browserVars, history
<1>12. CASE Speak
  BY <1>b, <1>12 DEF Speak, pageVars, browserVars, history
<1>13. ASSUME NEW r \in Requests, Make(r) PROVE EnableInv'
  <2>1. UNCHANGED <<play, routes, interceptEnabled, proc, intercepts>>
    BY <1>13 DEF Make, pageVars, browserVars, history
  <2>2. inForce' \subseteq Requests
    BY <1>13 DEF Make, EnableInv
  <2>3. inForce' # {} => \A x \in play \cap Routers : proc[x].st = "done" /\ proc[x].ok
    BY <1>13 DEF Make, EnableInv
  <2>4. QED
    BY <1>0, <2>1, <2>2, <2>3 DEF EnableInv, ByReply
<1>14. ASSUME NEW d \in Dialogs, Open(d) PROVE EnableInv'
  BY <1>b, <1>14 DEF Open, pageVars, browserVars, history
<1>15. ASSUME NEW h \in {None, "accept", "leave"}, OnDialog(h) PROVE EnableInv'
  BY <1>b, <1>15 DEF OnDialog, pageVars, browserVars, history
<1>16. CASE UNCHANGED vars
  BY <1>b, <1>16 DEF vars, pageVars, browserVars, history, pageVars, browserVars,
     history
<1>17. CASE Refuse
  BY <1>b, <1>17 DEF Refuse, pageVars, browserVars
<1>18. ASSUME NEW g \in Procs, SendFails(g) PROVE EnableInv'
  <2>1. \A x \in Routers : x \in Procs
    BY AsksOf
  <2>2. /\ proc[g].st = "send" /\ proc'[g].st \in {"done", "send"} /\ ~proc'[g].ok
        /\ \A h \in Procs : h # g => proc'[h] = proc[h]
    BY <1>18, FailProc
  <2>3. QED
    BY <1>a, <2>1, <2>2, <1>18 DEF SendFails, pageVars, browserVars
<1>19. QED
  BY <1>1, <1>2, <1>3, <1>4, <1>5, <1>6, <1>7, <1>8, <1>9, <1>10, <1>11, <1>12, <1>13,
     <1>14, <1>15, <1>16, <1>17, <1>18 DEF Next, ReadLoop

-----------------------------------------------------------------------------
(* A request is announced once, before anything is decided for it. *)

OnceAt(r) ==
  /\ FromOf(r) # {} => proc[r].st # "idle"
  /\ state[r] = "new" => proc[r].st = "idle" /\ \A i \in 1..Len(wire) : ~Announces(i, r)
  /\ \A i \in 1..Len(wire) : Announces(i, r) =>
       /\ proc[r].st = "idle"
       /\ \A j \in 1..Len(wire) : Announces(j, r) => i = j

LEMMA OnceStep ==
  ASSUME PlainOK, ProcsInv, QueuesInv, OnceInv, [Next]_vars
  PROVE  OnceInv'
<1>r. \A r \in Requests : OnceAt(r) /\ r \in Procs
  BY AsksOf DEF OnceInv, OnceAt
<1>w. Len(wire) \in Nat
  BY DEF QueuesInv
<1>a. ASSUME NEW r \in Requests, NEW k \in {0, 1},
             \A i \in 1..Len(wire') :
               wire'[i].t = "request" /\ wire'[i].g = r =>
                 i+k \in 1..Len(wire) /\ Announces(i+k, r),
             FromOf(r)' # {} => FromOf(r) # {},
             proc'[r].st = "idle" <=> proc[r].st = "idle",
             state'[r] = "new" => state[r] = "new"
      PROVE  OnceAt(r)'
  <2>1. OnceAt(r)
    BY <1>r
  <2>2. ASSUME NEW i \in 1..Len(wire'), wire'[i].t = "request", wire'[i].g = r
        PROVE  /\ proc'[r].st = "idle" /\ state'[r] # "new"
               /\ \A j \in 1..Len(wire') :
                    wire'[j].t = "request" /\ wire'[j].g = r => i = j
    <3>1. i+k \in 1..Len(wire) /\ Announces(i+k, r)
      BY <1>a, <2>2
    <3>2. proc[r].st = "idle" /\ state[r] # "new"
      BY <2>1, <3>1 DEF OnceAt
    <3>3. \A j \in 1..Len(wire') : wire'[j].t = "request" /\ wire'[j].g = r => i+k = j+k
      BY <1>a, <2>1, <3>1 DEF OnceAt
    <3>4. QED
      BY <1>a, <3>2, <3>3
  <2>3. QED
    BY <1>a, <2>1, <2>2 DEF OnceAt, Announces
<1>b. UNCHANGED pipe => \A r \in Requests : FromOf(r)' # {} => FromOf(r) # {}
  BY DEF FromOf
<1>c. ASSUME UNCHANGED <<wire, pipe, state>>,
             \A r \in Requests : proc'[r].st = "idle" <=> proc[r].st = "idle"
      PROVE  \A r \in Requests : OnceAt(r)'
  <2>1. \A r \in Requests, i \in 1..Len(wire') :
          wire'[i].t = "request" /\ wire'[i].g = r =>
            i+0 \in 1..Len(wire) /\ Announces(i+0, r)
    BY <1>c DEF Announces
  <2>2. QED
    BY <1>a, <1>b, <1>c, <2>1
<1>d. ASSUME NEW t, Take(t), UNCHANGED <<pipe, state>>, NEW r \in Requests,
             proc'[r].st = "idle" <=> proc[r].st = "idle"
      PROVE  OnceAt(r)'
  <2>1. \A i \in 1..Len(wire') : i+1 \in 1..Len(wire) /\ wire'[i] = wire[i+1]
    BY <1>d, Taken
  <2>2. \A i \in 1..Len(wire') :
          wire'[i].t = "request" /\ wire'[i].g = r =>
            i+1 \in 1..Len(wire) /\ Announces(i+1, r)
    BY <2>1 DEF Announces
  <2>3. QED
    BY <1>a, <1>b, <1>d, <2>2
<1>e. ASSUME NEW r \in Requests, Len(wire') = Len(wire) + 1,
             \A i \in 1..Len(wire) : wire'[i] = wire[i],
             ~(wire'[Len(wire) + 1].t = "request" /\ wire'[Len(wire) + 1].g = r),
             FromOf(r)' # {} => FromOf(r) # {},
             proc'[r].st = "idle" <=> proc[r].st = "idle",
             state'[r] = "new" => state[r] = "new"
      PROVE  OnceAt(r)'
  <2>1. \A i \in 1..Len(wire') :
          wire'[i].t = "request" /\ wire'[i].g = r =>
            i+0 \in 1..Len(wire) /\ Announces(i+0, r)
    <3> SUFFICES ASSUME NEW i \in 1..Len(wire'), wire'[i].t = "request", wire'[i].g = r
                 PROVE  i+0 \in 1..Len(wire) /\ Announces(i+0, r)
      OBVIOUS
    <3>1. i \in 1..Len(wire) /\ i+0 = i
      BY <1>w, <1>e
    <3>2. QED
      BY <1>e, <3>1 DEF Announces
  <2>2. QED
    BY <1>a, <1>e, <2>1
<1> SUFFICES \A r \in Requests : OnceAt(r)'
  BY DEF OnceInv, OnceAt
<1>1. ASSUME NEW x \in Routers, Route(x) PROVE \A r \in Requests : OnceAt(r)'
  <2>1. \A r \in Requests : proc'[r] = proc[r]
    BY <1>r, <1>1, RouteProc, HooksAssumption
  <2>2. QED
    BY <1>c, <2>1, <1>1 DEF Route, pageVars, browserVars, history
<1>2. ASSUME NEW a \in Adders, AddInitScript(a) PROVE \A r \in Requests : OnceAt(r)'
  <2>1. \A r \in Requests : proc'[r] = proc[r]
    BY <1>r, <1>2, AddProc, HooksAssumption
  <2>2. QED
    BY <1>c, <2>1, <1>2 DEF AddInitScript, pageVars, browserVars, history
<1>3. ASSUME NEW g \in Procs, SendCall(g) PROVE \A r \in Requests : OnceAt(r)'
  <2>1. /\ proc[g].st = "send" /\ proc'[g].st = "waiting"
        /\ \A h \in Procs : h # g => proc'[h] = proc[h]
    BY <1>3, SendStep
  <2>2. /\ Len(pipe') = Len(pipe) + 1 /\ Len(pipe) \in Nat
        /\ \A i \in 1..Len(pipe) : pipe'[i] = pipe[i]
        /\ pipe'[Len(pipe) + 1].g = g
    BY <1>3, Queued
  <2>3. UNCHANGED <<wire, state>>
    BY <1>3 DEF SendCall, pageVars, browserVars, history
  <2>4. ASSUME NEW r \in Requests PROVE OnceAt(r)'
    <3>1. CASE r = g
      <4>1. \A i \in 1..Len(wire) : ~(wire[i].t = "request" /\ wire[i].g = r)
        BY <1>r, <2>1, <3>1 DEF OnceAt, Announces
      <4>2. state[r] # "new"
        BY <1>r, <2>1, <3>1 DEF OnceAt
      <4>3. QED
        BY <2>1, <2>3, <3>1, <4>1, <4>2 DEF OnceAt, Announces
    <3>2. CASE r # g
      <4>1. FromOf(r)' # {} => FromOf(r) # {}
        BY <2>2, <3>2 DEF FromOf
      <4>2. \A i \in 1..Len(wire') :
              wire'[i].t = "request" /\ wire'[i].g = r =>
                i+0 \in 1..Len(wire) /\ Announces(i+0, r)
        BY <2>3 DEF Announces
      <4>3. QED
        BY <1>a, <1>r, <2>1, <2>3, <3>2, <4>1, <4>2
    <3>3. QED
      BY <3>1, <3>2
  <2>5. QED
    BY <2>4
<1>4. ASSUME NEW g \in Procs, CallReturns(g) PROVE \A r \in Requests : OnceAt(r)'
  <2>1. \A r \in Requests : proc'[r].st = "idle" <=> proc[r].st = "idle"
    BY <1>r, <1>4, ReturnsProc
  <2>2. QED
    BY <1>c, <2>1, <1>4 DEF CallReturns, pageVars, browserVars, history
<1>5. ASSUME NEW g \in Procs, CallTimesOut(g) PROVE \A r \in Requests : OnceAt(r)'
  <2>1. \A r \in Requests : proc'[r].st = "idle" <=> proc[r].st = "idle"
    BY <1>r, <1>5, ReturnsProc
  <2>2. QED
    BY <1>c, <2>1, <1>5 DEF CallTimesOut, pageVars, browserVars, history
<1>6. CASE OnReply
  <2>1. \A r \in Requests : proc'[r].st = "idle" <=> proc[r].st = "idle"
    BY <1>r, <1>6, ReplyProc
  <2>2. QED
    BY <1>d, <2>1, <1>6 DEF OnReply, pageVars, browserVars, history
<1>7. CASE OnRequestWillBeSent
  <2>1. /\ wire[1].g \in Requests /\ wire[1].t = "request" /\ 1 \in 1..Len(wire)
        /\ state[wire[1].g] # "held" => proc' = proc
        /\ state[wire[1].g] = "held" => proc'[wire[1].g].st = "send"
        /\ \A h \in Procs : h # wire[1].g => proc'[h] = proc[h]
    BY <1>7, RequestProc, Taken DEF OnRequestWillBeSent
  <2>2. Take("request") /\ UNCHANGED <<pipe, state>>
    BY <1>7 DEF OnRequestWillBeSent, pageVars, browserVars, history
  <2>3. ASSUME NEW r \in Requests PROVE OnceAt(r)'
    <3>1. CASE r # wire[1].g
      BY <1>d, <1>r, <2>1, <2>2, <3>1
    <3>2. CASE r = wire[1].g
      <4>1. Announces(1, r)
        BY <2>1, <3>2 DEF Announces
      <4>2. state[r] # "new" /\ \A j \in 1..Len(wire) : Announces(j, r) => j = 1
        BY <1>r, <2>1, <4>1 DEF OnceAt
      <4>3. \A i \in 1..Len(wire') : ~(wire'[i].t = "request" /\ wire'[i].g = r)
        <5> SUFFICES ASSUME NEW i \in 1..Len(wire'), wire'[i].t = "request",
                            wire'[i].g = r
                     PROVE  FALSE
          OBVIOUS
        <5>1. i+1 \in 1..Len(wire) /\ wire'[i] = wire[i+1]
          BY <2>2, Taken
        <5>2. Announces(i+1, r) /\ i+1 # 1
          BY <5>1 DEF Announces
        <5>3. QED
          BY <4>2, <5>1, <5>2
      <4>4. FromOf(r)' = FromOf(r) /\ (FromOf(r) # {} => proc[r].st # "idle")
        BY <1>r, <2>2 DEF FromOf, OnceAt
      <4>5. proc[r].st # "idle" => proc'[r].st # "idle"
        BY <2>1, <3>2
      <4>6. QED
        BY <2>2, <4>2, <4>3, <4>4, <4>5 DEF OnceAt, Announces
    <3>3. QED
      BY <3>1, <3>2
  <2>4. QED
    BY <2>3
<1>8. CASE OnDialogOpened
  <2>1. \A r \in Requests : proc'[r] = proc[r]
    BY <1>r, <1>8, DialogProc, HooksAssumption
  <2>2. QED
    BY <1>d, <2>1, <1>8 DEF OnDialogOpened, pageVars, browserVars, history
<1>9. CASE OnConsole
  BY <1>d, <1>9 DEF OnConsole, pageVars, browserVars, history
<1>10. CASE ConsoleTimesOut
  BY <1>c, <1>10 DEF ConsoleTimesOut, pageVars, browserVars, history
<1>11. CASE Serve
  <2>1. /\ Len(wire') = Len(wire) + 1
        /\ \A i \in 1..Len(wire) : wire'[i] = wire[i]
        /\ wire'[Len(wire) + 1].t = "reply" /\ proc' = proc
    BY <1>11, Served
  <2>2. \A i \in 1..Len(pipe') : i+1 \in 1..Len(pipe) /\ pipe'[i] = pipe[i+1]
    BY <1>11, Served
  <2>3. ASSUME NEW r \in Requests PROVE OnceAt(r)'
    <3>1. FromOf(r)' # {} => FromOf(r) # {}
      BY <2>2 DEF FromOf
    <3>2. \/ state' = state
          \/ \E s \in Decisions \cup {"accept", "dismiss"}, h \in Procs :
                state' = [state EXCEPT ![h] = s]
      BY <1>11, Served DEF Put
    <3>3. state'[r] = "new" => state[r] = "new"
      BY <3>2 DEF PlainOK, Decisions
    <3>4. QED
      BY <1>e, <2>1, <3>1, <3>3
  <2>4. QED
    BY <2>3
<1>12. CASE Speak
  <2>1. /\ Len(wire') = Len(wire) + 1
        /\ \A i \in 1..Len(wire) : wire'[i] = wire[i]
        /\ wire'[Len(wire) + 1].t = "console"
    BY <1>12, Told, Tells DEF Speak
  <2>2. UNCHANGED <<pipe, proc, state>>
    BY <1>12 DEF Speak, pageVars, browserVars, history
  <2>3. QED
    BY <1>b, <1>e, <2>1, <2>2
<1>13. ASSUME NEW r \in Requests, Make(r) PROVE \A q \in Requests : OnceAt(q)'
  <2>1. /\ Len(wire') = Len(wire) + 1
        /\ \A i \in 1..Len(wire) : wire'[i] = wire[i]
        /\ wire'[Len(wire) + 1].t = "request" /\ wire'[Len(wire) + 1].g = r
    BY <1>13, Told, Tells DEF Make
  <2>2. /\ UNCHANGED <<pipe, proc>> /\ state[r] = "new"
        /\ state' = [state EXCEPT ![r] = IF intercepts THEN "held" ELSE "let go"]
    BY <1>13 DEF Make, pageVars, browserVars, history
  <2>3. ASSUME NEW q \in Requests PROVE OnceAt(q)'
    <3>1. CASE q # r
      <4>1. state'[q] = state[q]
        BY <2>2, <3>1 DEF PlainOK
      <4>2. QED
        BY <1>b, <1>e, <2>1, <2>2, <3>1, <4>1
    <3>2. CASE q = r
      <4>1. proc[r].st = "idle" /\ \A i \in 1..Len(wire) : ~Announces(i, r)
        BY <1>r, <2>2 DEF OnceAt
      <4>2. state'[r] # "new"
        BY <2>2 DEF PlainOK
      <4>3. \A i \in 1..Len(wire') :
              wire'[i].t = "request" /\ wire'[i].g = r => i = Len(wire) + 1
        <5> SUFFICES ASSUME NEW i \in 1..Len(wire'), wire'[i].t = "request",
                            wire'[i].g = r,
                            i # Len(wire) + 1
                     PROVE  FALSE
          OBVIOUS
        <5>1. i \in 1..Len(wire)
          BY <1>w, <2>1
        <5>2. QED
          BY <2>1, <4>1, <5>1 DEF Announces
      <4>4. FromOf(r)' = FromOf(r) /\ (FromOf(r) # {} => proc[r].st # "idle")
        BY <1>r, <2>2 DEF FromOf, OnceAt
      <4>5. QED
        BY <2>2, <3>2, <4>1, <4>2, <4>3, <4>4 DEF OnceAt, Announces
    <3>3. QED
      BY <3>1, <3>2
  <2>4. QED
    BY <2>3
<1>14. ASSUME NEW d \in Dialogs, Open(d) PROVE \A r \in Requests : OnceAt(r)'
  <2>1. /\ Len(wire') = Len(wire) + 1
        /\ \A i \in 1..Len(wire) : wire'[i] = wire[i]
        /\ wire'[Len(wire) + 1].t = "dialog"
    BY <1>14, Told, Tells DEF Open
  <2>2. UNCHANGED <<pipe, proc>> /\ state' = [state EXCEPT ![d] = "open"]
    BY <1>14 DEF Open, pageVars, browserVars, history
  <2>3. \A r \in Requests : state'[r] = "new" => state[r] = "new"
    BY <2>2 DEF PlainOK
  <2>4. QED
    BY <1>b, <1>e, <2>1, <2>2, <2>3
<1>15. ASSUME NEW h \in {None, "accept", "leave"}, OnDialog(h)
       PROVE  \A r \in Requests : OnceAt(r)'
  BY <1>c, <1>15 DEF OnDialog, pageVars, browserVars, history
<1>16. CASE UNCHANGED vars
  BY <1>c, <1>16 DEF vars, pageVars, browserVars, history, pageVars, browserVars,
     history
<1>17. CASE Refuse
  <2>1. /\ Len(wire') = Len(wire) + 1
        /\ \A i \in 1..Len(wire) : wire'[i] = wire[i]
        /\ wire'[Len(wire) + 1].t = "error"
        /\ \A i \in 1..Len(pipe') : i+1 \in 1..Len(pipe) /\ pipe'[i] = pipe[i+1]
    BY <1>17, Refused
  <2>2. UNCHANGED <<proc, state>>
    BY <1>17 DEF Refuse, browserVars
  <2>3. \A r \in Requests : FromOf(r)' # {} => FromOf(r) # {}
    BY <2>1 DEF FromOf
  <2>4. QED
    BY <1>e, <2>1, <2>2, <2>3
<1>18. ASSUME NEW g \in Procs, SendFails(g) PROVE \A r \in Requests : OnceAt(r)'
  <2>1. \A r \in Requests : proc'[r].st = "idle" <=> proc[r].st = "idle"
    BY <1>r, <1>18, FailProc
  <2>2. QED
    BY <1>c, <2>1, <1>18 DEF SendFails, pageVars, browserVars
<1>19. QED
  BY <1>1, <1>2, <1>3, <1>4, <1>5, <1>6, <1>7, <1>8, <1>9, <1>10, <1>11, <1>12, <1>13,
     <1>14, <1>15, <1>16, <1>17, <1>18 DEF Next, ReadLoop

-----------------------------------------------------------------------------
(* The first decision that arrives for a request made with every route in  *)
(* force is the one its route promised.                                    *)

DecideAt(r) ==
  routes # <<>> /\ ~Tried(r) =>
    /\ state[r] \in {"held", Wish(r)}
    /\ state[r] = "held" =>
         /\ proc[r].st = "send" /\ FromOf(r) = {} => proc[r].todo[1] = Call(Wish(r))
         /\ proc[r].st \in {"waiting", "resumed", "failed", "done"} => FromOf(r) # {}
         /\ \A i \in 1..Len(pipe) : First(r, i) => pipe[i].do = Call(Wish(r))

LEMMA DecideStep ==
  ASSUME PlainOK, ProcsInv, QueuesInv, EnableInv, OnceInv, DecideInv, [Next]_vars
  PROVE  DecideInv'
<1>r. \A r \in Requests : OnceAt(r) /\ r \in Procs /\ Asks(r) = Decisions
  BY AsksOf DEF OnceInv, OnceAt
<1>i. inForce \subseteq Requests /\ \A r \in inForce : DecideAt(r)
  BY DEF EnableInv, DecideInv, DecideAt
<1>p. Len(pipe) \in Nat
  BY DEF QueuesInv
<1>w. UNCHANGED <<routes, does>> => \A r \in Requests : Wish(r)' = Wish(r)
  BY DEF Wish, Owners
<1>t. ASSUME UNCHANGED <<routes, does>>, refused \subseteq refused'
      PROVE  \A r \in Requests : Tried(r) => Tried(r)'
  BY <1>t, <1>w DEF Tried, Decided, Call
<1>a. ASSUME NEW r \in inForce, UNCHANGED <<routes, does, pipe>>, state'[r] = state[r],
             proc'[r] = proc[r], refused \subseteq refused'
      PROVE  DecideAt(r)'
  <2>1. Wish(r)' = Wish(r) /\ (Tried(r) => Tried(r)')
    BY <1>i, <1>w, <1>t, <1>a
  <2>2. FromOf(r)' = FromOf(r)
    BY <1>a DEF FromOf
  <2>3. \A i \in 1..Len(pipe') : First(r, i)' <=> First(r, i)
    BY <1>a, <2>2 DEF First
  <2>4. DecideAt(r)
    BY <1>i
  <2>5. QED
    BY <1>a, <2>1, <2>2, <2>3, <2>4 DEF DecideAt
<1>b. ASSUME UNCHANGED <<routes, does, pipe, state, inForce, refused>>,
             \A r \in Requests : proc'[r] = proc[r]
      PROVE  \A r \in inForce' : DecideAt(r)'
  BY <1>a, <1>b, <1>i
<1>s. ASSUME NEW r, r # pipe[1].g, Len(pipe') = Len(pipe) - 1,
             \A i \in 1..Len(pipe') : i+1 \in 1..Len(pipe) /\ pipe'[i] = pipe[i+1]
      PROVE  /\ FromOf(r)' = {} <=> FromOf(r) = {}
             /\ \A i \in 1..Len(pipe') : First(r, i)' => First(r, i+1)
  <2>1. \A i \in FromOf(r) : i-1 \in FromOf(r)' /\ i \in Nat
    <3> SUFFICES ASSUME NEW i \in FromOf(r) PROVE i-1 \in FromOf(r)' /\ i \in Nat
      OBVIOUS
    <3>1. i \in 1..Len(pipe) /\ pipe[i].g = r
      BY DEF FromOf
    <3>2. i # 1 /\ i-1 \in 1..Len(pipe') /\ (i-1)+1 = i
      BY <1>p, <1>s, <3>1
    <3>3. pipe'[i-1] = pipe[i]
      BY <1>s, <3>2
    <3>4. QED
      BY <3>1, <3>2, <3>3 DEF FromOf
  <2>2. \A i \in FromOf(r)' : i+1 \in FromOf(r) /\ i \in 1..Len(pipe')
    BY <1>s DEF FromOf
  <2>3. ASSUME NEW i \in 1..Len(pipe'), First(r, i)' PROVE First(r, i+1)
    <3>1. i+1 \in FromOf(r) /\ \A j \in FromOf(r) : i <= j-1 /\ j \in Nat
      BY <2>1, <2>2, <2>3 DEF First
    <3>2. QED
      BY <3>1 DEF First
  <2>4. QED
    BY <2>1, <2>2, <2>3
<1> SUFFICES \A r \in inForce' : DecideAt(r)'
  BY DEF DecideInv, DecideAt
<1>1. ASSUME NEW x \in Routers, Route(x) PROVE \A r \in inForce' : DecideAt(r)'
  <2>1. inForce = {} /\ inForce' = inForce
    BY <1>1, RouteProc DEF Route, EnableInv, history
  <2>2. QED
    BY <2>1
<1>2. ASSUME NEW a \in Adders, AddInitScript(a) PROVE \A r \in inForce' : DecideAt(r)'
  <2>1. \A r \in Requests : proc'[r] = proc[r]
    BY <1>r, <1>2, AddProc, HooksAssumption
  <2>2. QED
    BY <1>b, <2>1, <1>2 DEF AddInitScript, pageVars, browserVars, history
<1>3. ASSUME NEW g \in Procs, SendCall(g) PROVE \A r \in inForce' : DecideAt(r)'
  <2>1. /\ proc[g].st = "send" /\ proc'[g].st = "waiting"
        /\ \A h \in Procs : h # g => proc'[h] = proc[h]
    BY <1>3, SendStep
  <2>2. /\ Len(pipe') = Len(pipe) + 1 /\ Len(pipe) \in Nat
        /\ \A i \in 1..Len(pipe) : pipe'[i] = pipe[i]
        /\ pipe'[Len(pipe) + 1].g = g /\ pipe'[Len(pipe) + 1].do = proc[g].todo[1]
    BY <1>3, Queued
  <2>3. UNCHANGED <<routes, does, state, inForce, refused>>
    BY <1>3 DEF SendCall, pageVars, browserVars, history
  <2>4. ASSUME NEW r \in inForce PROVE DecideAt(r)'
    <3>0. /\ r \in Requests /\ r \in Procs /\ Wish(r)' = Wish(r) /\ DecideAt(r)
          /\ Tried(r) => Tried(r)'
      BY <1>i, <1>r, <1>t, <1>w, <2>3
    <3>1. CASE r # g
      <4>1. FromOf(r)' = FromOf(r)
        BY <2>2, <3>1 DEF FromOf
      <4>2. \A i \in 1..Len(pipe') : First(r, i)' => i \in 1..Len(pipe) /\ First(r, i)
        BY <4>1 DEF First, FromOf
      <4>3. proc'[r] = proc[r]
        BY <2>1, <3>0, <3>1
      <4>4. QED
        BY <2>2, <2>3, <3>0, <4>1, <4>2, <4>3 DEF DecideAt
    <3>2. CASE r = g
      <4>1. /\ \A i \in FromOf(r) : i \in FromOf(r)' /\ i \in 1..Len(pipe)
            /\ Len(pipe) + 1 \in FromOf(r)'
        BY <2>2, <3>2 DEF FromOf
      <4>2. FromOf(r)' \subseteq FromOf(r) \cup {Len(pipe) + 1}
        BY <2>2 DEF FromOf
      <4>3. ASSUME NEW i \in 1..Len(pipe'), First(r, i)', routes # <<>>,
                   state[r] = "held", ~Tried(r)
            PROVE  pipe'[i].do = Call(Wish(r))
        <5>1. CASE FromOf(r) = {}
          <6>1. i = Len(pipe) + 1
            BY <4>2, <4>3, <5>1 DEF First
          <6>2. QED
            BY <2>1, <2>2, <3>0, <3>2, <4>3, <5>1, <6>1 DEF DecideAt
        <5>2. CASE FromOf(r) # {}
          <6>1. PICK j \in FromOf(r) : TRUE
            BY <5>2
          <6>2. j \in 1..Len(pipe) /\ i <= j
            BY <4>1, <4>3, <6>1 DEF First
          <6>3. i \in FromOf(r) /\ \A k \in FromOf(r) : i <= k
            BY <2>2, <4>1, <4>2, <4>3, <6>2 DEF First
          <6>4. First(r, i) /\ i \in 1..Len(pipe)
            BY <4>1, <6>3 DEF First
          <6>5. QED
            BY <2>2, <3>0, <4>3, <6>4 DEF DecideAt
        <5>3. QED
          BY <5>1, <5>2
      <4>4. QED
        BY <2>1, <2>3, <3>0, <3>2, <4>1, <4>3 DEF DecideAt
    <3>3. QED
      BY <3>1, <3>2
  <2>5. QED
    BY <2>3, <2>4
<1>4. ASSUME NEW g \in Procs, CallReturns(g) PROVE \A r \in inForce' : DecideAt(r)'
  <2>1. UNCHANGED <<routes, does, pipe, state, inForce, refused>>
    BY <1>4 DEF CallReturns, pageVars, browserVars, history
  <2>2. /\ proc[g].st \in {"waiting", "resumed", "failed"}
        /\ \A h \in Procs : h # g => proc'[h] = proc[h]
    BY <1>4, ReturnsProc
  <2>3. ASSUME NEW r \in inForce PROVE DecideAt(r)'
    <3>0. /\ r \in Requests /\ r \in Procs /\ Wish(r)' = Wish(r) /\ DecideAt(r)
          /\ Tried(r) => Tried(r)'
      BY <1>i, <1>r, <1>t, <1>w, <2>1
    <3>1. FromOf(r)' = FromOf(r)
      BY <2>1 DEF FromOf
    <3>2. \A i \in 1..Len(pipe') : First(r, i)' <=> First(r, i)
      BY <3>1 DEF First
    <3>3. proc'[r] = proc[r] \/ proc[r].st \in {"waiting", "resumed", "failed"}
      BY <2>2, <3>0
    <3>4. QED
      BY <2>1, <3>0, <3>1, <3>2, <3>3 DEF DecideAt
  <2>4. QED
    BY <2>1, <2>3
<1>5. ASSUME NEW g \in Procs, CallTimesOut(g) PROVE \A r \in inForce' : DecideAt(r)'
  <2>1. UNCHANGED <<routes, does, pipe, state, inForce, refused>>
    BY <1>5 DEF CallTimesOut, pageVars, browserVars, history
  <2>2. /\ proc[g].st \in {"waiting", "resumed", "failed"}
        /\ \A h \in Procs : h # g => proc'[h] = proc[h]
    BY <1>5, ReturnsProc
  <2>3. ASSUME NEW r \in inForce PROVE DecideAt(r)'
    <3>0. /\ r \in Requests /\ r \in Procs /\ Wish(r)' = Wish(r) /\ DecideAt(r)
          /\ Tried(r) => Tried(r)'
      BY <1>i, <1>r, <1>t, <1>w, <2>1
    <3>1. FromOf(r)' = FromOf(r)
      BY <2>1 DEF FromOf
    <3>2. \A i \in 1..Len(pipe') : First(r, i)' <=> First(r, i)
      BY <3>1 DEF First
    <3>3. proc'[r] = proc[r] \/ proc[r].st \in {"waiting", "resumed", "failed"}
      BY <2>2, <3>0
    <3>4. QED
      BY <2>1, <3>0, <3>1, <3>2, <3>3 DEF DecideAt
  <2>4. QED
    BY <2>1, <2>3
<1>6. CASE OnReply
  <2>1. UNCHANGED <<routes, does, pipe, state, inForce, refused>>
    BY <1>6 DEF OnReply, pageVars, browserVars, history
  <2>2. ASSUME NEW r \in inForce PROVE DecideAt(r)'
    <3>0. /\ r \in Requests /\ r \in Procs /\ Wish(r)' = Wish(r) /\ DecideAt(r)
          /\ Tried(r) => Tried(r)'
      BY <1>i, <1>r, <1>t, <1>w, <2>1
    <3>1. proc'[r] = proc[r] \/ (proc[r].st = "waiting" /\ proc'[r].st \in {"resumed", "failed"})
      BY <3>0, <1>6, ReplyProc
    <3>2. FromOf(r)' = FromOf(r)
      BY <2>1 DEF FromOf
    <3>3. \A i \in 1..Len(pipe') : First(r, i)' <=> First(r, i)
      BY <3>2 DEF First
    <3>4. QED
      BY <2>1, <3>0, <3>1, <3>2, <3>3 DEF DecideAt
  <2>3. QED
    BY <2>1, <2>2
<1>7. CASE OnRequestWillBeSent
  <2>1. UNCHANGED <<routes, does, pipe, state, inForce, refused>>
    BY <1>7 DEF OnRequestWillBeSent, pageVars, browserVars, history
  <2>2. /\ wire[1].g \in Requests /\ wire[1].t = "request" /\ 1 \in 1..Len(wire)
        /\ state[wire[1].g] # "held" => proc' = proc
        /\ state[wire[1].g] = "held" =>
             /\ proc'[wire[1].g].st = "send"
             /\ proc'[wire[1].g].todo[1] = Call(Wish(wire[1].g))
        /\ \A h \in Procs : h # wire[1].g => proc'[h] = proc[h]
    BY <1>7, RequestProc, Taken DEF OnRequestWillBeSent
  <2>3. ASSUME NEW r \in inForce PROVE DecideAt(r)'
    <3>0. /\ r \in Requests /\ r \in Procs /\ Wish(r)' = Wish(r) /\ DecideAt(r)
          /\ Tried(r) => Tried(r)'
      BY <1>i, <1>r, <1>t, <1>w, <2>1
    <3>1. CASE r # wire[1].g \/ state[r] # "held"
      BY <1>a, <2>1, <2>2, <3>0, <3>1
    <3>2. CASE r = wire[1].g /\ state[r] = "held"
      <4>1. FromOf(r) = {}
        BY <1>r, <2>2, <3>2 DEF OnceAt, Announces
      <4>2. FromOf(r)' = {} /\ \A i \in 1..Len(pipe') : ~First(r, i)'
        BY <2>1, <4>1 DEF FromOf, First
      <4>3. QED
        BY <2>1, <2>2, <3>0, <3>2, <4>2 DEF DecideAt
    <3>3. QED
      BY <3>1, <3>2
  <2>4. QED
    BY <2>1, <2>3
<1>8. CASE OnDialogOpened
  <2>1. \A r \in Requests : proc'[r] = proc[r]
    BY <1>r, <1>8, DialogProc, HooksAssumption
  <2>2. QED
    BY <1>b, <2>1, <1>8 DEF OnDialogOpened, pageVars, browserVars, history
<1>9. CASE OnConsole
  BY <1>b, <1>9 DEF OnConsole, pageVars, browserVars, history
<1>10. CASE ConsoleTimesOut
  BY <1>b, <1>10 DEF ConsoleTimesOut, pageVars, browserVars, history
<1>11. CASE Serve
  <2>1. /\ \A i \in 1..Len(pipe') : i+1 \in 1..Len(pipe) /\ pipe'[i] = pipe[i+1]
        /\ 1 \in 1..Len(pipe) /\ Len(pipe') = Len(pipe) - 1 /\ pipe[1].g \in Procs
    BY <1>11, Served
  <2>2. UNCHANGED <<routes, does, proc, inForce, refused>>
    BY <1>11 DEF Serve, pageVars, browserVars, history
  <2>3. /\ \/ pipe[1].do.m = "enable" /\ UNCHANGED state
           \/ pipe[1].do.m \in Decisions /\ Put(pipe[1].g, "held", pipe[1].do.m)
           \/ pipe[1].do.m \in {"accept", "dismiss"}
                   /\ Put(pipe[1].g, "open", pipe[1].do.m)
           \/ pipe[1].do.m = "setInitScripts" /\ UNCHANGED state
        /\ pipe[1].do.m \in Asks(pipe[1].g)
    BY <1>11, Served
  <2>4. ASSUME NEW r \in inForce PROVE DecideAt(r)'
    <3>0. /\ r \in Requests /\ r \in Procs /\ Wish(r)' = Wish(r) /\ DecideAt(r)
          /\ Tried(r) => Tried(r)'
      BY <1>i, <1>r, <1>t, <1>w, <2>2
    <3>s. \A k \in Procs : \A s : state' = [state EXCEPT ![k] = s] /\ k # r
            => state'[r] = state[r]
      BY <3>0 DEF PlainOK
    <3>1. CASE r # pipe[1].g
      <4>1. state'[r] = state[r]
        BY <2>1, <2>3, <3>1, <3>s DEF Put
      <4>2. /\ FromOf(r)' = {} <=> FromOf(r) = {}
            /\ \A i \in 1..Len(pipe') : First(r, i)' => First(r, i+1)
        BY <1>s, <2>1, <3>1
      <4>3. QED
        BY <2>1, <2>2, <3>0, <4>1, <4>2 DEF DecideAt
    <3>2. CASE r = pipe[1].g
      <4>1. pipe[1].do.m \in Decisions /\ Put(r, "held", pipe[1].do.m)
        BY <1>r, <2>3, <3>0, <3>2 DEF Decisions
      <4>2. First(r, 1)
        BY <2>1, <3>2 DEF First, FromOf
      <4>3. CASE state[r] = "held"
        <5>1. state'[r] = pipe[1].do.m
          BY <3>0, <4>1, <4>3 DEF Put, PlainOK
        <5>2. routes # <<>> /\ ~Tried(r) => pipe[1].do.m = Wish(r)
          BY <2>1, <3>0, <4>2, <4>3 DEF DecideAt, Call
        <5>3. state'[r] # "held"
          BY <4>1, <5>1 DEF Decisions
        <5>4. QED
          BY <2>2, <3>0, <5>1, <5>2, <5>3 DEF DecideAt
      <4>4. QED
        BY <4>1, <4>3 DEF Put
    <3>3. QED
      BY <3>1, <3>2
  <2>5. QED
    BY <2>2, <2>4
<1>12. CASE Speak
  BY <1>b, <1>12 DEF Speak, pageVars, browserVars, history
<1>13. ASSUME NEW r \in Requests, Make(r) PROVE \A q \in inForce' : DecideAt(q)'
  <2>1. UNCHANGED <<routes, does, pipe, proc, refused>> /\ state[r] = "new"
    BY <1>13 DEF Make, pageVars, browserVars, history
  <2>2. state' = [state EXCEPT ![r] = IF intercepts THEN "held" ELSE "let go"]
    BY <1>13 DEF Make
  <2>3. \A q \in inForce' : q \in inForce \/ q = r
    BY <1>13 DEF Make
  <2>4. ASSUME NEW q \in inForce, q # r PROVE DecideAt(q)'
    <3>1. state'[q] = state[q]
      BY <1>i, <2>2, <2>4 DEF PlainOK
    <3>2. QED
      BY <1>a, <2>1, <3>1
  <2>5. ASSUME r \in inForce', routes # <<>> PROVE DecideAt(r)'
    <3>1. routes[1] \in Routers /\ routes[1] \in play
      <4>1. routes \in Seq(Routers)
        BY DEF PlainOK
      <4>2. routes[1] \in Routers /\ 1 \in 1..Len(routes)
        BY <2>5, <4>1, TailIs
      <4>3. QED
        BY <4>2 DEF EnableInv
    <3>2. proc[routes[1]].st = "done" /\ proc[routes[1]].ok
      BY <2>5, <1>13, <3>1 DEF Make, EnableInv
    <3>3. intercepts
      BY <2>5, <3>2 DEF EnableInv
    <3>4. state'[r] = "held"
      BY <2>2, <3>3 DEF PlainOK
    <3>5. proc[r].st = "idle" /\ FromOf(r) = {}
      BY <1>r, <2>1 DEF OnceAt
    <3>6. FromOf(r)' = {} /\ \A i \in 1..Len(pipe') : ~First(r, i)'
      BY <2>1, <3>5 DEF FromOf, First
    <3>7. QED
      BY <2>1, <3>4, <3>5, <3>6 DEF DecideAt
  <2>6. routes = <<>> => DecideAt(r)'
    BY <2>1 DEF DecideAt
  <2>7. QED
    BY <2>3, <2>4, <2>5, <2>6
<1>14. ASSUME NEW d \in Dialogs, Open(d) PROVE \A r \in inForce' : DecideAt(r)'
  <2>1. UNCHANGED <<routes, does, pipe, proc, inForce, refused>>
    BY <1>14 DEF Open, pageVars, browserVars, history
  <2>2. state' = [state EXCEPT ![d] = "open"]
    BY <1>14 DEF Open
  <2>3. \A r \in inForce : state'[r] = state[r]
    BY <1>i, <2>2, HooksAssumption DEF PlainOK
  <2>4. QED
    BY <1>a, <2>1, <2>3
<1>15. ASSUME NEW h \in {None, "accept", "leave"}, OnDialog(h)
       PROVE  \A r \in inForce' : DecideAt(r)'
  BY <1>b, <1>15 DEF OnDialog, pageVars, browserVars, history
<1>16. CASE UNCHANGED vars
  BY <1>b, <1>16 DEF vars, pageVars, browserVars, history, pageVars, browserVars,
     history
<1>17. CASE Refuse
  <2>1. /\ \A i \in 1..Len(pipe') : i+1 \in 1..Len(pipe) /\ pipe'[i] = pipe[i+1]
        /\ 1 \in 1..Len(pipe) /\ Len(pipe') = Len(pipe) - 1 /\ pipe[1] \in Sent
        /\ refused' = refused \cup {pipe[1]}
    BY <1>17, Refused
  <2>2. UNCHANGED <<routes, does, proc, state, inForce>>
    BY <1>17 DEF Refuse, pageVars, browserVars
  <2>3. ASSUME NEW r \in inForce PROVE DecideAt(r)'
    <3>0. /\ r \in Requests /\ Wish(r)' = Wish(r) /\ DecideAt(r)
          /\ Tried(r) => Tried(r)'
      BY <1>i, <1>t, <1>w, <2>1, <2>2
    <3>1. CASE r # pipe[1].g
      <4>1. /\ FromOf(r)' = {} <=> FromOf(r) = {}
            /\ \A i \in 1..Len(pipe') : First(r, i)' => First(r, i+1)
        BY <1>s, <2>1, <3>1
      <4>2. QED
        BY <2>1, <2>2, <3>0, <4>1 DEF DecideAt
    <3>2. CASE r = pipe[1].g /\ state[r] = "held" /\ routes # <<>> /\ ~Tried(r)
      <4>1. First(r, 1)
        BY <2>1, <3>2 DEF First, FromOf
      <4>2. pipe[1].do = Call(Wish(r))
        BY <2>1, <3>0, <3>2, <4>1 DEF DecideAt
      <4>3. pipe[1] = Decided(r, Wish(r))
        BY <2>1, <3>2, <4>2 DEF Sent, Decided
      <4>4. Tried(r)'
        BY <2>1, <3>0, <4>3 DEF Tried, Decided, Call
      <4>5. QED
        BY <4>4 DEF DecideAt
    <3>3. CASE state[r] # "held" \/ routes = <<>> \/ Tried(r)
      BY <2>2, <3>0, <3>3 DEF DecideAt
    <3>4. QED
      BY <3>1, <3>2, <3>3
  <2>4. QED
    BY <2>2, <2>3
<1>18. ASSUME NEW g \in Procs, SendFails(g) PROVE \A r \in inForce' : DecideAt(r)'
  <2>1. /\ proc[g].st = "send" /\ proc'[g].st \in {"done", "send"}
        /\ \A h \in Procs : h # g => proc'[h] = proc[h]
        /\ refused' = refused \cup {[g |-> g, do |-> proc[g].todo[1]]}
    BY <1>18, FailProc
  <2>2. UNCHANGED <<routes, does, pipe, state, inForce>>
    BY <1>18 DEF SendFails, pageVars, browserVars
  <2>3. ASSUME NEW r \in inForce PROVE DecideAt(r)'
    <3>0. /\ r \in Requests /\ r \in Procs /\ Wish(r)' = Wish(r) /\ DecideAt(r)
          /\ Tried(r) => Tried(r)'
      BY <1>i, <1>r, <1>t, <1>w, <2>1, <2>2
    <3>1. CASE r # g
      BY <1>a, <2>1, <2>2, <3>0, <3>1
    <3>2. CASE r = g /\ FromOf(r) = {} /\ state[r] = "held" /\ routes # <<>> /\ ~Tried(r)
      <4>1. proc[r].todo[1] = Call(Wish(r))
        BY <2>1, <3>0, <3>2 DEF DecideAt
      <4>2. Tried(r)'
        BY <2>1, <3>0, <3>2, <4>1 DEF Tried, Decided, Call
      <4>3. QED
        BY <4>2 DEF DecideAt
    <3>3. CASE \/ FromOf(r) # {} \/ state[r] # "held" \/ routes = <<>> \/ Tried(r)
      <4>1. FromOf(r)' = FromOf(r)
        BY <2>2 DEF FromOf
      <4>2. \A i \in 1..Len(pipe') : First(r, i)' <=> First(r, i)
        BY <4>1 DEF First
      <4>3. QED
        BY <2>2, <3>0, <3>3, <4>1, <4>2 DEF DecideAt
    <3>4. QED
      BY <3>1, <3>2, <3>3
  <2>4. QED
    BY <2>2, <2>3
<1>19. QED
  BY <1>1, <1>2, <1>3, <1>4, <1>5, <1>6, <1>7, <1>8, <1>9, <1>10, <1>11, <1>12, <1>13,
     <1>14, <1>15, <1>16, <1>17, <1>18 DEF Next, ReadLoop

-----------------------------------------------------------------------------
(* Every list of init scripts under way is the beginning of the page's. *)

IsStart(q, list) == Len(q) <= Len(list) /\ \A i \in 1..Len(q) : q[i] = list[i]

LEMMA ScriptsStep ==
  ASSUME PlainOK, ProcsInv, QueuesInv, ScriptsInv, [Next]_vars
  PROVE  ScriptsInv'
<1>r. \A b \in Adders : b \in Procs /\ Asks(b) = {"setInitScripts"}
  BY AsksOf
<1>a. ASSUME UNCHANGED <<initScripts, scripts, pipe>>,
             \A b \in Adders : \/ proc'[b] = proc[b]
                               \/ proc'[b].todo = proc[b].todo /\ Busy(b)
                               \/ proc'[b].st = "done"
      PROVE  ScriptsInv'
  BY <1>a DEF ScriptsInv, Begins, Sets, Busy
<1>b. ASSUME UNCHANGED <<initScripts, scripts, pipe>>,
             \A b \in Adders : proc'[b] = proc[b]
      PROVE  ScriptsInv'
  BY <1>a, <1>b
<1>1. ASSUME NEW x \in Routers, Route(x) PROVE ScriptsInv'
  <2>1. \A b \in Adders : proc'[b] = proc[b]
    BY <1>r, <1>1, RouteProc, HooksAssumption
  <2>2. QED
    BY <1>b, <2>1, <1>1 DEF Route, pageVars, browserVars, history
<1>2. ASSUME NEW a \in Adders, AddInitScript(a) PROVE ScriptsInv'
  <2>1. /\ proc'[a].st = "send" /\ proc'[a].todo = <<SetScripts(initScripts')>>
        /\ initScripts' \in Seq(Adders)
        /\ \A h \in Procs : h # a => proc'[h] = proc[h]
    BY <1>2, AddProc
  <2>2. initScripts' = Append(initScripts, a) /\ UNCHANGED <<scripts, pipe>>
    BY <1>2 DEF AddInitScript, pageVars, browserVars, history
  <2>3. /\ Len(initScripts') = Len(initScripts) + 1 /\ Len(initScripts) \in Nat
        /\ \A i \in 1..Len(initScripts) : initScripts'[i] = initScripts[i]
    <3>1. initScripts \in Seq(Adders)
      BY DEF PlainOK
    <3>2. QED
      BY <2>2, <3>1, AppendIs
  <2>4. \A q \in Seq(Adders) : Begins(q) =>
          /\ Len(q) <= Len(initScripts')
          /\ \A i \in 1..Len(q) : q[i] = initScripts'[i]
    <3> SUFFICES ASSUME NEW q \in Seq(Adders), Begins(q)
                 PROVE  /\ Len(q) <= Len(initScripts')
                        /\ \A i \in 1..Len(q) : q[i] = initScripts'[i]
      OBVIOUS
    <3>1. Len(q) \in Nat /\ Len(q) <= Len(initScripts)
      BY DEF Begins, IsStart
    <3>2. \A i \in 1..Len(q) : i \in 1..Len(initScripts) /\ q[i] = initScripts[i]
      BY <2>3, <3>1 DEF Begins, IsStart
    <3>3. QED
      BY <2>3, <3>1, <3>2
  <2>5. /\ Len(initScripts') <= Len(initScripts')
        /\ \A i \in 1..Len(initScripts') : initScripts'[i] = initScripts'[i]
    BY <2>3
  <2>6. Len(proc'[a].todo) = 1 /\ proc'[a].todo[1].list = initScripts'
    BY <2>1 DEF SetScripts
  <2>7. IsStart(scripts', initScripts')
    BY <2>2, <2>4 DEF PlainOK, ScriptsInv, Begins, IsStart
  <2>8. \A i \in 1..Len(pipe') : Sets(i)' => IsStart(pipe'[i].do.list, initScripts')
    <3>1. \A i \in 1..Len(pipe) : pipe[i].do.list \in Seq(Adders)
      <4>1. \A i \in 1..Len(pipe) : pipe[i] \in Sent
        <5>1. pipe \in Seq(Sent)
          BY DEF QueuesInv, Sent
        <5>2. QED
          BY <5>1
      <4>2. QED
        BY <4>1 DEF Sent, AnyCall
    <3>2. QED
      BY <2>2, <2>4, <3>1 DEF ScriptsInv, Begins, IsStart, Sets
  <2>9. ASSUME NEW b \in Adders, Busy(b)'
        PROVE  Len(proc'[b].todo) = 1 /\ IsStart(proc'[b].todo[1].list, initScripts')
    <3>1. CASE b = a
      BY <2>5, <2>6, <3>1 DEF Begins, IsStart
    <3>2. CASE b # a
      <4>1. proc'[b] = proc[b] /\ Busy(b)
        BY <1>r, <2>1, <2>9, <3>2 DEF Busy
      <4>2. Len(proc[b].todo) = 1 /\ Begins(proc[b].todo[1].list)
        BY <4>1 DEF ScriptsInv
      <4>3. proc[b].todo \in Seq(AnyCall) /\ proc[b].todo # <<>>
        BY <1>r, <4>1 DEF ProcsInv, Busy
      <4>4. proc[b].todo[1] \in AnyCall
        BY <4>3, TailIs
      <4>5. proc[b].todo[1].list \in Seq(Adders)
        BY <4>4 DEF AnyCall
      <4>6. QED
        BY <2>4, <4>1, <4>2, <4>5 DEF Begins, IsStart
    <3>3. QED
      BY <3>1, <3>2
  <2>10. QED
    BY <2>7, <2>8, <2>9 DEF ScriptsInv, Begins, IsStart
<1>3. ASSUME NEW g \in Procs, SendCall(g) PROVE ScriptsInv'
  <2>1. /\ proc[g].st = "send" /\ proc'[g].st = "waiting"
          /\ proc'[g].todo = proc[g].todo
        /\ proc[g].todo[1].m \in Asks(g)
        /\ \A h \in Procs : h # g => proc'[h] = proc[h]
    BY <1>3, SendStep
  <2>2. /\ Len(pipe') = Len(pipe) + 1 /\ Len(pipe) \in Nat
        /\ \A i \in 1..Len(pipe) : pipe'[i] = pipe[i]
        /\ pipe'[Len(pipe) + 1].g = g /\ pipe'[Len(pipe) + 1].do = proc[g].todo[1]
    BY <1>3, Queued
  <2>3. UNCHANGED <<initScripts, scripts>>
    BY <1>3 DEF SendCall, pageVars, browserVars, history
  <2>4. ASSUME NEW i \in 1..Len(pipe'), Sets(i)'
        PROVE  IsStart(pipe'[i].do.list, initScripts')
    <3>1. CASE i \in 1..Len(pipe)
      BY <2>2, <2>3, <2>4, <3>1 DEF ScriptsInv, Sets, Begins, IsStart
    <3>2. CASE i = Len(pipe) + 1
      <4>1. proc[g].todo[1].m = "setInitScripts"
        BY <2>2, <2>4, <3>2 DEF Sets
      <4>2. g \in Adders
        BY <2>1, <4>1, AsksOf DEF Procs, Decisions
      <4>3. Begins(proc[g].todo[1].list)
        BY <2>1, <4>2 DEF ScriptsInv, Busy
      <4>4. QED
        BY <2>2, <2>3, <3>2, <4>3 DEF Begins, IsStart
    <3>3. QED
      BY <2>2, <3>1, <3>2
  <2>5. ASSUME NEW b \in Adders, Busy(b)'
        PROVE  Len(proc'[b].todo) = 1 /\ IsStart(proc'[b].todo[1].list, initScripts')
    <3>1. proc'[b].todo = proc[b].todo /\ Busy(b)
      BY <1>r, <2>1, <2>5 DEF Busy
    <3>2. QED
      BY <2>3, <3>1 DEF ScriptsInv, Begins, IsStart
  <2>6. QED
    BY <2>3, <2>4, <2>5 DEF ScriptsInv, Begins, IsStart
<1>4. ASSUME NEW g \in Procs, CallReturns(g) PROVE ScriptsInv'
  <2>1. /\ proc[g].st \in {"waiting", "resumed", "failed"}
        /\ proc'[g].st = (IF Len(proc[g].todo) = 1 THEN "done" ELSE "send")
        /\ \A h \in Procs : h # g => proc'[h] = proc[h]
    BY <1>4, ReturnsProc
  <2>2. UNCHANGED <<initScripts, scripts, pipe, overtaken>>
    BY <1>4 DEF CallReturns, pageVars, browserVars, history
  <2>3. \A b \in Adders : \/ proc'[b] = proc[b]
                          \/ proc[b].st \in {"waiting", "resumed", "failed"}
                                  /\ proc'[b].st = "done"
    BY <1>r, <2>1 DEF ScriptsInv, Busy
  <2>4. QED
    BY <1>a, <2>2, <2>3
<1>5. ASSUME NEW g \in Procs, CallTimesOut(g) PROVE ScriptsInv'
  <2>1. /\ proc[g].st \in {"waiting", "resumed", "failed"}
        /\ proc'[g].st = (IF Len(proc[g].todo) = 1 THEN "done" ELSE "send")
        /\ \A h \in Procs : h # g => proc'[h] = proc[h]
    BY <1>5, ReturnsProc
  <2>2. UNCHANGED <<initScripts, scripts, pipe, overtaken>>
    BY <1>5 DEF CallTimesOut, pageVars, browserVars, history
  <2>3. \A b \in Adders : \/ proc'[b] = proc[b]
                          \/ proc[b].st \in {"waiting", "resumed", "failed"}
                                  /\ proc'[b].st = "done"
    BY <1>r, <2>1 DEF ScriptsInv, Busy
  <2>4. QED
    BY <1>a, <2>2, <2>3
<1>6. CASE OnReply
  <2>1. \A b \in Adders : \/ proc'[b] = proc[b]
                          \/ /\ proc[b].st = "waiting" /\ proc'[b].st \in {"resumed", "failed"}
                             /\ proc'[b].todo = proc[b].todo
    BY <1>r, <1>6, ReplyProc
  <2>2. UNCHANGED <<initScripts, scripts, pipe, overtaken>>
    BY <1>6 DEF OnReply, pageVars, browserVars, history
  <2>3. QED
    BY <1>a, <2>1, <2>2 DEF Busy
<1>7. CASE OnRequestWillBeSent
  <2>1. \A b \in Adders : proc'[b] = proc[b]
    BY <1>r, <1>7, RequestProc, HooksAssumption
  <2>2. QED
    BY <1>b, <2>1, <1>7 DEF OnRequestWillBeSent, pageVars, browserVars, history
<1>8. CASE OnDialogOpened
  <2>1. \A b \in Adders : proc'[b] = proc[b]
    BY <1>r, <1>8, DialogProc, HooksAssumption
  <2>2. QED
    BY <1>b, <2>1, <1>8 DEF OnDialogOpened, pageVars, browserVars, history
<1>9. CASE OnConsole
  BY <1>b, <1>9 DEF OnConsole, pageVars, browserVars, history
<1>10. CASE ConsoleTimesOut
  BY <1>b, <1>10 DEF ConsoleTimesOut, pageVars, browserVars, history
<1>11. CASE Serve
  <2>1. /\ \A i \in 1..Len(pipe') : i+1 \in 1..Len(pipe) /\ pipe'[i] = pipe[i+1]
        /\ 1 \in 1..Len(pipe)
    BY <1>11, Served
  <2>2. UNCHANGED <<initScripts, proc>>
    BY <1>11 DEF Serve, pageVars, browserVars, history
  <2>3. scripts' = scripts \/ (Sets(1) /\ scripts' = pipe[1].do.list)
    BY <1>11, Served DEF Sets
  <2>4. Begins(scripts')
    BY <2>1, <2>3 DEF ScriptsInv
  <2>5. \A i \in 1..Len(pipe') : Sets(i)' => Begins(pipe'[i].do.list)
    BY <2>1 DEF ScriptsInv, Sets
  <2>6. QED
    BY <2>2, <2>4, <2>5 DEF ScriptsInv, Begins, Busy
<1>12. CASE Speak
  BY <1>b, <1>12 DEF Speak, pageVars, browserVars, history
<1>13. ASSUME NEW r \in Requests, Make(r) PROVE ScriptsInv'
  BY <1>b, <1>13 DEF Make, pageVars, browserVars, history
<1>14. ASSUME NEW d \in Dialogs, Open(d) PROVE ScriptsInv'
  BY <1>b, <1>14 DEF Open, pageVars, browserVars, history
<1>15. ASSUME NEW h \in {None, "accept", "leave"}, OnDialog(h) PROVE ScriptsInv'
  BY <1>b, <1>15 DEF OnDialog, pageVars, browserVars, history
<1>16. CASE UNCHANGED vars
  BY <1>b, <1>16 DEF vars, pageVars, browserVars, history, pageVars, browserVars,
     history
<1>17. CASE Refuse
  <2>1. \A i \in 1..Len(pipe') : i+1 \in 1..Len(pipe) /\ pipe'[i] = pipe[i+1]
    BY <1>17, Refused
  <2>2. UNCHANGED <<initScripts, scripts, proc>>
    BY <1>17 DEF Refuse, pageVars, browserVars
  <2>3. \A i \in 1..Len(pipe') : Sets(i)' => Begins(pipe'[i].do.list)
    BY <2>1 DEF ScriptsInv, Sets
  <2>4. QED
    BY <2>2, <2>3 DEF ScriptsInv, Begins, Busy
<1>18. ASSUME NEW g \in Procs, SendFails(g) PROVE ScriptsInv'
  <2>1. /\ proc[g].st = "send"
        /\ proc'[g].st = (IF Len(proc[g].todo) = 1 THEN "done" ELSE "send")
        /\ \A h \in Procs : h # g => proc'[h] = proc[h]
    BY <1>18, FailProc
  <2>2. UNCHANGED <<initScripts, scripts, pipe>>
    BY <1>18 DEF SendFails, pageVars, browserVars
  <2>3. \A b \in Adders : proc'[b] = proc[b] \/ proc'[b].st = "done"
    BY <1>r, <2>1 DEF ScriptsInv, Busy
  <2>4. QED
    BY <1>a, <2>2, <2>3
<1>19. QED
  BY <1>1, <1>2, <1>3, <1>4, <1>5, <1>6, <1>7, <1>8, <1>9, <1>10, <1>11, <1>12, <1>13,
     <1>14, <1>15, <1>16, <1>17, <1>18 DEF Next, ReadLoop

(* Unless two were sending at once, the newest list is the last to arrive. *)
LEMMA NewestStep ==
  ASSUME PlainOK, ProcsInv, QueuesInv, ScriptsInv, NewestInv, [Next]_vars
  PROVE  NewestInv'
<1>r. \A b \in Adders : b \in Procs /\ Asks(b) = {"setInitScripts"}
  BY AsksOf
<1>l. ASSUME UNCHANGED initScripts, refused \subseteq refused' PROVE ListRefused => ListRefused'
  BY <1>l DEF ListRefused, SetScripts
<1>a. ASSUME UNCHANGED <<initScripts, scripts, pipe, overtaken>>, refused \subseteq refused',
             \A b \in Adders : \/ proc'[b] = proc[b]
                               \/ proc[b].st # "send" /\ proc'[b].st # "send"
      PROVE  NewestInv'
  <2>1. \A b \in Adders : Sending(b)' <=> Sending(b)
    BY <1>a DEF Sending
  <2>2. \A b \in Adders : Sending(b) => proc'[b] = proc[b]
    BY <1>a DEF Sending
  <2>3. \A i \in 1..Len(pipe) : Sets(i)' <=> Sets(i)
    BY <1>a DEF Sets
  <2>4. QED
    BY <1>a, <1>l, <2>1, <2>2, <2>3 DEF NewestInv
<1>b. ASSUME UNCHANGED <<initScripts, scripts, pipe, overtaken>>, refused \subseteq refused',
             \A b \in Adders : proc'[b] = proc[b]
      PROVE  NewestInv'
  BY <1>a, <1>b
<1> DEFINE Last(i) == Sets(i) /\ \A j \in 1..Len(pipe) : Sets(j) => j <= i
           Shifts  == /\ \A i \in 1..Len(pipe') : i+1 \in 1..Len(pipe) /\ pipe'[i] = pipe[i+1]
                      /\ 1 \in 1..Len(pipe) /\ Len(pipe') = Len(pipe) - 1
                      /\ Len(pipe) \in Nat
<1>n. ASSUME ~overtaken, \A b \in Adders : ~Sending(b), ~ListRefused
      PROVE  \A i \in 1..Len(pipe) : Last(i) => pipe[i].do.list = initScripts
  BY <1>n DEF NewestInv
<1>c. ASSUME Shifts, NEW i \in 1..Len(pipe'), Last(i)'
      PROVE  i+1 \in 1..Len(pipe) /\ Last(i+1) /\ pipe'[i] = pipe[i+1]
  <2>1. i+1 \in 1..Len(pipe) /\ Sets(i+1) /\ pipe'[i] = pipe[i+1]
    BY <1>c DEF Sets
  <2>2. ASSUME NEW j \in 1..Len(pipe), Sets(j), j # 1 PROVE j <= i+1
    <3>1. j-1 \in 1..Len(pipe') /\ (j-1)+1 = j
      BY <1>c, <2>2
    <3>2. pipe'[j-1] = pipe[j]
      BY <1>c, <3>1
    <3>3. Sets(j-1)'
      BY <2>2, <3>2 DEF Sets
    <3>4. QED
      BY <1>c, <3>1, <3>3
  <2>3. QED
    BY <1>c, <2>1, <2>2
<1>d. ASSUME Shifts, \A i \in 1..Len(pipe') : ~Sets(i)'
      PROVE  /\ \A i \in 1..Len(pipe) : Sets(i) => i = 1
             /\ Sets(1) => Last(1)
  <2>1. ASSUME NEW i \in 1..Len(pipe), Sets(i), i # 1 PROVE FALSE
    <3>1. i-1 \in 1..Len(pipe') /\ (i-1)+1 = i
      BY <1>d, <2>1
    <3>2. pipe'[i-1] = pipe[i] /\ ~Sets(i-1)'
      BY <1>d, <3>1
    <3>3. QED
      BY <2>1, <3>2 DEF Sets
  <2>2. QED
    BY <2>1
<1> HIDE DEF Last, Shifts
<1>1. ASSUME NEW x \in Routers, Route(x) PROVE NewestInv'
  <2>1. \A b \in Adders : proc'[b] = proc[b]
    BY <1>r, <1>1, RouteProc, HooksAssumption
  <2>2. QED
    BY <1>b, <2>1, <1>1 DEF Route, pageVars, browserVars, history
<1>2. ASSUME NEW a \in Adders, AddInitScript(a) PROVE NewestInv'
  <2>1. /\ proc'[a].st = "send" /\ proc'[a].todo = <<SetScripts(initScripts')>>
        /\ \A h \in Procs : h # a => proc'[h] = proc[h]
    BY <1>2, AddProc
  <2>2. proc'[a].todo[1].list = initScripts'
    BY <2>1 DEF SetScripts
  <2>3. ~overtaken' => \A b \in Adders : proc[b].st # "send"
    BY <1>2 DEF AddInitScript
  <2>4. ~overtaken' => \A b \in Adders : Sending(b)' => b = a
    BY <1>r, <2>1, <2>3 DEF Sending
  <2>5. Sending(a)'
    BY <2>1 DEF Sending
  <2>6. QED
    BY <2>2, <2>4, <2>5 DEF NewestInv
<1>3. ASSUME NEW g \in Procs, SendCall(g) PROVE NewestInv'
  <2>1. /\ proc[g].st = "send" /\ proc'[g].st = "waiting"
          /\ proc'[g].todo = proc[g].todo
        /\ proc[g].todo[1].m \in Asks(g)
        /\ \A h \in Procs : h # g => proc'[h] = proc[h]
    BY <1>3, SendStep
  <2>2. /\ Len(pipe') = Len(pipe) + 1 /\ Len(pipe) \in Nat
        /\ \A i \in 1..Len(pipe) : pipe'[i] = pipe[i]
        /\ pipe'[Len(pipe) + 1].g = g /\ pipe'[Len(pipe) + 1].do = proc[g].todo[1]
    BY <1>3, Queued
  <2>3. UNCHANGED <<initScripts, scripts, overtaken, refused>>
    BY <1>3 DEF SendCall, pageVars, browserVars, history
  <2>4. \A i \in 1..Len(pipe) : i \in 1..Len(pipe') /\ (Sets(i)' <=> Sets(i))
    BY <2>2 DEF Sets
  <2>5. Len(pipe) + 1 \in 1..Len(pipe')
        /\ \A i \in 1..Len(pipe') : i \in 1..Len(pipe) \/ i = Len(pipe) + 1
    BY <2>2
  <2>6. CASE g \in Adders
    <3>1. pipe'[Len(pipe) + 1].do.m = "setInitScripts"
      BY <1>r, <2>1, <2>2, <2>6 DEF Sets
    <3>2. SUFFICES ASSUME ~overtaken PROVE NewestInv'
      BY <2>3 DEF NewestInv
    <3>3. Sending(g) /\ proc[g].todo[1].list = initScripts
      BY <2>1, <2>6, <3>2 DEF NewestInv, Sending
    <3>4. \A b \in Adders : ~Sending(b)'
      BY <1>r, <2>1, <3>2, <3>3 DEF NewestInv, Sending
    <3>5. ASSUME NEW i \in 1..Len(pipe'), \A j \in 1..Len(pipe') : Sets(j)' => j <= i
          PROVE  pipe'[i].do.list = initScripts'
      <4>1. Len(pipe) + 1 <= i
        BY <2>5, <3>1, <3>5 DEF Sets
      <4>2. i = Len(pipe) + 1
        BY <2>2, <4>1
      <4>3. QED
        BY <2>2, <2>3, <3>3, <4>2
    <3>6. \E i \in 1..Len(pipe') : Sets(i)'
      BY <2>5, <3>1 DEF Sets
    <3>7. QED
      BY <3>4, <3>5, <3>6 DEF NewestInv
  <2>7. CASE g \notin Adders
    <3>1. pipe'[Len(pipe) + 1].do.m # "setInitScripts"
      BY <2>1, <2>2, <2>7, AsksOf DEF Sets, Procs, Decisions
    <3>2. \A b \in Adders : proc'[b] = proc[b] /\ (Sending(b)' <=> Sending(b))
      BY <1>r, <2>1, <2>7 DEF Sending
    <3>3. \A i \in 1..Len(pipe') : Sets(i)' => i \in 1..Len(pipe) /\ Sets(i)
      BY <2>4, <2>5, <3>1 DEF Sets
    <3>4. QED
      BY <1>l, <2>2, <2>3, <2>4, <3>2, <3>3 DEF NewestInv
  <2>8. QED
    BY <2>6, <2>7
<1>4. ASSUME NEW g \in Procs, CallReturns(g) PROVE NewestInv'
  <2>1. /\ proc[g].st \in {"waiting", "resumed", "failed"}
        /\ proc'[g].st = (IF Len(proc[g].todo) = 1 THEN "done" ELSE "send")
        /\ \A h \in Procs : h # g => proc'[h] = proc[h]
    BY <1>4, ReturnsProc
  <2>2. UNCHANGED <<initScripts, scripts, pipe, overtaken, refused>>
    BY <1>4 DEF CallReturns, pageVars, browserVars, history
  <2>3. \A b \in Adders : \/ proc'[b] = proc[b]
                          \/ proc[b].st \in {"waiting", "resumed", "failed"}
                                  /\ proc'[b].st = "done"
    BY <1>r, <2>1 DEF ScriptsInv, Busy
  <2>4. QED
    BY <1>a, <2>2, <2>3
<1>5. ASSUME NEW g \in Procs, CallTimesOut(g) PROVE NewestInv'
  <2>1. /\ proc[g].st \in {"waiting", "resumed", "failed"}
        /\ proc'[g].st = (IF Len(proc[g].todo) = 1 THEN "done" ELSE "send")
        /\ \A h \in Procs : h # g => proc'[h] = proc[h]
    BY <1>5, ReturnsProc
  <2>2. UNCHANGED <<initScripts, scripts, pipe, overtaken, refused>>
    BY <1>5 DEF CallTimesOut, pageVars, browserVars, history
  <2>3. \A b \in Adders : \/ proc'[b] = proc[b]
                          \/ proc[b].st \in {"waiting", "resumed", "failed"}
                                  /\ proc'[b].st = "done"
    BY <1>r, <2>1 DEF ScriptsInv, Busy
  <2>4. QED
    BY <1>a, <2>2, <2>3
<1>6. CASE OnReply
  <2>1. \A b \in Adders : \/ proc'[b] = proc[b]
                          \/ /\ proc[b].st = "waiting" /\ proc'[b].st \in {"resumed", "failed"}
                             /\ proc'[b].todo = proc[b].todo
    BY <1>r, <1>6, ReplyProc
  <2>2. UNCHANGED <<initScripts, scripts, pipe, overtaken, refused>>
    BY <1>6 DEF OnReply, pageVars, browserVars, history
  <2>3. QED
    BY <1>a, <2>1, <2>2
<1>7. CASE OnRequestWillBeSent
  <2>1. \A b \in Adders : proc'[b] = proc[b]
    BY <1>r, <1>7, RequestProc, HooksAssumption
  <2>2. QED
    BY <1>b, <2>1, <1>7 DEF OnRequestWillBeSent, pageVars, browserVars, history
<1>8. CASE OnDialogOpened
  <2>1. \A b \in Adders : proc'[b] = proc[b]
    BY <1>r, <1>8, DialogProc, HooksAssumption
  <2>2. QED
    BY <1>b, <2>1, <1>8 DEF OnDialogOpened, pageVars, browserVars, history
<1>9. CASE OnConsole
  BY <1>b, <1>9 DEF OnConsole, pageVars, browserVars, history
<1>10. CASE ConsoleTimesOut
  BY <1>b, <1>10 DEF ConsoleTimesOut, pageVars, browserVars, history
<1>11. CASE Serve
  <2>1. Shifts
    BY <1>11, Served DEF Shifts
  <2>2. UNCHANGED <<initScripts, proc, overtaken, refused>>
    BY <1>11 DEF Serve, pageVars, browserVars, history
  <2>3. /\ Sets(1) => scripts' = pipe[1].do.list
        /\ ~Sets(1) => scripts' = scripts
    BY <1>11, Served DEF Sets, Decisions
  <2>4. \A b \in Adders : Sending(b)' <=> Sending(b)
    BY <2>2 DEF Sending
  <2>5. ListRefused => ListRefused'
    BY <1>l, <2>2
  <2>6. SUFFICES ASSUME ~overtaken, \A b \in Adders : ~Sending(b), ~ListRefused
                 PROVE  /\ \A i \in 1..Len(pipe') : Last(i)' => pipe'[i].do.list = initScripts
                        /\ (\A i \in 1..Len(pipe') : ~Sets(i)') => scripts' = initScripts
    BY <2>2, <2>4, <2>5 DEF NewestInv, Last
  <2>7. ASSUME NEW i \in 1..Len(pipe'), Last(i)' PROVE pipe'[i].do.list = initScripts
    BY <1>c, <1>n, <2>1, <2>6, <2>7
  <2>8. ASSUME \A i \in 1..Len(pipe') : ~Sets(i)' PROVE scripts' = initScripts
    <3>1. CASE Sets(1)
      BY <1>d, <1>n, <2>1, <2>3, <2>6, <2>8, <3>1 DEF Shifts
    <3>2. CASE ~Sets(1)
      BY <1>d, <2>1, <2>3, <2>6, <2>8, <3>2 DEF NewestInv
    <3>3. QED
      BY <3>1, <3>2
  <2>9. QED
    BY <2>7, <2>8
<1>12. CASE Speak
  BY <1>b, <1>12 DEF Speak, pageVars, browserVars, history
<1>13. ASSUME NEW r \in Requests, Make(r) PROVE NewestInv'
  BY <1>b, <1>13 DEF Make, pageVars, browserVars, history
<1>14. ASSUME NEW d \in Dialogs, Open(d) PROVE NewestInv'
  BY <1>b, <1>14 DEF Open, pageVars, browserVars, history
<1>15. ASSUME NEW h \in {None, "accept", "leave"}, OnDialog(h) PROVE NewestInv'
  BY <1>b, <1>15 DEF OnDialog, pageVars, browserVars, history
<1>16. CASE UNCHANGED vars
  BY <1>b, <1>16 DEF vars, pageVars, browserVars, history, pageVars, browserVars,
     history
<1>17. CASE Refuse
  <2>1. /\ Shifts /\ pipe[1] \in Sent /\ pipe[1].do \in AnyCall
        /\ pipe[1].do.m \in Asks(pipe[1].g) /\ refused' = refused \cup {pipe[1]}
    BY <1>17, Refused DEF Shifts
  <2>2. UNCHANGED <<initScripts, scripts, proc, overtaken>>
    BY <1>17 DEF Refuse, pageVars, browserVars
  <2>3. \A b \in Adders : Sending(b)' <=> Sending(b)
    BY <2>2 DEF Sending
  <2>4. SUFFICES ASSUME ~overtaken, \A b \in Adders : ~Sending(b), ~ListRefused'
                 PROVE  /\ \A i \in 1..Len(pipe') : Last(i)' => pipe'[i].do.list = initScripts
                        /\ (\A i \in 1..Len(pipe') : ~Sets(i)') => scripts = initScripts
    BY <2>2, <2>3 DEF NewestInv, Last
  <2>5. ~ListRefused
    BY <1>l, <2>1, <2>2, <2>4
  <2>6. ASSUME NEW i \in 1..Len(pipe'), Last(i)' PROVE pipe'[i].do.list = initScripts
    BY <1>c, <1>n, <2>1, <2>4, <2>5, <2>6
  <2>7. ASSUME \A i \in 1..Len(pipe') : ~Sets(i)' PROVE scripts = initScripts
    <3>1. CASE Sets(1)
      <4>1. pipe[1].do.list = initScripts
        BY <1>d, <1>n, <2>1, <2>4, <2>5, <2>7, <3>1 DEF Shifts
      <4>2. pipe[1].g \in Adders
        BY <2>1, <3>1, AsksOf DEF Sets, Sent, Procs, Decisions
      <4>3. pipe[1].do = SetScripts(initScripts)
        BY <2>1, <3>1, <4>1 DEF Sets, SetScripts, AnyCall
      <4>4. pipe[1] = [g |-> pipe[1].g, do |-> SetScripts(initScripts)]
        BY <2>1, <4>3 DEF Sent
      <4>5. ListRefused'
        BY <2>1, <2>2, <4>2, <4>4 DEF ListRefused, SetScripts
      <4>6. QED
        BY <2>4, <4>5
    <3>2. CASE ~Sets(1)
      BY <1>d, <2>1, <2>4, <2>5, <2>7, <3>2 DEF NewestInv
    <3>3. QED
      BY <3>1, <3>2
  <2>8. QED
    BY <2>6, <2>7
<1>18. ASSUME NEW g \in Procs, SendFails(g) PROVE NewestInv'
  <2>1. /\ proc[g].st = "send" /\ proc[g].todo[1] \in AnyCall
        /\ proc[g].todo[1].m \in Asks(g)
        /\ proc'[g].st = (IF Len(proc[g].todo) = 1 THEN "done" ELSE "send")
        /\ \A h \in Procs : h # g => proc'[h] = proc[h]
        /\ refused' = refused \cup {[g |-> g, do |-> proc[g].todo[1]]}
    BY <1>18, FailProc
  <2>2. UNCHANGED <<initScripts, scripts, pipe, overtaken>>
    BY <1>18 DEF SendFails, pageVars, browserVars
  <2>3. CASE g \notin Adders
    BY <1>b, <1>r, <2>1, <2>2, <2>3
  <2>4. CASE g \in Adders /\ ~overtaken
    <3>1. Sending(g) /\ proc[g].todo[1].list = initScripts
      BY <2>1, <2>4 DEF NewestInv, Sending
    <3>2. proc[g].todo[1] = SetScripts(initScripts)
      BY <1>r, <2>1, <2>4, <3>1 DEF SetScripts, AnyCall
    <3>3. ListRefused'
      BY <2>1, <2>2, <2>4, <3>2 DEF ListRefused, SetScripts
    <3>4. proc'[g].st = "done"
      BY <2>1, <2>4 DEF ScriptsInv, Busy
    <3>5. \A b \in Adders : ~Sending(b)'
      BY <1>r, <2>1, <2>4, <3>1, <3>4 DEF NewestInv, Sending
    <3>6. QED
      BY <3>3, <3>5 DEF NewestInv
  <2>5. CASE overtaken
    BY <2>2, <2>5 DEF NewestInv
  <2>6. QED
    BY <2>3, <2>4, <2>5
<1>19. QED
  BY <1>1, <1>2, <1>3, <1>4, <1>5, <1>6, <1>7, <1>8, <1>9, <1>10, <1>11, <1>12, <1>13,
     <1>14, <1>15, <1>16, <1>17, <1>18 DEF Next, ReadLoop

-----------------------------------------------------------------------------
(* The inductive invariant *)

HooksIInv == TypeOK /\ HooksInv

LEMMA HooksInit == Init => HooksIInv
<1> SUFFICES ASSUME Init PROVE HooksIInv
  OBVIOUS
<1>1. PlainOK
  <2>1. routes = <<>> /\ initScripts = <<>> /\ scripts = <<>>
    BY DEF Init
  <2>2. /\ routes \in Seq(Routers) /\ initScripts \in Seq(Adders)
          /\ scripts \in Seq(Adders)
    BY <2>1
  <2>3. /\ play \in Plays /\ does \in [Routers -> Handlers]
          /\ interceptEnabled \in BOOLEAN
        /\ dialogHandler \in {None, "accept", "leave"}
        /\ loop \in {"free", "stalled"} /\ intercepts \in BOOLEAN
    BY DEF Init
  <2>4. state \in [Requests \cup Dialogs ->
                    {"new", "held", "let go", "resume", "abort", "fulfill",
                     "open", "accept", "dismiss"}]
    BY DEF Init
  <2>5. QED
    BY <2>2, <2>3, <2>4 DEF PlainOK
<1>2. ProcsInv
  <2>1. NewProc \in Proc /\ NewProc.st = "idle" /\ NewProc.todo = <<>>
          /\ Len(NewProc.todo) = 0
    BY DEF NewProc, Proc
  <2>2. proc \in [Procs -> Proc] /\ \A g \in Procs : proc[g] = NewProc
    BY <2>1 DEF Init
  <2> HIDE DEF NewProc
  <2>3. QED
    BY <2>1, <2>2 DEF ProcsInv, Proc, Busy
<1>3. pipe = <<>> /\ wire = <<>> /\ Len(pipe) = 0 /\ Len(wire) = 0
  BY DEF Init
<1>4. QueuesInv
  BY <1>3 DEF QueuesInv
<1>5. EnableInv
  BY <1>3 DEF Init, EnableInv
<1>6. \A g \in Procs : proc[g].st = "idle"
  BY DEF Init, NewProc
<1>7. OnceInv
  BY <1>3, <1>6, AsksOf DEF OnceInv, FromOf, Announces
<1>8. DecideInv
  BY DEF Init, DecideInv
<1>9. ScriptsInv
  BY <1>3, <1>6, AsksOf DEF Init, ScriptsInv, Begins, Busy
<1>10. NewestInv
  BY <1>3, <1>6, AsksOf DEF Init, NewestInv, Sending
<1>11. TypeOK
  BY <1>1, <1>2, <1>4, TypesTogether
<1>12. QED
  BY <1>2, <1>4, <1>5, <1>7, <1>8, <1>9, <1>10, <1>11 DEF HooksIInv, HooksInv

LEMMA HooksNext == HooksIInv /\ [Next]_vars => HooksIInv'
<1> SUFFICES ASSUME HooksIInv, [Next]_vars PROVE HooksIInv'
  OBVIOUS
<1>1. /\ PlainOK /\ ProcsInv /\ QueuesInv /\ EnableInv /\ OnceInv /\ DecideInv
      /\ ScriptsInv /\ NewestInv
  BY DEF HooksIInv, HooksInv, TypeOK, PlainOK
<1>2. PlainOK' /\ ProcsInv' /\ QueuesInv'
  BY <1>1, PlainStep, ProcsStep, QueuesStep
<1>3. EnableInv' /\ OnceInv'
  BY <1>1, EnableStep, OnceStep
<1>4. DecideInv'
  BY <1>1, DecideStep
<1>5. ScriptsInv' /\ NewestInv'
  BY <1>1, ScriptsStep, NewestStep
<1>6. TypeOK'
  <2>1. PlainOK /\ ProcsInv /\ QueuesInv => TypeOK
    BY TypesTogether
  <2>2. (PlainOK /\ ProcsInv /\ QueuesInv => TypeOK)'
    BY TypesTogether, PTL
  <2>3. QED
    BY <1>2, <2>2
<1>7. QED
  BY <1>2, <1>3, <1>4, <1>5, <1>6 DEF HooksIInv, HooksInv

LEMMA HooksHold == Spec => []HooksIInv
BY HooksInit, HooksNext, PTL DEF Spec

-----------------------------------------------------------------------------
(* What the page, its goroutines, the transport and the browser hold has   *)
(* its type, whatever is hung on the page.                                 *)
THEOREM HooksTypeCorrect == Spec => []TypeOK
<1>1. HooksIInv => TypeOK
  BY DEF HooksIInv
<1>2. QED
  BY <1>1, HooksHold, PTL

(* However the calls interleave and time out, a request made when every    *)
(* Page.Route call had returned without an error is held by the browser    *)
(* until the first decision of the first route that matches it arrives,    *)
(* and that decision is what becomes of it (Page.onRequestWillBeSent),     *)
(* unless that decision could not be sent or the browser refused it.       *)
THEOREM RoutesDecide == Spec => []RouteDecides
<1>1. HooksIInv => RouteDecides
  BY DEF HooksIInv, HooksInv, DecideInv, Tried, RouteDecides
<1>2. QED
  BY <1>1, HooksHold, PTL

(* The browser's init scripts are always the first ones of the page's, and *)
(* all of them once no AddInitScript is under way, unless two were between *)
(* their snapshot and their send together, or that very list could not be  *)
(* sent or was refused (Page.setInitScripts).                              *)
THEOREM ScriptsArrive == Spec => []ScriptsSettle
<1>1. HooksIInv => ScriptsSettle
  <2> SUFFICES ASSUME HooksIInv PROVE ScriptsSettle
    OBVIOUS
  <2>1. Begins(scripts) /\ NewestInv /\ ProcsInv
    BY DEF HooksIInv, HooksInv, ScriptsInv
  <2>2. ASSUME ~overtaken, pipe = <<>>,
               \A a \in Adders : proc[a].st # "send", ~ListRefused
        PROVE  scripts = initScripts
    <3>1. \A a \in Adders : ~Sending(a)
      BY <2>2 DEF Sending
    <3>2. \A i \in 1..Len(pipe) : ~Sets(i)
      BY <2>2
    <3>3. QED
      BY <2>1, <2>2, <3>1, <3>2 DEF NewestInv
  <2>3. QED
    BY <2>1, <2>2 DEF ScriptsSettle, Begins
<1>2. QED
  BY <1>1, HooksHold, PTL
=============================================================================
