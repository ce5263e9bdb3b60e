------------------------------ MODULE PageHooks ------------------------------
(***************************************************************************)
(* What a program hangs on a page: routes that decide intercepted          *)
(* requests, init scripts, dialog and console handlers.                    *)
(*                                                                         *)
(* Each of these is a goroutine that makes calls one after the other: one  *)
(* per Page.Route, per AddInitScript, per intercepted request and for the  *)
(* dialog.  pipe and wire are the two directions of the transport, both in *)
(* order.  readLoop handles the wire; a console handler runs on readLoop   *)
(* itself, and one that makes a call stalls it until the call's deadline.  *)
(***************************************************************************)
EXTENDS Naturals, Sequences

CONSTANTS
  Routers,     (* executions of Page.Route, each with a pattern and handler *)
  Requests,    (* the requests the page makes                              *)
  Adders,      (* executions of AddInitScript, each with a script          *)
  Dialogs,     (* the dialogs the page opens                               *)
  Matches,     (* Matches[x]: the requests that match x's pattern          *)
  Handlers,    (* what handlers may do: sequences of decisions             *)
  Plays,       (* which of the above, or the console, take part together   *)
  None

Decisions == {"resume", "abort", "fulfill"}
Procs     == Routers \cup Requests \cup Adders \cup Dialogs

ASSUME HooksAssumption == /\ Matches \in [Routers -> SUBSET Requests]
                          /\ Handlers \subseteq Seq(Decisions)
                          /\ \A p \in Plays : p \subseteq Procs \cup {"console"}
                          /\ None \notin Routers
                          /\ Routers \cap (Requests \cup Adders \cup Dialogs) = {}
                          /\ Requests \cap (Adders \cup Dialogs) = {}
                          /\ Adders \cap Dialogs = {}

VARIABLES
  play, does,    (* who takes part, and what each router's handler does    *)
  (* the page *)
  routes, interceptEnabled, initScripts, dialogHandler,
  (* the goroutines: st, the calls each has left, and how it ended *)
  proc,
  (* the transport, and whether readLoop is free *)
  pipe, wire, loop,
  (* the browser *)
  intercepts, state, scripts,
  (* history: the requests made when every route was in force; whether init *)
  (* scripts could overtake each other; whether the console has spoken; the *)
  (* calls that could not be sent or that the browser has refused           *)
  inForce, overtaken, spoke, refused

pageVars    == <<routes, interceptEnabled, initScripts, dialogHandler>>
browserVars == <<intercepts, state, scripts>>
history     == <<inForce, overtaken, spoke, refused>>
vars == <<play, does, pageVars, proc, pipe, wire, loop, browserVars, history>>

NewProc == [st |-> "idle", todo |-> <<>>, ok |-> TRUE]

TypeOK ==
  /\ play \in Plays /\ does \in [Routers -> Handlers]
  /\ routes \in Seq(Routers) /\ interceptEnabled \in BOOLEAN
  /\ initScripts \in Seq(Adders)
  /\ dialogHandler \in {None, "accept", "leave"}
  /\ \A g \in Procs : /\ proc[g].st \in {"idle", "send", "waiting", "resumed", "failed",
                                         "done"}
                      /\ proc[g].ok \in BOOLEAN
                      /\ proc[g].todo = <<>> => proc[g].st \in {"idle", "done"}
  /\ \A i \in 1..Len(pipe) : pipe[i].g \in Procs
  /\ loop \in {"free", "stalled"}
  /\ intercepts \in BOOLEAN /\ scripts \in Seq(Adders)
  /\ state \in [Requests \cup Dialogs ->
                  {"new", "held", "let go", "resume", "abort", "fulfill",
                   "open", "accept", "dismiss"}]

Init ==
  /\ play \in Plays /\ does \in [Routers -> Handlers]
  /\ \A x \in Routers \ play : does[x] = <<>>
  /\ routes = <<>> /\ interceptEnabled = FALSE /\ initScripts = <<>>
  /\ dialogHandler = None
  /\ proc = [g \in Procs |-> NewProc]
  /\ pipe = <<>> /\ wire = <<>> /\ loop = "free"
  /\ intercepts = FALSE /\ scripts = <<>>
  /\ state = [r \in Requests \cup Dialogs |-> "new"]
  /\ inForce = {}
  /\ overtaken = FALSE /\ spoke = FALSE /\ refused = {}

-----------------------------------------------------------------------------
(* Calls *)

Call(m) == [m |-> m, list |-> <<>>]
SetScripts(list) == [m |-> "setInitScripts", list |-> list]
Calls(ms) == [i \in DOMAIN ms |-> Call(ms[i])]

(* Goroutine g makes the calls in todo, or has none to make. *)
Begin_AlwaysCalls(g, todo) ==
  proc' = [proc EXCEPT ![g].st = "send", ![g].todo = todo]
Begin(g, todo) ==
  proc' = [proc EXCEPT ![g].st = IF todo = <<>> THEN "done" ELSE "send", ![g].todo = todo]

SendCall(g) ==
  /\ proc[g].st = "send"
  /\ pipe' = Append(pipe, [g |-> g, do |-> Head(proc[g].todo)])
  /\ proc' = [proc EXCEPT ![g].st = "waiting"]
  /\ UNCHANGED <<play, does, pageVars, wire, loop, browserVars, history>>

(* The call has returned, with the reply, an error, or by its deadline.  A   *)
(* decision counts as made all the same: Route.handled was set before it.  *)
Return(g, ok) ==
  LET rest == Tail(proc[g].todo) IN
  proc' = [proc EXCEPT ![g].todo = rest, ![g].ok = @ /\ ok,
                       ![g].st = IF rest = <<>> THEN "done" ELSE "send"]
SendFails(g) ==
  /\ proc[g].st = "send"
  /\ refused' = refused \cup {[g |-> g, do |-> Head(proc[g].todo)]}
  /\ Return(g, FALSE)
  /\ UNCHANGED <<play, does, pageVars, pipe, wire, loop, browserVars, inForce, overtaken,
                 spoke>>
CallReturns(g) ==
  /\ proc[g].st \in {"resumed", "failed"}
  /\ Return(g, proc[g].st = "resumed")
  /\ UNCHANGED <<play, does, pageVars, pipe, wire, loop, browserVars, history>>
CallTimesOut(g) ==
  /\ proc[g].st = "waiting"
  /\ Return(g, FALSE)
  /\ UNCHANGED <<play, does, pageVars, pipe, wire, loop, browserVars, history>>

-----------------------------------------------------------------------------
(* Page.Route: only the first enables interception *)

NeedEnable_Inverted == interceptEnabled
NeedEnable == ~interceptEnabled

Route(x) ==
  /\ x \in play /\ proc[x].st = "idle"
  /\ routes' = Append(routes, x)
  /\ interceptEnabled' = TRUE
  /\ Begin(x, IF NeedEnable THEN Calls(<<"enable">>) ELSE <<>>)
  /\ UNCHANGED <<play, does, initScripts, dialogHandler, pipe, wire, loop, browserVars,
                 history>>

(* The loop over routes returns at the first that matches. *)
matches(i, r) == r \in Matches[routes[i]]
matchRouteLocked_Last(r) ==
  IF \A i \in DOMAIN routes : ~matches(i, r) THEN None
  ELSE routes[CHOOSE i \in DOMAIN routes :
                matches(i, r) /\ \A j \in DOMAIN routes : j > i => ~matches(j, r)]
matchRouteLocked(r) ==
  IF \A i \in DOMAIN routes : ~matches(i, r) THEN None
  ELSE routes[CHOOSE i \in DOMAIN routes :
                matches(i, r) /\ \A j \in DOMAIN routes : j < i => ~matches(j, r)]

(* The handler's decisions; Continue when it makes none, or none matches. *)
Decides_MatchedOnly(x) == IF x = None THEN <<>> ELSE does[x]
Decides(x) == IF x = None \/ does[x] = <<>> THEN <<"resume">> ELSE does[x]

-----------------------------------------------------------------------------
(* AddInitScript: the list is read under the lock and sent after it.        *)

AddInitScript_OnlyTheNew(a) ==
  /\ a \in play /\ proc[a].st = "idle"
  /\ initScripts' = Append(initScripts, a)
  /\ Begin(a, <<SetScripts(<<a>>)>>)
  /\ overtaken' = (overtaken \/ \E b \in Adders : proc[b].st = "send")
  /\ UNCHANGED <<play, does, routes, interceptEnabled, dialogHandler, pipe, wire, loop,
                 browserVars, inForce, spoke, refused>>
AddInitScript(a) ==
  /\ a \in play /\ proc[a].st = "idle"
  /\ initScripts' = Append(initScripts, a)
  /\ Begin(a, <<SetScripts(initScripts')>>)
  /\ overtaken' = (overtaken \/ \E b \in Adders : proc[b].st = "send")
  /\ UNCHANGED <<play, does, routes, interceptEnabled, dialogHandler, pipe, wire, loop,
                 browserVars, inForce, spoke, refused>>

-----------------------------------------------------------------------------
(* The handlers of events *)

Take(t) == loop = "free" /\ wire # <<>> /\ Head(wire).t = t /\ wire' = Tail(wire)
G == Head(wire).g

OnReply ==
  /\ \E t \in {"reply", "error"} :
       /\ Take(t)
       /\ proc' = IF proc[G].st = "waiting" /\ proc[G].todo[1] = Head(wire).do
                  THEN [proc EXCEPT ![G].st = IF t = "reply" THEN "resumed" ELSE "failed"]
                  ELSE proc
  /\ UNCHANGED <<play, does, pageVars, pipe, loop, browserVars, history>>

(* Only an intercepted request gets a goroutine. *)
OnRequestWillBeSent ==
  /\ Take("request")
  /\ IF state[G] = "held"
     THEN Begin(G, Calls(Decides(matchRouteLocked(G))))
     ELSE UNCHANGED proc
  /\ UNCHANGED <<play, does, pageVars, pipe, loop, browserVars, history>>

(* With no handler the dialog is dismissed, off the event loop. *)
Answers_HandlerOnly(h) == IF h = "accept" THEN <<"accept">> ELSE <<>>
Answers(h) ==
  CASE h = None -> <<"dismiss">> [] h = "accept" -> <<"accept">> [] OTHER -> <<>>
OnDialogOpened ==
  /\ Take("dialog")
  /\ Begin(G, Calls(Answers(dialogHandler)))
  /\ UNCHANGED <<play, does, pageVars, pipe, loop, browserVars, history>>

OnDialog(h) ==
  /\ dialogHandler # h /\ \E d \in Dialogs \cap play : state[d] = "new"
  /\ dialogHandler' = h
  /\ UNCHANGED <<play, does, routes, interceptEnabled, initScripts, proc, pipe, wire, loop,
                 browserVars, history>>

(* A console handler may make a call, which nobody can answer meanwhile. *)
OnConsole ==
  /\ Take("console")
  /\ loop' \in {"free", "stalled"}
  /\ UNCHANGED <<play, does, pageVars, proc, pipe, browserVars, history>>
ConsoleTimesOut ==
  /\ loop = "stalled" /\ loop' = "free"
  /\ UNCHANGED <<play, does, pageVars, proc, pipe, wire, browserVars, history>>

-----------------------------------------------------------------------------
(* The browser.  It may refuse any call (Abort with an error code it does   *)
(* not know, say), and a decision on what is decided already it does.      *)

Reply(t, c) == wire' = Append(wire, [t |-> t, g |-> c.g, do |-> c.do])
Put(g, from, s) == state[g] = from /\ state' = [state EXCEPT ![g] = s]

Serve ==
  /\ pipe # <<>> /\ pipe' = Tail(pipe) /\ Reply("reply", Head(pipe))
  /\ LET g == Head(pipe).g  c == Head(pipe).do IN
     \/ c.m = "enable" /\ intercepts' = TRUE /\ UNCHANGED <<state, scripts>>
     \/ c.m \in Decisions /\ Put(g, "held", c.m) /\ UNCHANGED <<intercepts, scripts>>
     \/ c.m \in {"accept", "dismiss"} /\ Put(g, "open", c.m)
        /\ UNCHANGED <<intercepts, scripts>>
     \/ c.m = "setInitScripts" /\ scripts' = c.list /\ UNCHANGED <<intercepts, state>>
  /\ UNCHANGED <<play, does, pageVars, proc, loop, history>>

Refuse ==
  /\ pipe # <<>> /\ pipe' = Tail(pipe) /\ Reply("error", Head(pipe))
  /\ refused' = refused \cup {Head(pipe)}
  /\ UNCHANGED <<play, does, pageVars, proc, loop, browserVars, inForce, overtaken, spoke>>

Tell(t, g) == wire' = Append(wire, [t |-> t, g |-> g, do |-> None])
Make(r) ==
  /\ r \in play /\ state[r] = "new"
  /\ state' = [state EXCEPT ![r] = IF intercepts THEN "held" ELSE "let go"]
  /\ inForce' = IF \A x \in play \cap Routers : proc[x].st = "done" /\ proc[x].ok
                THEN inForce \cup {r} ELSE inForce
  /\ Tell("request", r)
  /\ UNCHANGED <<play, does, pageVars, proc, pipe, loop, intercepts, scripts, overtaken,
                 spoke, refused>>
Open(d) ==
  /\ d \in play /\ state[d] = "new"
  /\ state' = [state EXCEPT ![d] = "open"]
  /\ Tell("dialog", d)
  /\ UNCHANGED <<play, does, pageVars, proc, pipe, loop, intercepts, scripts, history>>
Speak ==
  /\ "console" \in play /\ ~spoke /\ spoke' = TRUE
  /\ Tell("console", None)
  /\ UNCHANGED <<play, does, pageVars, proc, pipe, loop, browserVars, inForce,
                 overtaken, refused>>

ReadLoop == OnReply \/ OnRequestWillBeSent \/ OnDialogOpened \/ OnConsole
Next ==
  \/ ReadLoop \/ ConsoleTimesOut \/ Serve \/ Refuse \/ Speak
  \/ \E x \in Routers : Route(x)
  \/ \E a \in Adders : AddInitScript(a)
  \/ \E g \in Procs : SendCall(g) \/ SendFails(g) \/ CallReturns(g) \/ CallTimesOut(g)
  \/ \E r \in Requests : Make(r)
  \/ \E d \in Dialogs : Open(d)
  \/ \E h \in {None, "accept", "leave"} : OnDialog(h)

(* The goroutines, readLoop and the browser run, and deadlines pass on     *)
(* readLoop; whether a program adds a hook, or a page acts, is open.       *)
Fairness ==
  /\ WF_vars(ReadLoop) /\ WF_vars(ConsoleTimesOut) /\ WF_vars(Serve \/ Refuse)
  /\ \A g \in Procs : WF_vars(SendCall(g)) /\ WF_vars(CallReturns(g))
Spec == Init /\ [][Next]_vars /\ Fairness

-----------------------------------------------------------------------------
(* PROPERTIES *)

(* Interleaving: a request made when every Page.Route call has returned    *)
(* without an error is held, and what becomes of it is the first decision  *)
(* of the first route added that matches it; it goes on when the handler   *)
(* decides nothing or no route matches, whatever else is being called.     *)
(* Only when that decision cannot be sent, or the browser refuses it, the  *)
(* handler's next one may take its place.                                  *)
Owners(r) == {i \in 1..Len(routes) : r \in Matches[routes[i]]}
Wish(r) == LET own == CHOOSE i \in Owners(r) : \A j \in Owners(r) : i <= j
           IN IF Owners(r) = {} \/ does[routes[own]] = <<>> THEN "resume"
              ELSE does[routes[own]][1]
Decided(r, m) == [g |-> r, do |-> Call(m)]
RouteDecides ==
  \A r \in inForce : routes # <<>> =>
    state[r] \in {"held", Wish(r)} \/ Decided(r, Wish(r)) \in refused

(* Ordering: the browser's init scripts are always the first ones of the   *)
(* page's, in order (Page.setInitScripts replaces the list), and once no   *)
(* AddInitScript is under way they are all of them, unless two were        *)
(* between their snapshot and their send at the same time, or that very    *)
(* list could not be sent or was refused.                                  *)
ListRefused == \E a \in Adders : [g |-> a, do |-> SetScripts(initScripts)] \in refused
ScriptsSettle ==
  /\ Len(scripts) <= Len(initScripts)
  /\ \A i \in 1..Len(scripts) : scripts[i] = initScripts[i]
  /\ (/\ ~overtaken /\ pipe = <<>>
      /\ \A a \in Adders : proc[a].st # "send")
       => scripts = initScripts \/ ListRefused

(* Liveness: a held request is decided, and a dialog answered unless the   *)
(* program's handler leaves it open, also when a console handler stalls    *)
(* readLoop until its call times out and when the deciding call times out. *)
(* Only when every call of its goroutine has failed or been refused is it  *)
(* left waiting: nothing falls back on Continue then, handled being set    *)
(* (route.go:73, page.go:295), and no dialog is dismissed twice.           *)
AllRefused(g) ==
  /\ proc[g].st = "done" /\ \A i \in 1..Len(pipe) : pipe[i].g # g
  /\ \E c \in refused : c.g = g
NothingIsLeftWaiting ==
  /\ \A r \in Requests : state[r] = "held" ~> state[r] # "held" \/ AllRefused(r)
  /\ \A d \in Dialogs :
       (state[d] = "open" /\ dialogHandler # "leave") ~> state[d] # "open" \/ AllRefused(d)
-----------------------------------------------------------------------------
(* The inductive strengthenings the proofs use. *)

(* What a goroutine may ask of the browser, and the shape of the queues. *)
Asks(g) ==
  CASE g \in Routers  -> {"enable"}
    [] g \in Requests -> Decisions
    [] g \in Adders   -> {"setInitScripts"}
    [] g \in Dialogs  -> {"accept", "dismiss"}
Methods    == {"enable", "setInitScripts", "accept", "dismiss"} \cup Decisions
AnyCall    == [m : Methods, list : Seq(Adders)]
Busy(g)    == proc[g].st \in {"send", "waiting", "resumed", "failed"}

ProcsInv ==
  /\ proc \in [Procs -> [st : {"idle", "send", "waiting", "resumed", "failed", "done"},
                         todo : Seq(AnyCall), ok : BOOLEAN]]
  /\ \A g \in Procs : /\ Busy(g) <=> proc[g].todo # <<>>
                      /\ \A i \in 1..Len(proc[g].todo) : proc[g].todo[i].m \in Asks(g)
QueuesInv ==
  /\ pipe \in Seq([g : Procs, do : AnyCall])
  /\ \A i \in 1..Len(pipe) : pipe[i].do.m \in Asks(pipe[i].g)
  /\ wire \in Seq([t : {"reply", "error"}, g : Procs, do : AnyCall]
                   \cup [t : {"request"}, g : Requests, do : {None}]
                   \cup [t : {"dialog"}, g : Dialogs, do : {None}]
                   \cup [t : {"console"}, g : {None}, do : {None}])

(* The first route's call enables interception, if it returned well. *)
EnableInv ==
  /\ inForce \subseteq Requests
  /\ inForce # {} => \A x \in play \cap Routers : proc[x].st = "done" /\ proc[x].ok
  /\ \A i \in 1..Len(routes) : routes[i] \in play
  /\ interceptEnabled <=> routes # <<>>
  /\ routes # <<>> =>
       /\ proc[routes[1]].st # "idle"
       /\ proc[routes[1]].st = "resumed" => intercepts
       /\ proc[routes[1]].st = "done" /\ proc[routes[1]].ok => intercepts
  /\ \A i \in 1..Len(wire) :
       wire[i].t = "reply" /\ wire[i].do.m = "enable" => intercepts

(* A request is announced once, and the goroutine it gets has its decisions *)
(* in the pipe, in order, until the first of them is served or refused.     *)
FromOf(r)   == {i \in 1..Len(pipe) : pipe[i].g = r}
First(r, i) == i \in FromOf(r) /\ \A j \in FromOf(r) : i <= j
Announces(i, r) == wire[i].t = "request" /\ wire[i].g = r
OnceInv ==
  \A r \in Requests :
    /\ FromOf(r) # {} => proc[r].st # "idle"
    /\ state[r] = "new" =>
         proc[r].st = "idle" /\ \A i \in 1..Len(wire) : ~Announces(i, r)
    /\ \A i \in 1..Len(wire) : Announces(i, r) =>
         /\ proc[r].st = "idle"
         /\ \A j \in 1..Len(wire) : Announces(j, r) => i = j
Tried(r) == Decided(r, Wish(r)) \in refused
DecideInv ==
  \A r \in inForce : routes # <<>> /\ ~Tried(r) =>
    /\ state[r] \in {"held", Wish(r)}
    /\ state[r] = "held" =>
         /\ proc[r].st = "send" /\ FromOf(r) = {} => proc[r].todo[1] = Call(Wish(r))
         /\ proc[r].st \in {"waiting", "resumed", "failed", "done"} => FromOf(r) # {}
         /\ \A i \in 1..Len(pipe) : First(r, i) => pipe[i].do = Call(Wish(r))

(* The newest list of init scripts is the one that is to arrive last, if it *)
(* arrives at all.                                                          *)
Begins(list) ==
  Len(list) <= Len(initScripts) /\ \A i \in 1..Len(list) : list[i] = initScripts[i]
Sending(a) == a \in Adders /\ proc[a].st = "send"
Sets(i)    == pipe[i].do.m = "setInitScripts"
ScriptsInv ==
  /\ Begins(scripts)
  /\ \A i \in 1..Len(pipe) : Sets(i) => Begins(pipe[i].do.list)
  /\ \A a \in Adders : Busy(a) => Len(proc[a].todo) = 1 /\ Begins(proc[a].todo[1].list)
NewestInv ==
  ~overtaken =>
    /\ \A a, b \in Adders : Sending(a) /\ Sending(b) => a = b
    /\ \A a \in Adders : Sending(a) => proc[a].todo[1].list = initScripts
    /\ (\A a \in Adders : ~Sending(a)) /\ ~ListRefused =>
         /\ \A i \in 1..Len(pipe) :
              Sets(i) /\ (\A j \in 1..Len(pipe) : Sets(j) => j <= i) =>
                pipe[i].do.list = initScripts
         /\ (\A i \in 1..Len(pipe) : ~Sets(i)) => scripts = initScripts

HooksInv == /\ ProcsInv /\ QueuesInv /\ EnableInv /\ OnceInv /\ DecideInv
            /\ ScriptsInv /\ NewestInv
=============================================================================
