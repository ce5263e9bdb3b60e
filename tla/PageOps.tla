------------------------------ MODULE PageOps ------------------------------
(***************************************************************************)
(* Operations on a page's document: Evaluate, the wait helpers, locators,  *)
(* element handles, frames' boxes and the input they send.  An operation   *)
(* is a sequence of calls (Programs); between two of them nothing is held, *)
(* so the page may navigate, move its elements or be driven by another     *)
(* goroutine.  What the calls name is what Page knew when they were sent:  *)
(* the execution context and frames that readLoop took from the events.    *)
(*                                                                         *)
(* The page has one main frame, at most one child frame per document, and  *)
(* one element that every selector matches, a check box that takes text.   *)
(***************************************************************************)
EXTENDS Naturals, Sequences

CONSTANTS
  Ops,         (* executions of an operation                               *)
  MaxDocs,     (* bound: documents the main frame shows                    *)
  MaxShifts,   (* bound: layout changes                                    *)
  Plans,       (* what the executions do together: operations, or None     *)
  Framed,      (* the plans in which documents have child frames           *)
  Calm,        (* the plans in which the page does nothing of its own      *)
  None

ASSUME PageAssumption == MaxDocs \in Nat \ {0} /\ MaxShifts \in Nat /\ Framed \cup Calm \subseteq Plans

Docs   == 1..MaxDocs
Main   == 0              (* the id of the main frame *)
Frames == {Main} \cup Docs (* frame d is the child frame of document d *)

-----------------------------------------------------------------------------
(* The calls each operation makes *)

Click == <<"move", "down", "up">>
Press == <<"keydown", "keyup">>
ToCenter_NoScroll == <<"quads">>
ToCenter == <<"scroll", "quads">>
Screenshot == ToCenter \o <<"shot">>
PageShot   == <<"evaluate", "shot">>
FrameBox   == <<"findFrame", "adopt", "quads">>
SetStorage == <<"evaluate", "evaluate">>                   (* key by key *)
HandleOps ==
  [Click         |-> ToCenter \o Click,
   Hover         |-> ToCenter \o <<"move">>,
   Fill          |-> <<"fill">>,
   Type          |-> <<"focus", "text">>,
   Check         |-> <<"checked">> \o ToCenter \o Click,
   Uncheck       |-> <<"checked">> \o ToCenter \o Click,
   GetAttribute  |-> <<"read">>,
   BoundingBox   |-> <<"quads">>,
   SetInputFiles |-> <<"files">>,
   Screenshot    |-> Screenshot,
   Press         |-> <<"focus">> \o Press]
(* A locator resolves its selector first, and waits for it. *)
LocatorOps == [k \in DOMAIN HandleOps |-> <<"resolve">> \o HandleOps[k]]
PageOnly ==
  [Evaluate        |-> <<"evaluate">>,
   PageShot        |-> PageShot,
   SetStorage      |-> SetStorage,
   WaitForSelector |-> <<"poll">>,
   IsVisible       |-> <<"look", "read">>,
   FrameBox        |-> FrameBox]
Kinds == DOMAIN LocatorOps \cup DOMAIN PageOnly
Program(k) == IF k \in DOMAIN LocatorOps THEN LocatorOps[k] ELSE PageOnly[k]

Evaluates == {"evaluate", "poll", "resolve", "look"}  (* they wait until ready *)
Polls     == {"poll", "resolve"}                      (* they try again        *)
OnElement == {"fill", "focus", "checked", "read"}     (* Runtime.callFunction  *)
ByFrame   == {"scroll", "quads", "files"}             (* a frame and an object *)
Steps == Evaluates \cup OnElement \cup ByFrame
           \cup {"findFrame", "adopt", "move", "down", "up", "keydown", "keyup",
                 "text", "shot"}
Acts == {"Click", "Fill", "Type", "Press", "SetInputFiles"}


VARIABLES
  op,    (* the operations                                                 *)
  page,  (* what Page knows                                                *)
  web,   (* the document the browser shows                                 *)
  wire,  (* the messages readLoop has yet to handle, in order              *)
  req    (* the request of each operation that the browser has yet to serve *)

vars == <<op, page, web, wire, req>>

Plan == [o \in Ops |-> op[o].prog]
Ctx == [frame : Frames, doc : Docs, world : {"main", "isolated"}]
Box == [doc : Docs, lay : 0..MaxShifts]
Operation ==
  [prog : Kinds \cup {None}, at : 0..7,
   phase : {"idle", "go", "sent", "answered", "done"},
   ok : BOOLEAN, yes : BOOLEAN, saw : Box \cup {None},     (* the last reply *)
   box : Box \cup {None}, obj : Docs \cup {None},         (* its local variables *)
   result : {"ok", "error", "timeout", None},
   disturbed : BOOLEAN, landed : BOOLEAN, good : BOOLEAN]
Request == [step : Steps, obj : Docs \cup {None}, box : Box \cup {None},
            ctx : Ctx \cup {None}]
Message == [t : {"context"}, f : Frames, c : Ctx]
             \cup [t : {"attached", "committed", "detached"}, f : Frames]
             \cup [t : {"reply"}, o : Ops, ok : BOOLEAN, yes : BOOLEAN, saw : Box]
PageState ==
  [mainFrameID : {Main, None}, execCtx : Ctx \cup {None}, ready : BOOLEAN,
   frames : [Frames -> {"unknown", "attached", "committed"}],
   frameCtx : [Frames -> Ctx \cup {None}]]
WebState ==
  [doc : Docs, lay : 0..MaxShifts, present : BOOLEAN, shown : BOOLEAN,
   checked : BOOLEAN, focus : BOOLEAN, pressed : {"no", "element", "elsewhere"},
   child : {"never", "attached", "gone"}]

(* No value is none of the values, and the plans are plans. *)
ASSUME NoneAssumption == /\ None # Main /\ None \notin Kinds /\ None \notin Ctx
                         /\ None \notin Request /\ None \notin {"ok", "error", "timeout"}
                         /\ Plans \subseteq [Ops -> Kinds \cup {None}]

Idle == [prog |-> None, at |-> 0, phase |-> "idle", ok |-> FALSE, yes |-> FALSE,
         saw |-> None, box |-> None, obj |-> None, result |-> None,
         disturbed |-> FALSE, landed |-> FALSE, good |-> FALSE]

TypeOK ==
  /\ op \in [Ops -> Operation] /\ req \in [Ops -> Request \cup {None}]
  /\ wire \in Seq(Message) /\ page \in PageState /\ web \in WebState

MainCtx(d, w) == [t |-> "context", f |-> Main, c |-> [frame |-> Main, doc |-> d, world |-> w]]
ChildCtx(d)   == [t |-> "context", f |-> d, c |-> [frame |-> d, doc |-> d, world |-> "main"]]
Event(t, f)   == [t |-> t, f |-> f]

(* The session has begun: the browser has told of the first document, *)
(* whose element is out of view.                                      *)
Init ==
  /\ \E plan \in Plans : op = [o \in Ops |-> [Idle EXCEPT !.prog = plan[o]]]
  /\ req = [o \in Ops |-> None]
  /\ page = [mainFrameID |-> None, execCtx |-> None, ready |-> FALSE,
             frames |-> [f \in Frames |-> "unknown"], frameCtx |-> [f \in Frames |-> None]]
  /\ \E p, c \in BOOLEAN :
       web = [doc |-> 1, lay |-> 0, present |-> p, shown |-> FALSE, checked |-> c,
              focus |-> FALSE, pressed |-> "no", child |-> "never"]
  /\ wire = <<Event("attached", Main), MainCtx(1, "main"), MainCtx(1, "isolated")>>

-----------------------------------------------------------------------------
(* The event handlers.  The commit of a frame that is not known adds it.   *)

Signal(p) == [p EXCEPT !.ready = @ \/ (p.mainFrameID # None /\ p.execCtx # None)]

OnExecCtxCreated_AnyWorld(m) ==
  LET first == IF page.mainFrameID = None THEN m.f ELSE page.mainFrameID
  IN Signal([page EXCEPT !.mainFrameID = first, !.frameCtx[m.f] = m.c,
               !.execCtx = IF m.f = first THEN m.c ELSE @])
OnExecCtxCreated_AnyFrame(m) ==
  LET first == IF page.mainFrameID = None THEN m.f ELSE page.mainFrameID
  IN Signal(IF m.c.world = "main"
            THEN [page EXCEPT !.mainFrameID = first, !.frameCtx[m.f] = m.c, !.execCtx = m.c]
            ELSE [page EXCEPT !.mainFrameID = first])
OnExecCtxCreated(m) ==
  LET first == IF page.mainFrameID = None THEN m.f ELSE page.mainFrameID
  IN Signal(IF m.c.world = "main"
            THEN [page EXCEPT !.mainFrameID = first, !.frameCtx[m.f] = m.c,
                    !.execCtx = IF m.f = first THEN m.c ELSE @]
            ELSE [page EXCEPT !.mainFrameID = first])

OnFrameAttached_AnyFrame(m) ==
  Signal([page EXCEPT !.frames[m.f] = "attached", !.mainFrameID = m.f])
OnFrameAttached(m) ==
  Signal([page EXCEPT !.frames[m.f] = "attached",
            !.mainFrameID = IF m.f = Main /\ @ = None THEN Main ELSE @])

OnFrameDetached_KeepsContext(m) == [page EXCEPT !.frames[m.f] = "unknown"]
OnFrameDetached(m) == [page EXCEPT !.frames[m.f] = "unknown", !.frameCtx[m.f] = None]

OnCommitted(m) == [page EXCEPT !.frames[m.f] = "committed"]

(* readLoop handles the next message; a reply wakes the call it answers,   *)
(* and is dropped when that call has given up.                             *)
Handle ==
  /\ wire # <<>> /\ wire' = Tail(wire)
  /\ LET m == Head(wire) IN
     \/ m.t = "context"   /\ page' = OnExecCtxCreated(m) /\ UNCHANGED op
     \/ m.t = "attached"  /\ page' = OnFrameAttached(m) /\ UNCHANGED op
     \/ m.t = "detached"  /\ page' = OnFrameDetached(m) /\ UNCHANGED op
     \/ m.t = "committed" /\ page' = OnCommitted(m) /\ UNCHANGED op
     \/ /\ m.t = "reply" /\ UNCHANGED page
        /\ op' = IF op[m.o].phase = "sent"
                 THEN [op EXCEPT ![m.o] = [@ EXCEPT !.phase = "answered", !.ok = m.ok,
                                             !.yes = m.yes, !.saw = m.saw]]
                 ELSE op
  /\ UNCHANGED <<web, req>>

-----------------------------------------------------------------------------
(* The operations *)

Running(o) == op[o].phase \in {"go", "sent", "answered"}
Step(o)    == Program(op[o].prog)[op[o].at]
Wants(o)   == op[o].prog = "Check"

(* History: an operation is disturbed when something else than itself      *)
(* changes what it works on, the browser refuses one of its calls, or it   *)
(* begins behind the browser's back.                                       *)
Behind == \E i \in 1..Len(wire) : wire[i].t # "reply"
Disturb(O, who) == [o \in Ops |-> IF o \in who /\ O[o].phase \in {"go", "sent", "answered"}
                                  THEN [O[o] EXCEPT !.disturbed = TRUE] ELSE O[o]]

Start(o) ==
  /\ op[o].phase = "idle" /\ op[o].prog # None
  /\ op' = [op EXCEPT ![o] = [@ EXCEPT !.at = 1, !.phase = "go", !.disturbed = Behind]]
  /\ UNCHANGED <<page, web, wire, req>>

(* The next call is sent, naming what Page knows now. *)
Send(o) ==
  /\ op[o].phase = "go"
  /\ Step(o) # "findFrame"
  /\ Step(o) \in Evaluates => page.ready
  /\ req' = [req EXCEPT ![o] =
       [step |-> Step(o), obj |-> op[o].obj, box |-> op[o].box,
        ctx |-> IF Step(o) = "adopt" THEN page.frameCtx[Main] ELSE page.execCtx]]
  /\ op' = [op EXCEPT ![o].phase = "sent"]
  /\ UNCHANGED <<page, web, wire>>

IsGood(o) == CASE op[o].prog \in {"Check", "Uncheck"} -> web.checked = Wants(o)
               [] op[o].prog \in Acts -> op[o].landed
               [] OTHER -> TRUE
Finish(o, how) ==
  [op EXCEPT ![o] = [@ EXCEPT !.phase = "done", !.result = how, !.good = IsGood(o),
                       !.saw = None, !.box = None, !.ok = FALSE, !.yes = FALSE]]
Advance(o) ==
  LET c == op[o] IN
  IF c.at = Len(Program(c.prog)) THEN Finish(o, "ok")
  ELSE [op EXCEPT ![o] =
         [c EXCEPT !.at = c.at + 1, !.phase = "go", !.saw = None, !.ok = FALSE, !.yes = FALSE,
            !.obj = IF Step(o) \in {"resolve", "look"} THEN c.saw.doc ELSE c.obj,
            !.box = IF Step(o) = "quads" THEN c.saw ELSE c.box]]

(* A frame whose URL matches is known: its owner is the main frame. *)
FindFrame(o) ==
  /\ op[o].phase = "go" /\ Step(o) = "findFrame"
  /\ \E f \in Docs : page.frames[f] = "committed" /\ op' = [Advance(o) EXCEPT ![o].obj = f]
  /\ UNCHANGED <<page, web, wire, req>>

Answered(o) == op[o].phase = "answered"
Found(o)    == op[o].ok /\ op[o].yes

(* A wait helper that found nothing, or failed, sleeps and tries again. *)
TryAgain(o) ==
  /\ Answered(o) /\ Step(o) \in Polls /\ ~Found(o)
  /\ op' = [op EXCEPT ![o] = [@ EXCEPT !.phase = "go", !.saw = None, !.ok = FALSE, !.yes = FALSE]]

(* setChecked clicks only a box that is not yet as wanted. *)
Already_Inverted(o) == Step(o) = "checked" /\ op[o].yes # Wants(o)
Already(o) == Step(o) = "checked" /\ op[o].yes = Wants(o)

Proceed(o) ==
  /\ Answered(o) /\ op[o].ok
  /\ Step(o) \in Polls => op[o].yes
  /\ op' = IF Already(o) \/ (Step(o) = "look" /\ ~op[o].yes)
           THEN Finish(o, "ok") ELSE Advance(o)

Fail(o) ==
  /\ Answered(o) /\ ~op[o].ok /\ Step(o) \notin Polls
  /\ op' = Finish(o, "error")

(* The deadline of the call that is out, or of the wait: a request that    *)
(* was sent may still be served.                                           *)
TimeOut_CallsOnly(o) ==
  /\ op[o].phase = "sent" /\ Step(o) \notin Polls
  /\ op' = Finish(o, "timeout")
TimeOut(o) ==
  /\ \/ op[o].phase = "sent"
     \/ op[o].phase = "go" /\ Step(o) \in Evaluates \cup {"findFrame"}
     \/ op[o].phase = "answered" /\ Step(o) \in Polls /\ ~Found(o)
  /\ op' = Finish(o, "timeout")

Resume(o) ==
  /\ TryAgain(o) \/ Proceed(o) \/ Fail(o)
  /\ UNCHANGED <<page, web, wire, req>>
Elapse(o) == TimeOut(o) /\ UNCHANGED <<page, web, wire, req>>

-----------------------------------------------------------------------------
(* The browser.  An object belongs to the document it was found in, and a  *)
(* context to the document it was created for; mouse and keys have neither: *)
(* they go to what is at the point, and to what has the focus.             *)

Live(c) == c # None /\ c.doc = web.doc /\ (c.frame # Main => web.child = "attached")
Serves(r) ==
  CASE r.step \in Evaluates -> Live(r.ctx)
    [] r.step \in OnElement -> Live(r.ctx) /\ r.obj = web.doc
    [] r.step \in ByFrame   -> r.obj = web.doc
    [] r.step = "adopt"     -> Live(r.ctx) /\ r.obj = web.doc /\ web.child = "attached"
    [] OTHER                -> TRUE
Says(r) == IF r.step = "checked" THEN web.checked ELSE web.present

Here   == [doc |-> web.doc, lay |-> web.lay]
Hit(r) == r.box = Here /\ web.shown
Effect(r) ==
  CASE r.step = "scroll" -> [web EXCEPT !.shown = TRUE]
    [] r.step \in {"fill", "focus"} -> [web EXCEPT !.focus = TRUE]
    [] r.step = "down" -> [web EXCEPT !.pressed = IF Hit(r) THEN "element" ELSE "elsewhere",
                                      !.focus = Hit(r)]
    [] r.step = "up" -> [web EXCEPT !.pressed = "no",
                           !.checked = IF web.pressed = "element" /\ Hit(r) THEN ~@ ELSE @]
    [] OTHER -> web
Lands(o, r) ==
  CASE r.step = "up"                  -> web.pressed = "element" /\ Hit(r)
    [] r.step \in {"text", "keydown"} -> web.focus
    [] r.step = "keyup"               -> op[o].landed /\ web.focus
    [] OTHER                          -> TRUE
Touches == {"fill", "focus", "down", "up", "text", "keydown", "keyup"}

Serve(o) ==
  /\ req[o] # None /\ req' = [req EXCEPT ![o] = None]
  /\ LET r == req[o] IN
     /\ wire' = Append(wire, [t |-> "reply", o |-> o, ok |-> Serves(r), yes |-> Says(r),
                              saw |-> Here])
     /\ web' = IF Serves(r) THEN Effect(r) ELSE web
     /\ op' = Disturb([op EXCEPT ![o].landed = Serves(r) /\ Lands(o, r)],
                      IF r.step \in Touches THEN Ops \ {o} ELSE {})
  /\ UNCHANGED page

(* The call is refused, or what it answers is of no use to the client: an  *)
(* exception, no content quads, no owner element.                          *)
Refuse(o) ==
  /\ req[o] # None /\ req' = [req EXCEPT ![o] = None]
  /\ wire' = Append(wire, [t |-> "reply", o |-> o, ok |-> FALSE, yes |-> Says(req[o]),
                           saw |-> Here])
  /\ op' = Disturb(op, {o})
  /\ UNCHANGED <<page, web>>

(* Another document in the main frame; its child frames go first. *)
Navigate ==
  /\ web.doc < MaxDocs /\ Plan \notin Calm
  /\ LET d == web.doc + 1
         gone == IF web.child = "attached" THEN <<Event("detached", web.doc)>> ELSE <<>>
     IN /\ \E p, c \in BOOLEAN :
             web' = [doc |-> d, lay |-> 0, present |-> p, shown |-> FALSE, checked |-> c,
                     focus |-> FALSE, pressed |-> "no", child |-> "never"]
        /\ \E news \in {<<MainCtx(d, "main"), MainCtx(d, "isolated"), Event("committed", Main)>>,
                        <<Event("committed", Main), MainCtx(d, "isolated"), MainCtx(d, "main")>>} :
             wire' = wire \o gone \o news
  /\ op' = Disturb(op, Ops)
  /\ UNCHANGED <<page, req>>

Shift ==
  /\ web.lay < MaxShifts /\ Plan \notin Calm
  /\ \E s \in BOOLEAN : web' = [web EXCEPT !.lay = @ + 1, !.shown = s]
  /\ op' = Disturb(op, Ops)
  /\ UNCHANGED <<page, wire, req>>

Blur ==
  /\ web.focus /\ Plan \notin Calm /\ web' = [web EXCEPT !.focus = FALSE]
  /\ op' = Disturb(op, Ops)
  /\ UNCHANGED <<page, wire, req>>

Appear ==
  /\ ~web.present /\ web' = [web EXCEPT !.present = TRUE]
  /\ UNCHANGED <<op, page, wire, req>>

OnFrames == {o \in Ops : op[o].prog = "FrameBox"}
AttachChild ==
  /\ Plan \in Framed
  /\ web.child = "never" /\ web' = [web EXCEPT !.child = "attached"]
  /\ wire' = wire \o <<Event("attached", web.doc), ChildCtx(web.doc),
                       Event("committed", web.doc)>>
  /\ UNCHANGED <<op, page, req>>
DetachChild ==
  /\ web.child = "attached" /\ web' = [web EXCEPT !.child = "gone"]
  /\ wire' = Append(wire, Event("detached", web.doc))
  /\ op' = Disturb(op, OnFrames)
  /\ UNCHANGED <<page, req>>

Next ==
  \/ Handle \/ Navigate \/ Shift \/ Blur \/ Appear \/ AttachChild \/ DetachChild
  \/ \E o \in Ops : Start(o) \/ Send(o) \/ FindFrame(o) \/ Resume(o) \/ Elapse(o)
                    \/ Serve(o) \/ Refuse(o)

(* readLoop and the goroutines run and time passes; that the browser       *)
(* answers, or that an element ever appears, is not assumed.               *)
Fairness ==
  /\ WF_vars(Handle)
  /\ \A o \in Ops : /\ WF_vars(Send(o)) /\ WF_vars(FindFrame(o))
                    /\ WF_vars(Resume(o)) /\ WF_vars(Elapse(o))
Spec == Init /\ [][Next]_vars /\ Fairness

-----------------------------------------------------------------------------
(* PROPERTIES *)

(* Stale state: calls name the execution context that the events left in   *)
(* Page.  It is always a main-world context of the main frame, there once  *)
(* the page is ready (Evaluate, evalHandle), and when readLoop has caught  *)
(* up it is that of the document the browser shows, with exactly the       *)
(* frames, and their contexts, that the document has.                      *)
KnowsTheDocument ==
  /\ page.execCtx # None => page.execCtx.frame = Main /\ page.execCtx.world = "main"
  /\ page.ready => page.execCtx # None
  /\ ~Behind =>
       /\ page.execCtx = MainCtx(web.doc, "main").c
       /\ \A d \in Docs :
            LET has == d = web.doc /\ web.child = "attached" IN
            /\ page.frames[d] = IF has THEN "committed" ELSE "unknown"
            /\ page.frameCtx[d] = IF has THEN ChildCtx(d).c ELSE None

(* Atomicity: an operation is several calls.  Unless the page navigates or *)
(* changes under it, another operation acts in between or a call of its    *)
(* own is refused, it succeeds or its deadline passes, and it acts on its  *)
(* element: a click is pressed and released on it, text and keys go to it, *)
(* and Check and Uncheck leave the box as they were asked to.  A wait      *)
(* helper never fails but by deadline, also when its calls are refused.    *)
UndisturbedSucceeds ==
  \A o \in Ops :
    /\ op[o].phase = "done" /\ ~op[o].disturbed =>
         op[o].result # "error" /\ (op[o].result = "ok" => op[o].good)
    /\ op[o].result = "error" => Step(o) \notin Polls

(* Liveness: every operation returns, even when the browser never answers, *)
(* the page navigates under it or the element never appears (the deadlines *)
(* of opCtx and Client.Call, and sleepCtx in the loops).                   *)
OpReturns == \A o \in Ops : op[o].phase = "go" ~> op[o].phase = "done"
=============================================================================
