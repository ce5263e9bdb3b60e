--------------------------- MODULE BrowserTargets ---------------------------
(***************************************************************************)
(* How pages come and go: goroutines in Browser.newPageIn, the handlers of *)
(* the target and frame events, the goroutines that deliver popups, and    *)
(* the browser.  A target has one session, so both ids are the target.     *)
(* The reply of Browser.newPage and the attach event race; either may be   *)
(* acted on first, and the page may be gone before anyone looks.           *)
(***************************************************************************)
EXTENDS Naturals, Sequences

CONSTANTS
  Openers,      (* executions of newPageIn                                 *)
  OwnDeadline,  (* those whose context has a deadline of its own           *)
  Targets,      (* pages the browser may open: the bound on them           *)
  PipeCap,      (* bound: messages in the pipe                             *)
  None, Failed

ASSUME TargetsAssumption == OwnDeadline \subseteq Openers /\ PipeCap \in Nat
ASSUME NullAssumption ==
  None \notin Openers \cup Targets /\ Failed \notin Targets \cup {None}

VARIABLES
  (* the goroutines of newPageIn; slot is the channel made by waitAttach *)
  pc, expired, result, reply, slot, got,
  (* Browser *)
  pages, attached, attachWaiters,
  (* the Pages: which have mainFrameID, execCtx, a closed readyCh, closed *)
  mainFrame, execCtx, ready, gone, popupHandler,
  (* the goroutine started for a popup *)
  popup,
  (* the browser; reported: what a page's session has reported of itself *)
  requests, owed, wire, open, opener, reported, closed

openVars    == <<pc, expired, result, reply, slot, got>>
mapVars     == <<pages, attached, attachWaiters>>
pageVars    == <<mainFrame, execCtx, ready, gone, popupHandler>>
browserVars == <<requests, owed, open, opener, reported, closed>>
vars == <<openVars, mapVars, pageVars, popup, browserVars, wire>>

(* "frame" is Page.frameAttached, or a context of an isolated world: both *)
(* only name the main frame.                                              *)
PageEvents == {"frame", "mainWorld"}
Message == [t : PageEvents \cup {"attached", "detached"}, of : Targets, to : {None}]
           \cup [t : {"reply"}, of : Targets \cup {Failed}, to : Openers]

TypeOK ==
  /\ pc \in [Openers -> {"idle", "calling", "replied", "attaching", "readying", "returned"}]
  /\ result \in [Openers -> {"none", "ok", "error", "timeout", "closed"}]
  /\ expired \subseteq Openers
  /\ reply \in [Openers -> Targets \cup {None, Failed}]
  /\ slot \in [Openers -> Targets \cup {None}] /\ got \in [Openers -> Targets \cup {None}]
  /\ pages \subseteq Targets /\ attached \subseteq Targets
  /\ attachWaiters \in [Targets -> Openers \cup {None}]
  /\ mainFrame \subseteq Targets /\ execCtx \subseteq Targets
  /\ ready \subseteq Targets /\ gone \subseteq Targets /\ popupHandler \subseteq Targets
  /\ popup \in [Targets -> {"none", "waiting", "delivered", "dropped"}]
  /\ requests \subseteq Openers /\ owed \subseteq Message
  /\ wire \in Seq(Message)
  /\ open \in [Targets -> {"unused", "opened", "attached", "detached"}]
  /\ opener \in [Targets -> Targets \cup {None}]
  /\ reported \in [Targets -> SUBSET PageEvents]
  /\ closed \in BOOLEAN

Init ==
  /\ pc = [o \in Openers |-> "idle"] /\ result = [o \in Openers |-> "none"]
  /\ expired = {} /\ reply = [o \in Openers |-> None]
  /\ slot = [o \in Openers |-> None] /\ got = [o \in Openers |-> None]
  /\ pages = {} /\ attached = {} /\ attachWaiters = [t \in Targets |-> None]
  /\ mainFrame = {} /\ execCtx = {} /\ ready = {} /\ gone = {} /\ popupHandler = {}
  /\ popup = [t \in Targets |-> "none"]
  /\ requests = {} /\ owed = {} /\ wire = <<>>
  /\ open = [t \in Targets |-> "unused"] /\ opener = [t \in Targets |-> None]
  /\ reported = [t \in Targets |-> {}] /\ closed = FALSE

-----------------------------------------------------------------------------
(* newPageIn *)

Return(o, how) ==
  /\ pc' = [pc EXCEPT ![o] = "returned"]
  /\ result' = [result EXCEPT ![o] = how]

BeginNewPage(o) ==
  /\ pc[o] = "idle"
  /\ pc' = [pc EXCEPT ![o] = "calling"]
  /\ requests' = requests \cup {o}
  /\ UNCHANGED <<expired, result, reply, slot, got, mapVars, pageVars, popup, owed,
                 open, opener, reported, closed, wire>>

CallFails(o) ==
  /\ pc[o] = "calling"
  /\ reply[o] = Failed \/ o \in expired \/ closed
  /\ Return(o, "error")
  /\ UNCHANGED <<expired, reply, slot, got, mapVars, pageVars, popup, browserVars, wire>>

CallReturns_Unchecked(o) ==
  /\ pc[o] = "calling"
  /\ reply[o] # None
  /\ got' = [got EXCEPT ![o] = reply[o]]
  /\ pc' = [pc EXCEPT ![o] = "replied"]
  /\ UNCHANGED <<expired, result, reply, slot, mapVars, pageVars, popup, browserVars, wire>>

CallReturns(o) ==
  /\ pc[o] = "calling"
  /\ reply[o] \in Targets
  /\ pc' = [pc EXCEPT ![o] = "replied"]
  /\ UNCHANGED <<expired, result, reply, slot, got, mapVars, pageVars, popup,
                 browserVars, wire>>

(* waitAttach: look the target up and, under the same lock, leave a        *)
(* channel if it is not there.                                             *)
WaitAttach_NoLook(o) ==
  /\ pc[o] = "replied"
  /\ attachWaiters' = [attachWaiters EXCEPT ![reply[o]] = o]
  /\ pc' = [pc EXCEPT ![o] = "attaching"]
  /\ UNCHANGED <<got, expired, result, reply, slot, pages, attached, pageVars, popup,
                 browserVars, wire>>

WaitAttach(o) ==
  /\ pc[o] = "replied"
  /\ IF reply[o] \in attached
     THEN /\ got' = [got EXCEPT ![o] = reply[o]]
          /\ pc' = [pc EXCEPT ![o] = "readying"]
          /\ UNCHANGED attachWaiters
     ELSE /\ attachWaiters' = [attachWaiters EXCEPT ![reply[o]] = o]
          /\ pc' = [pc EXCEPT ![o] = "attaching"]
          /\ UNCHANGED got
  /\ UNCHANGED <<expired, result, reply, slot, pages, attached, pageVars, popup,
                 browserVars, wire>>

AttachReceived(o) ==
  /\ pc[o] = "attaching"
  /\ slot[o] # None
  /\ got' = [got EXCEPT ![o] = slot[o]]
  /\ slot' = [slot EXCEPT ![o] = None]
  /\ pc' = [pc EXCEPT ![o] = "readying"]
  /\ UNCHANGED <<expired, result, reply, mapVars, pageVars, popup, browserVars, wire>>

AttachTimesOut_LeavesWaiter(o) ==
  /\ pc[o] = "attaching"
  /\ o \in expired
  /\ Return(o, "timeout")
  /\ UNCHANGED <<attachWaiters, expired, reply, slot, got, pages, attached, pageVars,
                 popup, browserVars, wire>>

AttachTimesOut(o) ==
  /\ pc[o] = "attaching"
  /\ o \in expired
  /\ attachWaiters' = [attachWaiters EXCEPT ![reply[o]] = None]
  /\ Return(o, "timeout")
  /\ UNCHANGED <<expired, reply, slot, got, pages, attached, pageVars, popup,
                 browserVars, wire>>

(* waitReady *)
PageReady(o) ==
  /\ pc[o] = "readying"
  /\ got[o] \in ready
  /\ Return(o, "ok")
  /\ UNCHANGED <<expired, reply, slot, got, mapVars, pageVars, popup, browserVars, wire>>

ReadyTimesOut(o) ==
  /\ pc[o] = "readying"
  /\ o \in expired
  /\ Return(o, "timeout")
  /\ UNCHANGED <<expired, reply, slot, got, mapVars, pageVars, popup, browserVars, wire>>

(* waitAttach leaves its entry behind; waitReady has none. *)
SeesClosed(o) ==
  /\ pc[o] \in {"attaching", "readying"}
  /\ closed
  /\ Return(o, "closed")
  /\ UNCHANGED <<expired, reply, slot, got, mapVars, pageVars, popup, browserVars, wire>>

(* opCtx: the caller's deadline, or one from the browser's timeout. *)
OpCtx_CallersOnly(o) == IF o \in OwnDeadline THEN "caller's" ELSE "none"
OpCtx(o) == IF o \in OwnDeadline THEN "caller's" ELSE "timeout"

Expire(o) ==
  /\ pc[o] \notin {"idle", "returned"}
  /\ OpCtx(o) # "none" /\ o \notin expired
  /\ expired' = expired \cup {o}
  /\ UNCHANGED <<pc, result, reply, slot, got, mapVars, pageVars, popup, browserVars, wire>>

OpenerStep(o) ==
  \/ BeginNewPage(o) \/ CallFails(o) \/ CallReturns(o) \/ WaitAttach(o)
  \/ AttachReceived(o) \/ AttachTimesOut(o) \/ PageReady(o) \/ ReadyTimesOut(o)
  \/ SeesClosed(o) \/ Expire(o)

(* Page.OnPopup, on a page of Browser.Pages. *)
OnPopup(p) ==
  /\ p \in pages \ popupHandler
  /\ popupHandler' = popupHandler \cup {p}
  /\ UNCHANGED <<openVars, mapVars, mainFrame, execCtx, ready, gone, popup, browserVars, wire>>

(* The popup's goroutine waits with no deadline. *)
DeliverPopup(t) ==
  /\ popup[t] = "waiting"
  /\ t \in ready
  /\ popup' = [popup EXCEPT ![t] = "delivered"]
  /\ UNCHANGED <<openVars, mapVars, pageVars, browserVars, wire>>

DropPopup(t) ==
  /\ popup[t] = "waiting"
  /\ closed
  /\ popup' = [popup EXCEPT ![t] = "dropped"]
  /\ UNCHANGED <<openVars, mapVars, pageVars, browserVars, wire>>

-----------------------------------------------------------------------------
(* The handlers *)

Take(ts) == wire # <<>> /\ Head(wire).t \in ts /\ wire' = Tail(wire)
T == Head(wire).of

(* A waiter gets the page and ends the matter; without one, a page with an *)
(* opener that has a handler is a popup.                                   *)
OnAttached_AnyWaiter ==
  /\ Take({"attached"})
  /\ pages' = pages \cup {T} /\ attached' = attached \cup {T}
  /\ \E w \in Targets :
       /\ attachWaiters[w] # None \/ w = T
       /\ slot' = [o \in Openers |-> IF o = attachWaiters[w] THEN T ELSE slot[o]]
       /\ attachWaiters' = [attachWaiters EXCEPT ![w] = None]
  /\ UNCHANGED <<popup, pc, expired, result, reply, got, pageVars, browserVars>>

OnAttached ==
  /\ Take({"attached"})
  /\ pages' = pages \cup {T} /\ attached' = attached \cup {T}
  /\ attachWaiters' = [attachWaiters EXCEPT ![T] = None]
  /\ LET w == attachWaiters[T] IN
       IF w # None
       THEN slot' = [slot EXCEPT ![w] = T] /\ UNCHANGED popup
       ELSE /\ popup' = IF opener[T] \in attached \cap popupHandler
                        THEN [popup EXCEPT ![T] = "waiting"] ELSE popup
            /\ UNCHANGED slot
  /\ UNCHANGED <<pc, expired, result, reply, got, pageVars, browserVars>>

OnDetached_KeepsPage ==
  /\ Take({"detached"})
  /\ gone' = gone \cup {T}
  /\ attached' = attached \ {T}
  /\ UNCHANGED <<pages, openVars, attachWaiters, mainFrame, execCtx, ready, popupHandler,
                 popup, browserVars>>

OnDetached ==
  /\ Take({"detached"})
  /\ gone' = gone \cup (pages \cap {T})
  /\ pages' = pages \ {T} /\ attached' = attached \ {T}
  /\ UNCHANGED <<openVars, attachWaiters, mainFrame, execCtx, ready, popupHandler,
                 popup, browserVars>>

(* Any of a page's first events names the main frame; only its main        *)
(* world's context counts as the execution context; readyCh is closed once *)
(* both are known.  routePage drops the event of a page it does not know.  *)
Usable_FrameOnly(frames, ctxs) == frames
Usable(frames, ctxs) == frames \cap ctxs

OnPageEvent ==
  /\ Take(PageEvents)
  /\ mainFrame' = mainFrame \cup (pages \cap {T})
  /\ execCtx' = IF Head(wire).t = "mainWorld" THEN execCtx \cup (pages \cap {T}) ELSE execCtx
  /\ ready' = ready \cup (Usable(mainFrame', execCtx') \cap {T})
  /\ UNCHANGED <<openVars, mapVars, gone, popupHandler, popup, browserVars>>

OnReply ==
  /\ Take({"reply"})
  /\ LET o == Head(wire).to IN
       reply' = IF pc[o] = "calling" THEN [reply EXCEPT ![o] = T] ELSE reply
  /\ UNCHANGED <<pc, expired, result, slot, got, mapVars, pageVars, popup, browserVars>>

Handlers == OnAttached \/ OnDetached \/ OnPageEvent \/ OnReply

-----------------------------------------------------------------------------
(* The browser: not code of this repository. *)

Emit(m) == Len(wire) < PipeCap /\ wire' = Append(wire, m)
ClientUnchanged == UNCHANGED <<openVars, mapVars, pageVars, popup>>
Owe(o, t) == owed' = owed \cup {[t |-> "reply", of |-> t, to |-> o]}

CreatePage(o) ==
  /\ o \in requests /\ ~closed
  /\ \/ \E t \in Targets : /\ open[t] = "unused"
                           /\ open' = [open EXCEPT ![t] = "opened"]
                           /\ Owe(o, t)
     \/ Owe(o, Failed) /\ UNCHANGED open
  /\ requests' = requests \ {o}
  /\ UNCHANGED <<opener, reported, closed, wire>> /\ ClientUnchanged

Reply ==
  /\ ~closed
  /\ \E m \in owed : owed' = owed \ {m} /\ Emit(m)
  /\ UNCHANGED <<requests, open, opener, reported, closed>> /\ ClientUnchanged

(* A page opens another. *)
OpenPopup(p, t) ==
  /\ ~closed /\ open[p] = "attached" /\ open[t] = "unused"
  /\ open' = [open EXCEPT ![t] = "opened"]
  /\ opener' = [opener EXCEPT ![t] = p]
  /\ UNCHANGED <<requests, owed, reported, closed, wire>> /\ ClientUnchanged

Attach(t) ==
  /\ ~closed /\ open[t] = "opened"
  /\ open' = [open EXCEPT ![t] = "attached"]
  /\ Emit([t |-> "attached", of |-> t, to |-> None])
  /\ UNCHANGED <<requests, owed, opener, reported, closed>> /\ ClientUnchanged

(* Later events of the same kind change nothing here, so one is enough. *)
ReportPage(t, k) ==
  /\ ~closed /\ open[t] = "attached" /\ k \notin reported[t]
  /\ reported' = [reported EXCEPT ![t] = @ \cup {k}]
  /\ Emit([t |-> k, of |-> t, to |-> None])
  /\ UNCHANGED <<requests, owed, open, opener, closed>> /\ ClientUnchanged

(* Page.Close, Context.Close, window.close(), a crash. *)
Detach(t) ==
  /\ ~closed /\ open[t] = "attached"
  /\ open' = [open EXCEPT ![t] = "detached"]
  /\ Emit([t |-> "detached", of |-> t, to |-> None])
  /\ UNCHANGED <<requests, owed, opener, reported, closed>> /\ ClientUnchanged

(* readLoop ends; messages not yet handled may be lost. *)
Close ==
  /\ ~closed /\ closed' = TRUE /\ wire' = <<>>
  /\ UNCHANGED <<requests, owed, open, opener, reported>> /\ ClientUnchanged

Browser ==
  \/ \E o \in Openers : CreatePage(o)
  \/ Reply \/ Close
  \/ \E t \in Targets : \/ Attach(t) \/ Detach(t)
                        \/ \E k \in PageEvents : ReportPage(t, k)
                        \/ \E p \in Targets : OpenPopup(p, t)

Next ==
  \/ Handlers
  \/ Browser
  \/ \E o \in Openers : OpenerStep(o)
  \/ \E t \in Targets : OnPopup(t) \/ DeliverPopup(t) \/ DropPopup(t)

Spec == Init /\ [][Next]_vars

(* The Go scheduler runs every runnable goroutine, and timers fire. *)
FairSpec ==
  /\ Spec
  /\ \A o \in Openers :
       /\ WF_vars(CallFails(o) \/ CallReturns(o))
       /\ WF_vars(WaitAttach(o))
       /\ WF_vars(AttachReceived(o) \/ AttachTimesOut(o) \/ SeesClosed(o)
                  \/ PageReady(o) \/ ReadyTimesOut(o))
       /\ WF_vars(Expire(o))

-----------------------------------------------------------------------------
(* A page handed out, by NewPage or to a popup handler, has a main frame   *)
(* and an execution context, so operations on it have something to name.   *)
HandedOutIsUsable ==
  /\ \A o \in Openers : result[o] = "ok" => got[o] \in mainFrame \cap execCtx
  /\ \A t \in Targets : popup[t] = "delivered" => t \in mainFrame \cap execCtx

(* No wakeup is lost between looking a target up and waiting for it: a     *)
(* NewPage whose page is attached finds it in its channel.                 *)
AttachWakesWaiter ==
  \A o \in Openers : pc[o] = "attaching" /\ reply[o] \in attached => slot[o] = reply[o]

(* NewPage returns the page the browser opened for this call. *)
OwnPage == \A o \in Openers : got[o] \in {None, reply[o]}

(* The entry of a NewPage that gave up is gone, so no page is sent to a    *)
(* channel nobody reads and then not offered as a popup; except when the   *)
(* browser is gone.                                                        *)
NoWaiterLeak ==
  \A t \in Targets : attachWaiters[t] # None =>
    closed \/ pc[attachWaiters[t]] = "attaching"

(* Once every event is handled, Pages() is the browser's open pages, and   *)
(* the two maps agree.                                                     *)
PagesSettle ==
  wire = <<>> /\ ~closed =>
    /\ pages = {t \in Targets : open[t] = "attached"}
    /\ attached = pages

(* NewPage always returns, also when its page detached before it was ready *)
(* or before anyone waited for it: opCtx gives it a deadline.              *)
NewPageReturns ==
  \A o \in Openers : pc[o] = "calling" ~> pc[o] = "returned"

-----------------------------------------------------------------------------
(* The inductive strengthenings the proofs use. *)

(* A target is promised to one opener: in the browser, on the wire, or in  *)
(* the opener's hands; and it is in use by then.                           *)
PromiseOf(o, t) == [t |-> "reply", of |-> t, to |-> o]
Promised(o, t) ==
  \/ PromiseOf(o, t) \in owed
  \/ \E k \in 1..Len(wire) : wire[k] = PromiseOf(o, t)
  \/ reply[o] = t
OnePromise ==
  \A o \in Openers, t \in Targets : Promised(o, t) =>
    open[t] # "unused" /\ \A q \in Openers : Promised(q, t) => q = o

(* A channel is left, filled and read for the target of the reply only. *)
Waits == {"attaching", "readying", "returned"}
ChannelInv ==
  /\ \A o \in Openers :
       /\ slot[o] \in {None, reply[o]} /\ got[o] \in {None, reply[o]}
       /\ pc[o] \in {"replied", "attaching", "readying"} => reply[o] \in Targets
       /\ pc[o] \notin Waits => slot[o] = None /\ got[o] = None
       /\ pc[o] = "readying" => got[o] # None
       /\ pc[o] # "returned" => result[o] = "none"
  /\ \A t \in Targets, o \in Openers : attachWaiters[t] = o =>
       pc[o] \in {"attaching", "returned"} /\ reply[o] = t /\ slot[o] = None

(* Who waits with an empty channel is registered under its target. *)
RegisteredInv ==
  \A o \in Openers : pc[o] = "attaching" /\ slot[o] = None =>
    attachWaiters[reply[o]] = o

UsableInv ==
  /\ ready \subseteq mainFrame \cap execCtx
  /\ \A o \in Openers : result[o] = "ok" => pc[o] = "returned" /\ got[o] \in ready
  /\ \A t \in Targets : popup[t] = "delivered" => t \in ready

(* Of a page's attach and detach events, the last one still on the wire    *)
(* agrees with the browser; with none on the wire the maps agree with it.  *)
Sent(k, kind, t) == k \in 1..Len(wire) /\ wire[k].t = kind /\ wire[k].of = t
OnWire(kind, t) == \E k \in 1..Len(wire) : Sent(k, kind, t)
InOrder(t) ==
  \A j, k \in 1..Len(wire) : Sent(j, "attached", t) /\ Sent(k, "detached", t) => j < k
LifeInv ==
  /\ attached = pages
  /\ \A m \in owed : m.t = "reply"
  /\ ~closed => \A t \in Targets :
       /\ OnWire("detached", t) => open[t] = "detached"
       /\ InOrder(t)
       /\ open[t] = "attached" => t \in pages \/ OnWire("attached", t)
       /\ open[t] # "attached" /\ (t \in pages \/ OnWire("attached", t))
            => OnWire("detached", t)

=============================================================================
