------------------------ MODULE BrowserTargetsProofs ------------------------
(***************************************************************************)
(* Proofs about BrowserTargets for every set of openers and targets and    *)
(* every capacity of the pipe.                                             *)
(***************************************************************************)
EXTENDS BrowserTargets, TLAPS

(* The two kinds of messages, by their tag. *)
LEMMA MessageKinds ==
  ASSUME NEW m \in Message
  PROVE  /\ m.t \in PageEvents \cup {"attached", "detached"} => m.of \in Targets
         /\ m.t = "reply" => m.of \in Targets \cup {Failed} /\ m.to \in Openers
                             /\ m = [t |-> "reply", of |-> m.of, to |-> m.to]
  BY DEF Message, PageEvents

LEMMA HeadOfWire ==
  ASSUME TypeOK, wire # <<>>
  PROVE  Head(wire) \in Message /\ Tail(wire) \in Seq(Message)
  BY DEF TypeOK

LEMMA AppendIsTyped ==
  ASSUME TypeOK, NEW m \in Message
  PROVE  Append(wire, m) \in Seq(Message)
  BY DEF TypeOK

(* Every variable keeps its type: in particular a channel is only filled   *)
(* with a page, and an error reply is never taken for one.                 *)
THEOREM TargetsTypeCorrect == Spec => []TypeOK
<1>1. Init => TypeOK
  <2> SUFFICES ASSUME Init PROVE TypeOK
    OBVIOUS
  <2>1. wire \in Seq(Message)
    BY DEF Init
  <2>2. QED
    BY <2>1 DEF Init, TypeOK
<1>2. TypeOK /\ [Next]_vars => TypeOK'
  <2> SUFFICES ASSUME TypeOK, [Next]_vars PROVE TypeOK'
    OBVIOUS
  <2> USE DEF openVars, mapVars, pageVars, browserVars, Return, ClientUnchanged
  <2>1. ASSUME NEW o \in Openers, BeginNewPage(o) PROVE TypeOK'
    BY <2>1 DEF TypeOK, BeginNewPage
  <2>2. ASSUME NEW o \in Openers, CallFails(o) PROVE TypeOK'
    BY <2>2 DEF TypeOK, CallFails
  <2>3. ASSUME NEW o \in Openers, CallReturns(o) PROVE TypeOK'
    BY <2>3 DEF TypeOK, CallReturns
  <2>4. ASSUME NEW o \in Openers, WaitAttach(o) PROVE TypeOK'
    <3>1. CASE reply[o] \in attached
      <4>1. /\ got' = [got EXCEPT ![o] = reply[o]] /\ reply[o] \in Targets
            /\ pc' = [pc EXCEPT ![o] = "readying"]
        BY <2>4, <3>1 DEF TypeOK, WaitAttach
      <4>2. QED
        BY <2>4, <4>1 DEF TypeOK, WaitAttach
    <3>2. CASE reply[o] \notin attached
      <4>1. attachWaiters' \in [Targets -> Openers \cup {None}]
        BY <2>4, <3>2 DEF TypeOK, WaitAttach
      <4>2. pc' = [pc EXCEPT ![o] = "attaching"] /\ got' = got
        BY <2>4, <3>2 DEF WaitAttach
      <4>3. QED
        BY <2>4, <4>1, <4>2 DEF TypeOK, WaitAttach
    <3>3. QED
      BY <3>1, <3>2
  <2>5. ASSUME NEW o \in Openers, AttachReceived(o) PROVE TypeOK'
    BY <2>5 DEF TypeOK, AttachReceived
  <2>6. ASSUME NEW o \in Openers, AttachTimesOut(o) PROVE TypeOK'
    BY <2>6 DEF TypeOK, AttachTimesOut
  <2>7. ASSUME NEW o \in Openers, PageReady(o) PROVE TypeOK'
    BY <2>7 DEF TypeOK, PageReady
  <2>8. ASSUME NEW o \in Openers, ReadyTimesOut(o) PROVE TypeOK'
    BY <2>8 DEF TypeOK, ReadyTimesOut
  <2>9. ASSUME NEW o \in Openers, SeesClosed(o) PROVE TypeOK'
    BY <2>9 DEF TypeOK, SeesClosed
  <2>10. ASSUME NEW o \in Openers, Expire(o) PROVE TypeOK'
    BY <2>10 DEF TypeOK, Expire
  <2>11. ASSUME NEW t \in Targets, OnPopup(t) PROVE TypeOK'
    BY <2>11 DEF TypeOK, OnPopup
  <2>12. ASSUME NEW t \in Targets, DeliverPopup(t) PROVE TypeOK'
    BY <2>12 DEF TypeOK, DeliverPopup
  <2>13. ASSUME NEW t \in Targets, DropPopup(t) PROVE TypeOK'
    BY <2>13 DEF TypeOK, DropPopup
  <2>14. CASE OnAttached
    <3>1. T \in Targets /\ wire' \in Seq(Message)
      BY <2>14, HeadOfWire, MessageKinds DEF OnAttached, Take, T
    <3>2. attachWaiters[T] \in Openers \cup {None}
      BY <3>1 DEF TypeOK
    <3>3. slot' \in [Openers -> Targets \cup {None}]
      BY <2>14, <3>1, <3>2 DEF OnAttached, TypeOK
    <3>4. popup' \in [Targets -> {"none", "waiting", "delivered", "dropped"}]
      BY <2>14, <3>1 DEF OnAttached, TypeOK
    <3>5. QED
      BY <2>14, <3>1, <3>3, <3>4 DEF OnAttached, TypeOK
  <2>15. CASE OnDetached
    <3>1. T \in Targets /\ wire' \in Seq(Message)
      BY <2>15, HeadOfWire, MessageKinds DEF OnDetached, Take, T
    <3>2. QED
      BY <2>15, <3>1 DEF OnDetached, TypeOK
  <2>16. CASE OnPageEvent
    <3>1. T \in Targets /\ wire' \in Seq(Message)
      BY <2>16, HeadOfWire, MessageKinds DEF OnPageEvent, Take, T
    <3>2. mainFrame' \subseteq Targets /\ execCtx' \subseteq Targets /\ ready' \subseteq Targets
      BY <2>16, <3>1 DEF OnPageEvent, TypeOK
    <3>3. QED
      BY <2>16, <3>1, <3>2 DEF OnPageEvent, TypeOK
  <2>17. CASE OnReply
    <3>1. T \in Targets \cup {Failed} /\ wire' \in Seq(Message)
      BY <2>17, HeadOfWire, MessageKinds DEF OnReply, Take, T
    <3>2. reply' \in [Openers -> Targets \cup {None, Failed}]
      BY <2>17, <3>1 DEF OnReply, TypeOK
    <3>3. QED
      BY <2>17, <3>1, <3>2 DEF OnReply, TypeOK
  <2>18. ASSUME NEW o \in Openers, CreatePage(o) PROVE TypeOK'
    <3>1. \A t \in Targets \cup {Failed} : [t |-> "reply", of |-> t, to |-> o] \in Message
      BY DEF Message
    <3>2. owed' \subseteq Message /\ open' \in [Targets -> {"unused", "opened", "attached", "detached"}]
      BY <2>18, <3>1 DEF CreatePage, Owe, TypeOK
    <3>3. QED
      BY <2>18, <3>2 DEF CreatePage, TypeOK
  <2>19. CASE Reply
    <3>1. wire' \in Seq(Message) /\ owed' \subseteq Message
      BY <2>19, AppendIsTyped DEF Reply, Emit, TypeOK
    <3>2. QED
      BY <2>19, <3>1 DEF Reply, TypeOK
  <2>20. CASE Close
    <3>1. wire' \in Seq(Message)
      BY <2>20 DEF Close
    <3>2. QED
      BY <2>20, <3>1 DEF Close, TypeOK
  <2>21. ASSUME NEW t \in Targets, Attach(t) PROVE TypeOK'
    <3>1. wire' \in Seq(Message)
      BY <2>21, AppendIsTyped DEF Attach, Emit, Message
    <3>2. QED
      BY <2>21, <3>1 DEF Attach, TypeOK
  <2>22. ASSUME NEW t \in Targets, Detach(t) PROVE TypeOK'
    <3>1. wire' \in Seq(Message)
      BY <2>22, AppendIsTyped DEF Detach, Emit, Message
    <3>2. QED
      BY <2>22, <3>1 DEF Detach, TypeOK
  <2>23. ASSUME NEW t \in Targets, NEW k \in PageEvents, ReportPage(t, k) PROVE TypeOK'
    <3>1. wire' \in Seq(Message)
      BY <2>23, AppendIsTyped DEF ReportPage, Emit, Message
    <3>2. QED
      BY <2>23, <3>1 DEF ReportPage, TypeOK
  <2>24. ASSUME NEW p \in Targets, NEW t \in Targets, OpenPopup(p, t) PROVE TypeOK'
    BY <2>24 DEF OpenPopup, TypeOK
  <2>25. CASE UNCHANGED vars
    BY <2>25 DEF vars, TypeOK
  <2>26. QED
    BY <2>1, <2>2, <2>3, <2>4, <2>5, <2>6, <2>7, <2>8, <2>9, <2>10, <2>11, <2>12,
       <2>13, <2>14, <2>15, <2>16, <2>17, <2>18, <2>19, <2>20, <2>21, <2>22, <2>23,
       <2>24, <2>25 DEF Next, OpenerStep, Handlers, Browser
<1>3. QED
  BY <1>1, <1>2, PTL DEF Spec


-----------------------------------------------------------------------------
(* The steps that touch what an opener waits with. *)
LEMMA WaitSteps ==
  ASSUME [Next]_vars
  PROVE  \/ \E o \in Openers :
              \/ BeginNewPage(o) \/ CallFails(o) \/ CallReturns(o) \/ WaitAttach(o)
              \/ AttachReceived(o) \/ AttachTimesOut(o) \/ PageReady(o)
              \/ ReadyTimesOut(o) \/ SeesClosed(o)
         \/ OnAttached \/ OnReply
         \/ UNCHANGED <<pc, result, reply, slot, got, attachWaiters>>
  BY DEF Next, OpenerStep, Handlers, Browser, vars, openVars, mapVars, Expire, OnPopup,
     DeliverPopup, DropPopup, OnDetached, OnPageEvent, CreatePage, Reply, Close, Attach,
     Detach, ReportPage, OpenPopup, ClientUnchanged

(* A channel is registered, filled and read for one target only, the one   *)
(* the reply names; an opener's reply does not change once it waits.       *)
LEMMA ChannelCorrect == Spec => []ChannelInv
<1> USE NullAssumption DEF ChannelInv, Waits
<1>1. Init => ChannelInv
  BY DEF Init
<1>2. TypeOK /\ ChannelInv /\ [Next]_vars => ChannelInv'
  <2> SUFFICES ASSUME TypeOK, ChannelInv, [Next]_vars PROVE ChannelInv'
    OBVIOUS
  <2> USE DEF openVars, mapVars, Return
  <2>0. /\ pc \in [Openers -> {"idle", "calling", "replied", "attaching", "readying", "returned"}]
        /\ result \in [Openers -> {"none", "ok", "error", "timeout", "closed"}]
        /\ reply \in [Openers -> Targets \cup {None, Failed}]
        /\ slot \in [Openers -> Targets \cup {None}]
        /\ got \in [Openers -> Targets \cup {None}]
        /\ attached \subseteq Targets
        /\ attachWaiters \in [Targets -> Openers \cup {None}]
    BY DEF TypeOK
  <2>1. ASSUME NEW o \in Openers, BeginNewPage(o) PROVE ChannelInv'
    BY <2>0, <2>1 DEF BeginNewPage
  <2>2. ASSUME NEW o \in Openers, CallFails(o) PROVE ChannelInv'
    BY <2>0, <2>2 DEF CallFails
  <2>3. ASSUME NEW o \in Openers, CallReturns(o) PROVE ChannelInv'
    BY <2>0, <2>3 DEF CallReturns
  <2>4. ASSUME NEW o \in Openers, WaitAttach(o) PROVE ChannelInv'
    BY <2>0, <2>4 DEF WaitAttach
  <2>5. ASSUME NEW o \in Openers, AttachReceived(o) PROVE ChannelInv'
    BY <2>0, <2>5 DEF AttachReceived
  <2>6. ASSUME NEW o \in Openers, AttachTimesOut(o) PROVE ChannelInv'
    BY <2>0, <2>6 DEF AttachTimesOut
  <2>7. ASSUME NEW o \in Openers, PageReady(o) PROVE ChannelInv'
    BY <2>0, <2>7 DEF PageReady
  <2>8. ASSUME NEW o \in Openers, ReadyTimesOut(o) PROVE ChannelInv'
    BY <2>0, <2>8 DEF ReadyTimesOut
  <2>9. ASSUME NEW o \in Openers, SeesClosed(o) PROVE ChannelInv'
    BY <2>0, <2>9 DEF SeesClosed
  <2>10. CASE OnAttached
    <3>1. T \in Targets
      BY <2>10, HeadOfWire, MessageKinds DEF OnAttached, Take, T
    <3>2. CASE attachWaiters[T] = None
      BY <2>0, <2>10, <3>1, <3>2 DEF OnAttached
    <3>3. CASE attachWaiters[T] \in Openers
      <4>1. reply[attachWaiters[T]] = T /\ slot[attachWaiters[T]] = None
        BY <3>1, <3>3
      <4>2. slot' = [slot EXCEPT ![attachWaiters[T]] = T]
        BY <2>10, <3>3 DEF OnAttached
      <4>3. QED
        BY <2>0, <2>10, <3>1, <3>3, <4>1, <4>2 DEF OnAttached
    <3>4. QED
      BY <2>0, <3>1, <3>2, <3>3
  <2>11. CASE OnReply
    <3>1. \A o \in Openers : reply'[o] # reply[o] => pc[o] = "calling"
      BY <2>0, <2>11 DEF OnReply
    <3>2. UNCHANGED <<pc, result, slot, got, attachWaiters>>
      BY <2>11 DEF OnReply
    <3>3. QED
      BY <2>0, <3>1, <3>2
  <2>12. CASE UNCHANGED <<pc, result, reply, slot, got, attachWaiters>>
    BY <2>12
  <2>13. QED
    BY <2>1, <2>2, <2>3, <2>4, <2>5, <2>6, <2>7, <2>8, <2>9, <2>10, <2>11, <2>12, WaitSteps
<1>3. QED
  BY <1>1, <1>2, TargetsTypeCorrect, PTL DEF Spec

(* newPageIn hands out the page of its own reply, however many openers     *)
(* wait at once and whatever attaches in between.                          *)
THEOREM OwnPageReturned == Spec => []OwnPage
<1>1. ChannelInv => OwnPage
  BY DEF ChannelInv, OwnPage
<1>2. QED
  BY <1>1, ChannelCorrect, PTL

(* While the browser lives, whoever is registered is still waiting: every  *)
(* way out of waitAttach but the one for a closed browser removes the      *)
(* entry, and so does onAttached when it fills the channel.                *)
THEOREM WaitersDoNotLeak == Spec => []NoWaiterLeak
<1> USE NullAssumption DEF NoWaiterLeak
<1>1. Init => NoWaiterLeak
  BY DEF Init
<1>2. TypeOK /\ ChannelInv /\ NoWaiterLeak /\ [Next]_vars => NoWaiterLeak'
  <2> SUFFICES ASSUME TypeOK, ChannelInv, NoWaiterLeak, [Next]_vars PROVE NoWaiterLeak'
    OBVIOUS
  <2> USE DEF openVars, mapVars, Return
  <2>0. /\ pc \in [Openers -> {"idle", "calling", "replied", "attaching", "readying", "returned"}]
        /\ reply \in [Openers -> Targets \cup {None, Failed}]
        /\ attachWaiters \in [Targets -> Openers \cup {None}]
        /\ closed => closed'
        /\ \A t \in Targets, o \in Openers : attachWaiters[t] = o => reply[o] = t /\ slot[o] = None
    <3>1. closed => closed'
      BY DEF Next, OpenerStep, Handlers, Browser, vars, browserVars, BeginNewPage, CallFails,
         CallReturns, WaitAttach, AttachReceived, AttachTimesOut, PageReady, ReadyTimesOut,
         SeesClosed, Expire, OnPopup, DeliverPopup, DropPopup, OnAttached, OnReply, OnDetached,
         OnPageEvent, CreatePage, Reply, Close, Attach, Detach, ReportPage, OpenPopup
    <3>2. QED
      BY <3>1 DEF TypeOK, ChannelInv
  <2>1. ASSUME NEW o \in Openers, BeginNewPage(o) PROVE NoWaiterLeak'
    BY <2>0, <2>1 DEF BeginNewPage
  <2>2. ASSUME NEW o \in Openers, CallFails(o) PROVE NoWaiterLeak'
    BY <2>0, <2>2 DEF CallFails
  <2>3. ASSUME NEW o \in Openers, CallReturns(o) PROVE NoWaiterLeak'
    BY <2>0, <2>3 DEF CallReturns
  <2>4. ASSUME NEW o \in Openers, WaitAttach(o) PROVE NoWaiterLeak'
    BY <2>0, <2>4 DEF WaitAttach
  <2>5. ASSUME NEW o \in Openers, AttachReceived(o) PROVE NoWaiterLeak'
    BY <2>0, <2>5 DEF AttachReceived
  <2>6. ASSUME NEW o \in Openers, AttachTimesOut(o) PROVE NoWaiterLeak'
    BY <2>0, <2>6 DEF AttachTimesOut
  <2>7. ASSUME NEW o \in Openers, PageReady(o) PROVE NoWaiterLeak'
    BY <2>0, <2>7 DEF PageReady
  <2>8. ASSUME NEW o \in Openers, ReadyTimesOut(o) PROVE NoWaiterLeak'
    BY <2>0, <2>8 DEF ReadyTimesOut
  <2>9. ASSUME NEW o \in Openers, SeesClosed(o) PROVE NoWaiterLeak'
    BY <2>0, <2>9 DEF SeesClosed
  <2>10. CASE OnAttached
    BY <2>0, <2>10 DEF OnAttached
  <2>11. CASE OnReply
    BY <2>0, <2>11 DEF OnReply
  <2>12. CASE UNCHANGED <<pc, result, reply, slot, got, attachWaiters>>
    BY <2>0, <2>12
  <2>13. QED
    BY <2>1, <2>2, <2>3, <2>4, <2>5, <2>6, <2>7, <2>8, <2>9, <2>10, <2>11, <2>12, WaitSteps
<1>3. QED
  BY <1>1, <1>2, TargetsTypeCorrect, ChannelCorrect, PTL DEF Spec

-----------------------------------------------------------------------------
(* A page handed out, to an opener or to a popup handler, is ready; and a  *)
(* ready page has both of the things that made it so.                      *)
LEMMA UsableCorrect == Spec => []UsableInv
<1> USE NullAssumption DEF UsableInv
<1>1. Init => UsableInv
  BY DEF Init
<1>2. TypeOK /\ ChannelInv /\ UsableInv /\ [Next]_vars => UsableInv'
  <2> SUFFICES ASSUME TypeOK, ChannelInv, UsableInv, [Next]_vars PROVE UsableInv'
    OBVIOUS
  <2>0. /\ pc \in [Openers -> {"idle", "calling", "replied", "attaching", "readying", "returned"}]
        /\ result \in [Openers -> {"none", "ok", "error", "timeout", "closed"}]
        /\ got \in [Openers -> Targets \cup {None}]
        /\ popup \in [Targets -> {"none", "waiting", "delivered", "dropped"}]
    BY DEF TypeOK
  <2>1. /\ \A o \in Openers : pc[o] = "returned" =>
             pc'[o] = "returned" /\ got'[o] = got[o] /\ result'[o] = result[o]
        /\ \A o \in Openers : result'[o] # result[o] =>
             result'[o] # "ok" \/ PageReady(o)
    <3> USE <2>0 DEF openVars, mapVars, Return
    <3>1. ASSUME NEW q \in Openers, OpenerStep(q) PROVE <2>1!1 /\ <2>1!2
      BY <3>1 DEF OpenerStep, BeginNewPage, CallFails, CallReturns, WaitAttach, AttachReceived,
         AttachTimesOut, PageReady, ReadyTimesOut, SeesClosed, Expire
    <3>2. CASE UNCHANGED <<pc, result, got>>
      BY <3>2
    <3>3. (\E q \in Openers : OpenerStep(q)) \/ UNCHANGED <<pc, result, got>>
      BY DEF Next, Handlers, Browser, vars, OnPopup, DeliverPopup, DropPopup, OnAttached,
         OnReply, OnDetached, OnPageEvent, CreatePage, Reply, Close, Attach, Detach,
         ReportPage, OpenPopup, ClientUnchanged
    <3>4. QED
      BY <3>1, <3>2, <3>3
  <2>2. /\ ready \subseteq ready' /\ ready' \subseteq mainFrame' \cap execCtx'
    <3>1. CASE OnPageEvent
      BY <3>1 DEF OnPageEvent, Usable
    <3>2. CASE UNCHANGED <<mainFrame, execCtx, ready>>
      BY <3>2
    <3>3. OnPageEvent \/ UNCHANGED <<mainFrame, execCtx, ready>>
      BY DEF Next, OpenerStep, Handlers, Browser, vars, pageVars, openVars, BeginNewPage,
         CallFails, CallReturns, WaitAttach, AttachReceived, AttachTimesOut, PageReady,
         ReadyTimesOut, SeesClosed, Expire, OnPopup, DeliverPopup, DropPopup, OnAttached,
         OnReply, OnDetached, CreatePage, Reply, Close, Attach, Detach, ReportPage,
         OpenPopup, ClientUnchanged
    <3>4. QED
      BY <3>1, <3>2, <3>3
  <2>3. \A t \in Targets : popup'[t] = "delivered" => t \in ready'
    <3>1. ASSUME NEW p \in Targets, DeliverPopup(p)
          PROVE  \A t \in Targets : popup'[t] = "delivered" => t \in ready'
      BY <2>0, <2>2, <3>1 DEF DeliverPopup
    <3>2. ASSUME NEW p \in Targets, DropPopup(p)
          PROVE  \A t \in Targets : popup'[t] = "delivered" => t \in ready'
      BY <2>0, <2>2, <3>2 DEF DropPopup
    <3>3. CASE OnAttached
      BY <2>0, <2>2, <3>3, HeadOfWire, MessageKinds DEF OnAttached, Take, T
    <3>4. CASE UNCHANGED popup
      BY <2>2, <3>4
    <3>5. \/ \E p \in Targets : DeliverPopup(p) \/ DropPopup(p)
          \/ OnAttached \/ UNCHANGED popup
      BY DEF Next, OpenerStep, Handlers, Browser, vars, BeginNewPage,
         CallFails, CallReturns, WaitAttach, AttachReceived, AttachTimesOut, PageReady,
         ReadyTimesOut, SeesClosed, Expire, OnPopup, OnReply, OnDetached, OnPageEvent,
         CreatePage, Reply, Close, Attach, Detach, ReportPage, OpenPopup, ClientUnchanged
    <3>6. QED
      BY <3>1, <3>2, <3>3, <3>4, <3>5
  <2>4. ASSUME NEW o \in Openers, result'[o] = "ok"
        PROVE  pc'[o] = "returned" /\ got'[o] \in ready'
    <3>1. CASE result[o] = "ok"
      BY <2>1, <2>2, <3>1
    <3>2. CASE result[o] # "ok"
      <4>1. PageReady(o)
        BY <2>1, <2>4, <3>2
      <4>2. QED
        BY <2>0, <2>2, <4>1 DEF PageReady, Return
    <3>3. QED
      BY <3>1, <3>2
  <2>5. QED
    BY <2>2, <2>3, <2>4
<1>3. QED
  BY <1>1, <1>2, TargetsTypeCorrect, ChannelCorrect, PTL DEF Spec

(* An operation on a page that was handed out has a frame and a context to *)
(* name, whichever of the page's first events came first.                  *)
THEOREM PagesAreUsable == Spec => []HandedOutIsUsable
<1>1. UsableInv => HandedOutIsUsable
  BY DEF UsableInv, HandedOutIsUsable
<1>2. QED
  BY <1>1, UsableCorrect, PTL

-----------------------------------------------------------------------------
LEMMA TailAt ==
  ASSUME NEW S, NEW q \in Seq(S), q # <<>>
  PROVE  /\ Head(q) = q[1] /\ 1 \in 1..Len(q)
         /\ \A k \in 1..Len(Tail(q)) : k + 1 \in 1..Len(q) /\ Tail(q)[k] = q[k + 1]
  OBVIOUS

LEMMA AppendAt ==
  ASSUME NEW S, NEW q \in Seq(S), NEW e
  PROVE  \A k \in 1..Len(Append(q, e)) :
           \/ k \in 1..Len(q) /\ Append(q, e)[k] = q[k]
           \/ Append(q, e)[k] = e
  OBVIOUS

(* A step that neither opens a page for an opener nor moves a promise on.  *)
InUseStays == \A t \in Targets : open[t] # "unused" => open'[t] # "unused"
LeavesPromises ==
  /\ UNCHANGED <<owed, reply>> /\ InUseStays
  /\ \/ wire' = wire
     \/ wire # <<>> /\ wire' = Tail(wire)
     \/ \E m \in Message : m.t # "reply" /\ wire' = Append(wire, m)

LEMMA PromiseSteps ==
  ASSUME TypeOK, [Next]_vars
  PROVE  (\E o \in Openers : CreatePage(o)) \/ Reply \/ OnReply \/ Close \/ LeavesPromises
<1> USE DEF LeavesPromises, InUseStays, browserVars
<1>0. open \in [Targets -> {"unused", "opened", "attached", "detached"}]
  BY DEF TypeOK
<1>1. ASSUME NEW o \in Openers, OpenerStep(o) PROVE LeavesPromises
  BY <1>1 DEF OpenerStep, BeginNewPage, CallFails, CallReturns, WaitAttach, AttachReceived,
     AttachTimesOut, PageReady, ReadyTimesOut, SeesClosed, Expire
<1>2. ASSUME NEW t \in Targets, OnPopup(t) \/ DeliverPopup(t) \/ DropPopup(t)
      PROVE  LeavesPromises
  BY <1>2 DEF OnPopup, DeliverPopup, DropPopup, openVars
<1>3. ASSUME OnAttached \/ OnDetached \/ OnPageEvent PROVE LeavesPromises
  BY <1>3 DEF OnAttached, OnDetached, OnPageEvent, Take, openVars
<1>4. ASSUME NEW t \in Targets, Attach(t) PROVE LeavesPromises
  <2>1. [t |-> "attached", of |-> t, to |-> None] \in Message
    BY DEF Message
  <2>2. QED
    BY <1>0, <1>4, <2>1 DEF Attach, Emit, ClientUnchanged, openVars
<1>5. ASSUME NEW t \in Targets, Detach(t) PROVE LeavesPromises
  <2>1. [t |-> "detached", of |-> t, to |-> None] \in Message
    BY DEF Message
  <2>2. QED
    BY <1>0, <1>5, <2>1 DEF Detach, Emit, ClientUnchanged, openVars
<1>6. ASSUME NEW t \in Targets, NEW k \in PageEvents, ReportPage(t, k)
      PROVE  LeavesPromises
  <2>1. [t |-> k, of |-> t, to |-> None] \in Message /\ k # "reply"
    BY DEF Message, PageEvents
  <2>2. QED
    BY <1>0, <1>6, <2>1 DEF ReportPage, Emit, ClientUnchanged, openVars
<1>7. ASSUME NEW p \in Targets, NEW t \in Targets, OpenPopup(p, t) PROVE LeavesPromises
  BY <1>0, <1>7 DEF OpenPopup, ClientUnchanged, openVars
<1>8. CASE UNCHANGED vars
  BY <1>8 DEF vars, openVars
<1>9. QED
  BY <1>1, <1>2, <1>3, <1>4, <1>5, <1>6, <1>7, <1>8 DEF Next, Handlers, Browser

(* A target is promised to one opener only, and never to one that is not   *)
(* in use: a promise is made once, when the browser opens the page, and    *)
(* from then on only moves.                                                *)
LEMMA PromiseCorrect == Spec => []OnePromise
<1>1. Init => OnePromise
  <2> SUFFICES ASSUME Init PROVE OnePromise
    OBVIOUS
  <2>1. ASSUME NEW o \in Openers, NEW t \in Targets PROVE ~Promised(o, t)
    BY NullAssumption DEF Init, Promised
  <2>2. QED
    BY <2>1 DEF OnePromise
<1>2. TypeOK /\ OnePromise /\ [Next]_vars => OnePromise'
  <2> SUFFICES ASSUME TypeOK, OnePromise, [Next]_vars PROVE OnePromise'
    OBVIOUS
  <2> DEFINE Moves == \A o \in Openers, t \in Targets : Promised(o, t)' => Promised(o, t)
  <2>0. wire \in Seq(Message) /\ owed \subseteq Message
        /\ reply \in [Openers -> Targets \cup {None, Failed}]
        /\ open \in [Targets -> {"unused", "opened", "attached", "detached"}]
    BY DEF TypeOK
  <2>1. Moves /\ InUseStays => OnePromise'
    BY DEF OnePromise, InUseStays
  <2>2. CASE LeavesPromises
    <3> SUFFICES ASSUME NEW o \in Openers, NEW t \in Targets, Promised(o, t)'
                 PROVE  Promised(o, t)
      BY <2>1, <2>2 DEF LeavesPromises
    <3>1. UNCHANGED <<owed, reply>>
      BY <2>2 DEF LeavesPromises
    <3>2. ASSUME NEW k \in 1..Len(wire'), wire'[k] = PromiseOf(o, t)
          PROVE  \E j \in 1..Len(wire) : wire[j] = PromiseOf(o, t)
      <4>1. CASE wire' = wire
        BY <3>2, <4>1
      <4>2. CASE wire # <<>> /\ wire' = Tail(wire)
        BY <2>0, <3>2, <4>2, TailAt
      <4>3. ASSUME NEW m \in Message, m.t # "reply", wire' = Append(wire, m)
            PROVE  \E j \in 1..Len(wire) : wire[j] = PromiseOf(o, t)
        <5>1. m # PromiseOf(o, t)
          BY <4>3 DEF PromiseOf
        <5>2. QED
          BY <2>0, <3>2, <4>3, <5>1, AppendAt
      <4>4. QED
        BY <2>2, <4>1, <4>2, <4>3 DEF LeavesPromises
    <3>3. QED
      BY <3>1, <3>2 DEF Promised, PromiseOf
  <2>3. CASE Reply
    <3>1. PICK m \in owed : owed' = owed \ {m} /\ wire' = Append(wire, m)
      BY <2>3 DEF Reply, Emit
    <3>2. UNCHANGED <<open, reply>>
      BY <2>3 DEF Reply, ClientUnchanged, openVars
    <3> SUFFICES ASSUME NEW o \in Openers, NEW t \in Targets, Promised(o, t)'
                 PROVE  Promised(o, t)
      BY <2>1, <3>2 DEF InUseStays
    <3>3. ASSUME NEW k \in 1..Len(wire'), wire'[k] = PromiseOf(o, t)
          PROVE  Promised(o, t)
      BY <2>0, <3>1, <3>3, AppendAt DEF Promised
    <3>4. QED
      BY <3>1, <3>2, <3>3 DEF Promised, PromiseOf
  <2>4. CASE OnReply
    <3>1. /\ wire # <<>> /\ wire' = Tail(wire) /\ UNCHANGED <<open, owed>>
          /\ Head(wire).t = "reply"
      BY <2>4 DEF OnReply, Take, browserVars
    <3>2. /\ Head(wire) = wire[1] /\ 1 \in 1..Len(wire)
          /\ \A k \in 1..Len(wire') : k + 1 \in 1..Len(wire) /\ wire'[k] = wire[k + 1]
      BY <2>0, <3>1, TailAt
    <3> SUFFICES ASSUME NEW o \in Openers, NEW t \in Targets, Promised(o, t)'
                 PROVE  Promised(o, t)
      BY <2>1, <3>1 DEF InUseStays
    <3>3. ASSUME reply'[o] = t, reply[o] # t PROVE wire[1] = PromiseOf(o, t)
      <4>1. Head(wire).to = o /\ Head(wire).of = t
        BY <2>0, <2>4, <3>3 DEF OnReply, T
      <4>2. QED
        BY <2>0, <3>1, <3>2, <4>1, MessageKinds, HeadOfWire DEF PromiseOf
    <3>4. ASSUME NEW k \in 1..Len(wire'), wire'[k] = PromiseOf(o, t)
          PROVE  Promised(o, t)
      BY <3>2, <3>4 DEF Promised
    <3>5. QED
      BY <3>1, <3>2, <3>3, <3>4 DEF Promised, PromiseOf
  <2>5. CASE Close
    <3>1. wire' = <<>> /\ UNCHANGED <<open, owed, reply>>
      BY <2>5 DEF Close, ClientUnchanged, openVars
    <3>2. QED
      BY <2>1, <3>1 DEF Promised, PromiseOf, InUseStays
  <2>6. ASSUME NEW q \in Openers, CreatePage(q) PROVE OnePromise'
    <3>0. UNCHANGED <<wire, reply>>
      BY <2>6 DEF CreatePage, ClientUnchanged, openVars
    <3>1. CASE Owe(q, Failed) /\ UNCHANGED open
      <4>1. ASSUME NEW o \in Openers, NEW t \in Targets
            PROVE  PromiseOf(o, t) # [t |-> "reply", of |-> Failed, to |-> q]
        BY NullAssumption DEF PromiseOf
      <4>2. Moves
        BY <3>0, <3>1, <4>1 DEF Promised, PromiseOf, Owe
      <4>3. QED
        BY <2>1, <3>1, <4>2 DEF InUseStays
    <3>2. ASSUME NEW u \in Targets, open[u] = "unused",
                 open' = [open EXCEPT ![u] = "opened"], Owe(q, u)
          PROVE  OnePromise'
      <4>1. \A o \in Openers : ~Promised(o, u)
        BY <3>2 DEF OnePromise
      <4>2. ASSUME NEW o \in Openers, NEW t \in Targets, Promised(o, t)'
            PROVE  Promised(o, t) \/ (o = q /\ t = u)
        <5>1. PromiseOf(o, t) = PromiseOf(q, u) => o = q /\ t = u
          BY DEF PromiseOf
        <5>2. owed' = owed \cup {PromiseOf(q, u)}
          BY <3>2 DEF Owe, PromiseOf
        <5>3. QED
          BY <3>0, <4>2, <5>1, <5>2 DEF Promised, PromiseOf
      <4>3. InUseStays /\ open'[u] # "unused"
        BY <2>0, <3>2 DEF InUseStays
      <4>4. QED
        BY <4>1, <4>2, <4>3 DEF OnePromise, InUseStays
    <3>3. QED
      BY <2>6, <3>1, <3>2 DEF CreatePage
  <2>7. QED
    BY <2>2, <2>3, <2>4, <2>5, <2>6, PromiseSteps
<1>3. QED
  BY <1>1, <1>2, TargetsTypeCorrect, PTL DEF Spec

(* Who waits with an empty channel is registered: nobody else leaves or    *)
(* removes an entry under the same target.                                 *)
LEMMA RegisteredCorrect == Spec => []RegisteredInv
<1> USE NullAssumption DEF RegisteredInv
<1>1. Init => RegisteredInv
  BY DEF Init
<1>2. TypeOK /\ ChannelInv /\ OnePromise /\ RegisteredInv /\ [Next]_vars => RegisteredInv'
  <2> SUFFICES ASSUME TypeOK, ChannelInv, OnePromise, RegisteredInv, [Next]_vars
               PROVE  RegisteredInv'
    OBVIOUS
  <2> USE DEF openVars, mapVars, Return
  <2>0. /\ pc \in [Openers -> {"idle", "calling", "replied", "attaching", "readying", "returned"}]
        /\ reply \in [Openers -> Targets \cup {None, Failed}]
        /\ slot \in [Openers -> Targets \cup {None}]
        /\ attachWaiters \in [Targets -> Openers \cup {None}]
        /\ \A o \in Openers : pc[o] \in {"replied", "attaching"} => reply[o] \in Targets
        /\ \A o, q \in Openers : reply[o] = reply[q] /\ reply[o] \in Targets => o = q
    BY DEF TypeOK, ChannelInv, OnePromise, Promised
  <2>1. ASSUME NEW o \in Openers, BeginNewPage(o) PROVE RegisteredInv'
    BY <2>0, <2>1 DEF BeginNewPage
  <2>2. ASSUME NEW o \in Openers, CallFails(o) PROVE RegisteredInv'
    BY <2>0, <2>2 DEF CallFails
  <2>3. ASSUME NEW o \in Openers, CallReturns(o) PROVE RegisteredInv'
    BY <2>0, <2>3 DEF CallReturns
  <2>4. ASSUME NEW o \in Openers, WaitAttach(o) PROVE RegisteredInv'
    BY <2>0, <2>4 DEF WaitAttach
  <2>5. ASSUME NEW o \in Openers, AttachReceived(o) PROVE RegisteredInv'
    BY <2>0, <2>5 DEF AttachReceived
  <2>6. ASSUME NEW o \in Openers, AttachTimesOut(o) PROVE RegisteredInv'
    BY <2>0, <2>6 DEF AttachTimesOut
  <2>7. ASSUME NEW o \in Openers, PageReady(o) PROVE RegisteredInv'
    BY <2>0, <2>7 DEF PageReady
  <2>8. ASSUME NEW o \in Openers, ReadyTimesOut(o) PROVE RegisteredInv'
    BY <2>0, <2>8 DEF ReadyTimesOut
  <2>9. ASSUME NEW o \in Openers, SeesClosed(o) PROVE RegisteredInv'
    BY <2>0, <2>9 DEF SeesClosed
  <2>10. CASE OnAttached
    <3>1. T \in Targets
      BY <2>10, HeadOfWire, MessageKinds DEF OnAttached, Take, T
    <3>2. /\ attachWaiters' = [attachWaiters EXCEPT ![T] = None]
          /\ attachWaiters[T] # None => slot' = [slot EXCEPT ![attachWaiters[T]] = T]
          /\ attachWaiters[T] = None => slot' = slot
          /\ UNCHANGED <<pc, reply>>
      BY <2>10 DEF OnAttached
    <3>3. QED
      BY <2>0, <3>1, <3>2
  <2>11. CASE OnReply
    <3>1. \A o \in Openers : reply'[o] # reply[o] => pc[o] = "calling"
      BY <2>0, <2>11 DEF OnReply
    <3>2. UNCHANGED <<pc, slot, attachWaiters>>
      BY <2>11 DEF OnReply
    <3>3. QED
      BY <2>0, <3>1, <3>2
  <2>12. CASE UNCHANGED <<pc, result, reply, slot, got, attachWaiters>>
    BY <2>12
  <2>13. QED
    BY <2>1, <2>2, <2>3, <2>4, <2>5, <2>6, <2>7, <2>8, <2>9, <2>10, <2>11, <2>12, WaitSteps
<1>3. QED
  BY <1>1, <1>2, TargetsTypeCorrect, ChannelCorrect, PromiseCorrect, PTL DEF Spec

(* No wakeup is lost: whichever of the reply and the attach event is acted *)
(* on first, a NewPage whose page is attached finds it in its channel.     *)
THEOREM NoLostWakeup == Spec => []AttachWakesWaiter
<1> USE NullAssumption DEF AttachWakesWaiter
<1>1. Init => AttachWakesWaiter
  BY DEF Init
<1>2. TypeOK /\ ChannelInv /\ RegisteredInv /\ AttachWakesWaiter /\ [Next]_vars
      => AttachWakesWaiter'
  <2> SUFFICES ASSUME TypeOK, ChannelInv, RegisteredInv, AttachWakesWaiter, [Next]_vars
               PROVE  AttachWakesWaiter'
    OBVIOUS
  <2> USE DEF openVars, mapVars, Return
  <2>0. /\ pc \in [Openers -> {"idle", "calling", "replied", "attaching", "readying", "returned"}]
        /\ reply \in [Openers -> Targets \cup {None, Failed}]
        /\ slot \in [Openers -> Targets \cup {None}]
        /\ attachWaiters \in [Targets -> Openers \cup {None}]
        /\ \A o \in Openers : slot[o] \in {None, reply[o]}
        /\ \A t \in Targets, o \in Openers :
             attachWaiters[t] = o => reply[o] = t /\ slot[o] = None
    BY DEF TypeOK, ChannelInv
  <2>a. OnAttached \/ attached' \subseteq attached
    BY DEF Next, OpenerStep, Handlers, Browser, vars, BeginNewPage, CallFails, CallReturns,
       WaitAttach, AttachReceived, AttachTimesOut, PageReady, ReadyTimesOut, SeesClosed,
       Expire, OnPopup, DeliverPopup, DropPopup, OnReply, OnDetached, OnPageEvent, CreatePage,
       Reply, Close, Attach, Detach, ReportPage, OpenPopup, ClientUnchanged
  <2>1. ASSUME NEW o \in Openers, BeginNewPage(o) PROVE AttachWakesWaiter'
    BY <2>0, <2>1 DEF BeginNewPage
  <2>2. ASSUME NEW o \in Openers, CallFails(o) PROVE AttachWakesWaiter'
    BY <2>0, <2>2 DEF CallFails
  <2>3. ASSUME NEW o \in Openers, CallReturns(o) PROVE AttachWakesWaiter'
    BY <2>0, <2>3 DEF CallReturns
  <2>4. ASSUME NEW o \in Openers, WaitAttach(o) PROVE AttachWakesWaiter'
    BY <2>0, <2>4 DEF WaitAttach
  <2>5. ASSUME NEW o \in Openers, AttachReceived(o) PROVE AttachWakesWaiter'
    BY <2>0, <2>5 DEF AttachReceived
  <2>6. ASSUME NEW o \in Openers, AttachTimesOut(o) PROVE AttachWakesWaiter'
    BY <2>0, <2>6 DEF AttachTimesOut
  <2>7. ASSUME NEW o \in Openers, PageReady(o) PROVE AttachWakesWaiter'
    BY <2>0, <2>7 DEF PageReady
  <2>8. ASSUME NEW o \in Openers, ReadyTimesOut(o) PROVE AttachWakesWaiter'
    BY <2>0, <2>8 DEF ReadyTimesOut
  <2>9. ASSUME NEW o \in Openers, SeesClosed(o) PROVE AttachWakesWaiter'
    BY <2>0, <2>9 DEF SeesClosed
  <2>10. CASE OnAttached
    <3>1. T \in Targets
      BY <2>10, HeadOfWire, MessageKinds DEF OnAttached, Take, T
    <3>2. /\ attached' = attached \cup {T}
          /\ attachWaiters[T] # None => slot' = [slot EXCEPT ![attachWaiters[T]] = T]
          /\ attachWaiters[T] = None => slot' = slot
          /\ UNCHANGED <<pc, reply>>
      BY <2>10 DEF OnAttached
    <3> SUFFICES ASSUME NEW o \in Openers, pc[o] = "attaching", reply[o] \in attached'
                 PROVE  slot'[o] = reply[o]
      BY <3>2
    <3>3. CASE slot[o] = None /\ reply[o] \notin attached
      <4>1. reply[o] = T /\ attachWaiters[T] = o
        BY <3>2, <3>3 DEF RegisteredInv
      <4>2. QED
        BY <2>0, <3>2, <4>1
    <3>4. CASE slot[o] = reply[o]
      BY <2>0, <3>1, <3>2, <3>4
    <3>5. QED
      BY <2>0, <3>3, <3>4
  <2>11. CASE OnReply
    <3>1. \A o \in Openers : reply'[o] # reply[o] => pc[o] = "calling"
      BY <2>0, <2>11 DEF OnReply
    <3>2. UNCHANGED <<pc, slot, attached>>
      BY <2>11 DEF OnReply
    <3>3. QED
      BY <2>0, <3>1, <3>2
  <2>12. CASE UNCHANGED <<pc, result, reply, slot, got, attachWaiters>>
    <3>1. CASE OnAttached
      BY <2>10, <3>1
    <3>2. CASE attached' \subseteq attached
      BY <2>12, <3>2
    <3>3. QED
      BY <2>a, <3>1, <3>2
  <2>13. QED
    BY <2>1, <2>2, <2>3, <2>4, <2>5, <2>6, <2>7, <2>8, <2>9, <2>10, <2>11, <2>12, WaitSteps
<1>3. QED
  BY <1>1, <1>2, TargetsTypeCorrect, ChannelCorrect, RegisteredCorrect, PTL DEF Spec

-----------------------------------------------------------------------------
(* Steps that leave a page's attach and detach events, and the maps, alone. *)
Life == {"attached", "detached"}
LeavesLife ==
  /\ UNCHANGED <<pages, attached, closed>>
  /\ \A t \in Targets : open'[t] = open[t] \/ (open[t] = "unused" /\ open'[t] = "opened")
  /\ \/ wire' = wire
     \/ wire # <<>> /\ Head(wire).t \notin Life /\ wire' = Tail(wire)
     \/ \E m \in Message : m.t \notin Life /\ wire' = Append(wire, m)

LEMMA LifeSteps ==
  ASSUME TypeOK, \A m \in owed : m.t = "reply", [Next]_vars
  PROVE  \/ OnAttached \/ OnDetached \/ Close
         \/ \E t \in Targets : Attach(t) \/ Detach(t)
         \/ LeavesLife
<1> USE DEF LeavesLife, Life, browserVars, mapVars, openVars
<1>0. open \in [Targets -> {"unused", "opened", "attached", "detached"}] /\ owed \subseteq Message
  BY DEF TypeOK
<1>1. ASSUME NEW o \in Openers, OpenerStep(o) PROVE LeavesLife
  BY <1>1 DEF OpenerStep, BeginNewPage, CallFails, CallReturns, WaitAttach, AttachReceived,
     AttachTimesOut, PageReady, ReadyTimesOut, SeesClosed, Expire
<1>2. ASSUME NEW t \in Targets, OnPopup(t) \/ DeliverPopup(t) \/ DropPopup(t)
      PROVE  LeavesLife
  BY <1>2 DEF OnPopup, DeliverPopup, DropPopup
<1>3. ASSUME OnPageEvent \/ OnReply PROVE LeavesLife
  BY <1>3 DEF OnPageEvent, OnReply, Take, PageEvents
<1>4. ASSUME NEW o \in Openers, CreatePage(o) PROVE LeavesLife
  BY <1>0, <1>4 DEF CreatePage, ClientUnchanged
<1>5. CASE Reply
  <2>1. PICK m \in owed : wire' = Append(wire, m)
    BY <1>5 DEF Reply, Emit
  <2>2. QED
    BY <1>0, <1>5, <2>1 DEF Reply, ClientUnchanged
<1>6. ASSUME NEW t \in Targets, NEW k \in PageEvents, ReportPage(t, k)
      PROVE  LeavesLife
  <2>1. [t |-> k, of |-> t, to |-> None] \in Message /\ k \notin Life
    BY DEF Message, PageEvents
  <2>2. QED
    BY <1>0, <1>6, <2>1 DEF ReportPage, Emit, ClientUnchanged
<1>7. ASSUME NEW p \in Targets, NEW t \in Targets, OpenPopup(p, t) PROVE LeavesLife
  BY <1>0, <1>7 DEF OpenPopup, ClientUnchanged
<1>8. CASE UNCHANGED vars
  BY <1>8 DEF vars
<1>9. QED
  BY <1>1, <1>2, <1>3, <1>4, <1>5, <1>6, <1>7, <1>8 DEF Next, Handlers, Browser

(* Taking or adding a message changes what is on the wire by that message. *)
IsOf(m, kind, t) == m.t = kind /\ m.of = t

LEMMA TakesOne ==
  ASSUME wire \in Seq(Message), wire # <<>>, wire' = Tail(wire), NEW t
  PROVE  /\ \A kind : OnWire(kind, t) <=> OnWire(kind, t)' \/ IsOf(Head(wire), kind, t)
         /\ InOrder(t) => InOrder(t)'
         /\ InOrder(t) /\ IsOf(Head(wire), "detached", t) => ~OnWire("attached", t)
<1>1. /\ Len(wire') \in Nat /\ Len(wire) = Len(wire') + 1 /\ Head(wire) = wire[1]
      /\ \A k \in 1..Len(wire') : k + 1 \in 1..Len(wire) /\ wire'[k] = wire[k + 1]
  OBVIOUS
<1>2. \A k \in 1..Len(wire) : k = 1 \/ (k - 1 \in 1..Len(wire') /\ wire[k] = wire'[k - 1])
  BY <1>1
<1>3. ASSUME NEW kind
      PROVE  OnWire(kind, t) <=> OnWire(kind, t)' \/ IsOf(Head(wire), kind, t)
  <2>1. ASSUME NEW k \in 1..Len(wire), Sent(k, kind, t)
        PROVE  OnWire(kind, t)' \/ IsOf(Head(wire), kind, t)
    <3>1. CASE k = 1
      BY <1>1, <2>1, <3>1 DEF Sent, IsOf
    <3>2. CASE k - 1 \in 1..Len(wire') /\ wire[k] = wire'[k - 1]
      BY <2>1, <3>2 DEF Sent, OnWire
    <3>3. QED
      BY <1>2, <3>1, <3>2
  <2>2. OnWire(kind, t)' => OnWire(kind, t)
    BY <1>1 DEF OnWire, Sent
  <2>3. IsOf(Head(wire), kind, t) => OnWire(kind, t)
    <3>1. 1 \in 1..Len(wire)
      BY <1>1
    <3>2. QED
      BY <1>1, <3>1 DEF OnWire, Sent, IsOf
  <2>4. QED
    BY <2>1, <2>2, <2>3 DEF OnWire
<1>4. InOrder(t) => InOrder(t)'
  <2> SUFFICES ASSUME InOrder(t), NEW j \in 1..Len(wire'), NEW k \in 1..Len(wire'),
                      wire'[j].t = "attached", wire'[j].of = t,
                      wire'[k].t = "detached", wire'[k].of = t
               PROVE  j < k
    BY DEF InOrder, Sent
  <2>1. Sent(j + 1, "attached", t) /\ Sent(k + 1, "detached", t)
    BY <1>1 DEF Sent
  <2>2. j + 1 < k + 1
    BY <1>1, <2>1 DEF InOrder
  <2>3. QED
    BY <2>2
<1>5. InOrder(t) /\ IsOf(Head(wire), "detached", t) => ~OnWire("attached", t)
  <2> SUFFICES ASSUME InOrder(t), IsOf(Head(wire), "detached", t),
                      NEW j \in 1..Len(wire), Sent(j, "attached", t)
               PROVE  FALSE
    BY DEF OnWire
  <2>1. 1 \in 1..Len(wire) /\ Sent(1, "detached", t)
    BY <1>1 DEF Sent, IsOf
  <2>2. j < 1
    BY <2>1 DEF InOrder
  <2>3. QED
    BY <2>2
<1>6. QED
  BY <1>3, <1>4, <1>5

LEMMA AddsOne ==
  ASSUME wire \in Seq(Message), NEW m, wire' = Append(wire, m), NEW t
  PROVE  /\ \A kind : OnWire(kind, t)' <=> OnWire(kind, t) \/ IsOf(m, kind, t)
         /\ InOrder(t) /\ (IsOf(m, "attached", t) => ~OnWire("detached", t))
              => InOrder(t)'
<1>1. /\ Len(wire) \in Nat /\ Len(wire') = Len(wire) + 1 /\ wire'[Len(wire) + 1] = m
      /\ \A k \in 1..Len(wire) : k \in 1..Len(wire') /\ wire'[k] = wire[k]
  OBVIOUS
<1>2. \A k \in 1..Len(wire') : k = Len(wire) + 1 \/ k \in 1..Len(wire)
  BY <1>1
<1>3. Len(wire) + 1 \in 1..Len(wire')
  BY <1>1
<1>4. ASSUME NEW kind
      PROVE  OnWire(kind, t)' <=> OnWire(kind, t) \/ IsOf(m, kind, t)
  <2>1. ASSUME NEW k \in 1..Len(wire'), Sent(k, kind, t)'
        PROVE  OnWire(kind, t) \/ IsOf(m, kind, t)
    <3>1. CASE k = Len(wire) + 1
      BY <1>1, <2>1, <3>1 DEF Sent, IsOf
    <3>2. CASE k \in 1..Len(wire)
      BY <1>1, <2>1, <3>2 DEF Sent, OnWire
    <3>3. QED
      BY <1>2, <3>1, <3>2
  <2>2. OnWire(kind, t) => OnWire(kind, t)'
    BY <1>1 DEF OnWire, Sent
  <2>3. IsOf(m, kind, t) => OnWire(kind, t)'
    <3>1. PICK k \in 1..Len(wire') : wire'[k] = m
      BY <1>1, <1>3
    <3>2. IsOf(m, kind, t) => Sent(k, kind, t)'
      BY <3>1 DEF Sent, IsOf
    <3>3. QED
      BY <3>1, <3>2 DEF OnWire
  <2>4. QED
    BY <2>1, <2>2, <2>3 DEF OnWire
<1>5. ASSUME InOrder(t), IsOf(m, "attached", t) => ~OnWire("detached", t),
             NEW j \in 1..Len(wire'), NEW k \in 1..Len(wire'),
             Sent(j, "attached", t)', Sent(k, "detached", t)'
      PROVE  j < k
  <2>1. CASE j \in 1..Len(wire) /\ k \in 1..Len(wire)
    BY <1>1, <1>5, <2>1 DEF InOrder, Sent
  <2>2. CASE j \in 1..Len(wire) /\ k = Len(wire) + 1
    BY <1>1, <2>2
  <2>3. CASE j = Len(wire) + 1
    <3>1. IsOf(m, "attached", t)
      BY <1>1, <1>5, <2>3 DEF Sent, IsOf
    <3>2. k # Len(wire) + 1
      BY <1>1, <1>5, <3>1 DEF Sent, IsOf
    <3>3. k \in 1..Len(wire) /\ Sent(k, "detached", t)
      BY <1>1, <1>2, <1>5, <3>2 DEF Sent
    <3>4. QED
      BY <1>5, <3>1, <3>3 DEF OnWire
  <2>4. QED
    BY <1>2, <2>1, <2>2, <2>3
<1>6. QED
  BY <1>4, <1>5 DEF InOrder

(* What the maps hold follows the browser at a distance: the events of one *)
(* page are in the order they were sent in, so the last one decides.       *)
LEMMA LifeCorrect == Spec => []LifeInv
<1>1. Init => LifeInv
  BY DEF Init, LifeInv, OnWire, Sent, InOrder
<1>2. TypeOK /\ LifeInv /\ [Next]_vars => LifeInv'
  <2> SUFFICES ASSUME TypeOK, LifeInv, [Next]_vars PROVE LifeInv'
    OBVIOUS
  <2>0. /\ wire \in Seq(Message) /\ closed \in BOOLEAN
        /\ open \in [Targets -> {"unused", "opened", "attached", "detached"}]
        /\ Len(wire) \in Nat
    BY DEF TypeOK
  <2>a. (\A m \in owed : m.t = "reply")'
    <3>1. ASSUME NEW o \in Openers, CreatePage(o) PROVE <2>a
      <4>1. \A t : [t |-> "reply", of |-> t, to |-> o].t = "reply"
        OBVIOUS
      <4>2. QED
        BY <3>1, <4>1 DEF CreatePage, Owe, LifeInv
    <3>2. CASE owed' \subseteq owed
      BY <3>2 DEF LifeInv
    <3>3. (\E o \in Openers : CreatePage(o)) \/ owed' \subseteq owed
      BY DEF Next, OpenerStep, Handlers, Browser, vars, browserVars, BeginNewPage, CallFails,
         CallReturns, WaitAttach, AttachReceived, AttachTimesOut, PageReady, ReadyTimesOut,
         SeesClosed, Expire, OnPopup, DeliverPopup, DropPopup, OnAttached, OnReply, OnDetached,
         OnPageEvent, Reply, Close, Attach, Detach, ReportPage, OpenPopup
    <3>4. QED
      BY <3>1, <3>2, <3>3
  <2> DEFINE Follows(t) ==
        /\ OnWire("detached", t) => open[t] = "detached"
        /\ InOrder(t)
        /\ open[t] = "attached" => t \in pages \/ OnWire("attached", t)
        /\ open[t] # "attached" /\ (t \in pages \/ OnWire("attached", t))
             => OnWire("detached", t)
  <2>b. ~closed => \A t \in Targets : Follows(t)
    BY DEF LifeInv
  <2>c. attached' = pages' /\ (~closed' => \A t \in Targets : Follows(t)') => LifeInv'
    BY <2>a DEF LifeInv
  <2>d. attached = pages
    BY DEF LifeInv
  <2> HIDE DEF Follows
  <2>1. CASE LeavesLife
    <3> SUFFICES ASSUME ~closed, NEW t \in Targets PROVE Follows(t)'
      BY <2>1, <2>c, <2>d DEF LeavesLife
    <3>0. /\ Follows(t) /\ pages' = pages
          /\ open'[t] = open[t] \/ (open[t] = "unused" /\ open'[t] = "opened")
      BY <2>1, <2>b DEF LeavesLife
    <3>1. /\ \A kind \in Life : OnWire(kind, t)' <=> OnWire(kind, t)
          /\ InOrder(t)'
      <4>0. InOrder(t)
        BY <3>0 DEF Follows
      <4>1. CASE wire' = wire
        BY <4>0, <4>1 DEF OnWire, Sent, InOrder
      <4>2. CASE wire # <<>> /\ Head(wire).t \notin Life /\ wire' = Tail(wire)
        BY <2>0, <4>0, <4>2, TakesOne DEF IsOf
      <4>3. ASSUME NEW m \in Message, m.t \notin Life, wire' = Append(wire, m)
            PROVE  <3>1
        BY <2>0, <4>0, <4>3, AddsOne DEF IsOf, Life
      <4>4. QED
        BY <2>1, <4>1, <4>2, <4>3 DEF LeavesLife
    <3>2. QED
      BY <3>0, <3>1 DEF Follows, Life
  <2>2. CASE OnAttached
    <3>0. /\ wire # <<>> /\ Head(wire).t = "attached" /\ wire' = Tail(wire)
          /\ pages' = pages \cup {T} /\ attached' = attached \cup {T}
          /\ UNCHANGED <<open, closed>>
      BY <2>2 DEF OnAttached, Take, browserVars
    <3> SUFFICES ASSUME ~closed, NEW t \in Targets PROVE Follows(t)'
      BY <2>c, <2>d, <3>0
    <3>1. Follows(t)
      BY <2>b
    <3>2. /\ OnWire("detached", t) <=> OnWire("detached", t)'
          /\ OnWire("attached", t) <=> OnWire("attached", t)' \/ T = t
          /\ InOrder(t) => InOrder(t)'
      BY <2>0, <3>0, TakesOne DEF IsOf, T
    <3>3. QED
      BY <3>0, <3>1, <3>2 DEF Follows
  <2>3. CASE OnDetached
    <3>0. /\ wire # <<>> /\ Head(wire).t = "detached" /\ wire' = Tail(wire)
          /\ pages' = pages \ {T} /\ attached' = attached \ {T}
          /\ UNCHANGED <<open, closed>>
      BY <2>3 DEF OnDetached, Take, browserVars
    <3> SUFFICES ASSUME ~closed, NEW t \in Targets PROVE Follows(t)'
      BY <2>c, <2>d, <3>0
    <3>1. Follows(t)
      BY <2>b
    <3>2. /\ OnWire("attached", t) <=> OnWire("attached", t)'
          /\ OnWire("detached", t) <=> OnWire("detached", t)' \/ T = t
          /\ InOrder(t) => InOrder(t)'
          /\ InOrder(t) /\ T = t => ~OnWire("attached", t)
      BY <2>0, <3>0, TakesOne DEF IsOf, T
    <3>3. QED
      BY <3>0, <3>1, <3>2 DEF Follows
  <2>4. CASE Close
    BY <2>4, <2>c, <2>d DEF Close, ClientUnchanged, mapVars
  <2>5. ASSUME NEW u \in Targets, Attach(u) PROVE LifeInv'
    <3> DEFINE m == [t |-> "attached", of |-> u, to |-> None]
    <3>0. /\ wire' = Append(wire, m) /\ UNCHANGED <<closed, pages, attached>> /\ ~closed
          /\ open[u] = "opened" /\ open' = [open EXCEPT ![u] = "attached"]
      BY <2>5 DEF Attach, Emit, ClientUnchanged, mapVars
    <3> SUFFICES ASSUME NEW t \in Targets PROVE Follows(t)'
      BY <2>c, <2>d, <3>0
    <3>1. Follows(t)
      BY <2>b, <3>0
    <3>2. \A kind : IsOf(m, kind, t) <=> kind = "attached" /\ t = u
      BY DEF IsOf
    <3>3. t = u => ~OnWire("detached", t)
      BY <3>0, <3>1 DEF Follows
    <3>4. /\ OnWire("detached", t)' <=> OnWire("detached", t)
          /\ OnWire("attached", t)' <=> OnWire("attached", t) \/ t = u
          /\ InOrder(t) => InOrder(t)'
      <4> HIDE DEF m
      <4>1. QED
        BY <2>0, <3>0, <3>2, <3>3, AddsOne
    <3>5. QED
      BY <2>0, <3>0, <3>1, <3>3, <3>4 DEF Follows
  <2>6. ASSUME NEW u \in Targets, Detach(u) PROVE LifeInv'
    <3> DEFINE m == [t |-> "detached", of |-> u, to |-> None]
    <3>0. /\ wire' = Append(wire, m) /\ UNCHANGED <<closed, pages, attached>> /\ ~closed
          /\ open[u] = "attached" /\ open' = [open EXCEPT ![u] = "detached"]
      BY <2>6 DEF Detach, Emit, ClientUnchanged, mapVars
    <3> SUFFICES ASSUME NEW t \in Targets PROVE Follows(t)'
      BY <2>c, <2>d, <3>0
    <3>1. Follows(t)
      BY <2>b, <3>0
    <3>2. \A kind : IsOf(m, kind, t) <=> kind = "detached" /\ t = u
      BY DEF IsOf
    <3>3. /\ OnWire("attached", t)' <=> OnWire("attached", t)
          /\ OnWire("detached", t)' <=> OnWire("detached", t) \/ t = u
          /\ InOrder(t) => InOrder(t)'
      <4> HIDE DEF m
      <4>1. QED
        BY <2>0, <3>0, <3>2, AddsOne
    <3>4. QED
      BY <2>0, <3>0, <3>1, <3>3 DEF Follows
  <2>7. QED
    BY <2>1, <2>2, <2>3, <2>4, <2>5, <2>6, LifeSteps DEF LifeInv
<1>3. QED
  BY <1>1, <1>2, TargetsTypeCorrect, PTL DEF Spec

(* Whatever pages attach and detach, and however the events lie between    *)
(* replies and reports, Browser.pages and Browser.attached end up as the   *)
(* pages the browser has open: onAttached and onDetached keep the two maps *)
(* the same and lose no page.                                              *)
THEOREM PagesCatchUp == Spec => []PagesSettle
<1>1. TypeOK /\ LifeInv => PagesSettle
  <2> SUFFICES ASSUME TypeOK, LifeInv, wire = <<>>, ~closed
               PROVE  pages = {t \in Targets : open[t] = "attached"} /\ attached = pages
    BY DEF PagesSettle
  <2>1. \A t \in Targets, kind \in Life : ~OnWire(kind, t)
    BY DEF OnWire
  <2>2. \A t \in Targets : t \in pages <=> open[t] = "attached"
    BY <2>1 DEF LifeInv, Life
  <2>3. QED
    BY <2>2 DEF LifeInv, TypeOK
<1>2. QED
  BY <1>1, LifeCorrect, TargetsTypeCorrect, PTL

=============================================================================
